--------------------------- MODULE Bookings_proofs ---------------------------
(***************************************************************************)
(* What Bookings guarantees for every set of clients, rows, windows and    *)
(* keys.                                                                   *)
(***************************************************************************)
EXTENDS Bookings, TLAPS

(* The target of every entry of the table is a state, so that Write keeps  *)
(* rows well typed.                                                        *)
LEMMA TransitionTargets ==
    \A a \in Actions : /\ BOOKING_TRANSITIONS[a].to \in States \ {"NONE"}
                       /\ BOOKING_TRANSITIONS[a].to \in BOOKING_ACTIVE
                            => BOOKING_TRANSITIONS[a].from \subseteq BOOKING_ACTIVE
BY DEF Actions, BOOKING_TRANSITIONS, States, BOOKING_ACTIVE, BOOKING_TERMINAL

(* What an open transaction holds, read off its op field. *)
LEMMA TransactionFields ==
    ASSUME NEW t \in Transactions
    PROVE  /\ t.op = "create" => t.id \in Ids /\ t.slot \in Slots /\ t.key \in Keys \cup {NoKey}
           /\ t.op = "act" => t.id \in Ids /\ t.action \in Actions
BY DEF Transactions, Idle, Creating, Acting

(* TypeOK holds in every reachable state: every write of create and of the *)
(* transition handlers stays within the columns' values.                   *)
THEOREM TypeCorrect == Spec => []TypeOK
<1>1. Init => TypeOK
  BY SlotsAssumption DEF Init, TypeOK, States, Transactions
<1>2. TypeOK /\ [Next]_vars => TypeOK'
  <2> SUFFICES ASSUME TypeOK, [Next]_vars PROVE TypeOK'
    OBVIOUS
  <2> USE DEF TypeOK
  <2>1. ASSUME NEW c \in Clients, NEW b \in Ids, NEW s \in Slots,
               NEW k \in Keys \cup {NoKey}, CreateCheck(c, b, s, k)
        PROVE  TypeOK'
    <3>1. Creating(b, s, k) \in Transactions
      BY DEF Transactions
    <3> QED BY <2>1, <3>1 DEF CreateCheck
  <2>2. ASSUME NEW c \in Clients, CreateInsert(c) PROVE TypeOK'
    <3>1. Idle \in Transactions
      BY DEF Transactions
    <3>2. "REQUESTED" \in States
      BY DEF States, BOOKING_ACTIVE
    <3>3. tx[c] \in Transactions
      OBVIOUS
    <3> QED BY <2>2, <3>1, <3>2, <3>3, TransactionFields DEF CreateInsert
  <2>3. ASSUME NEW c \in Clients, NEW b \in Ids, NEW a \in Actions, Load(c, b, a) PROVE TypeOK'
    <3>1. Acting(b, a, "loaded") \in Transactions /\ Acting(b, a, "checked") \in Transactions
      BY DEF Transactions
    <3> QED BY <2>3, <3>1 DEF Load
  <2>4. ASSUME NEW c \in Clients, ApproveCheck(c) PROVE TypeOK'
    <3>1. tx[c] \in Transactions /\ Idle \in Transactions
      BY DEF Transactions
    <3>2. Acting(tx[c].id, tx[c].action, "checked") \in Transactions
      BY <2>4, <3>1, TransactionFields DEF ApproveCheck, Transactions
    <3> QED BY <2>4, <3>1, <3>2 DEF ApproveCheck
  <2>5. ASSUME NEW c \in Clients, Write(c) PROVE TypeOK'
    <3>1. tx[c] \in Transactions /\ Idle \in Transactions
      BY DEF Transactions
    <3> QED BY <2>5, <3>1, TransactionFields, TransitionTargets DEF Write
  <2>6. ASSUME NEW c \in Clients, Rollback(c) PROVE TypeOK'
    BY <2>6 DEF Rollback, Transactions
  <2>7. CASE UNCHANGED vars
    BY <2>7 DEF vars
  <2> QED BY <2>1, <2>2, <2>3, <2>4, <2>5, <2>6, <2>7 DEF Next
<1> QED BY <1>1, <1>2, PTL DEF Spec

-----------------------------------------------------------------------------
(* A handler past its load holds the id of a committed row: rows are never *)
(* deleted.  OneBookingPerKey needs it, since Write must not make a row.   *)
ActsOnRows == \A c \in Clients : tx[c].op = "act" => tx[c].id \in Rows

KeyInv == TypeOK /\ ActsOnRows /\ OneBookingPerKey

LEMMA KeyInvInit == Init => KeyInv
<1> SUFFICES ASSUME Init PROVE KeyInv
  OBVIOUS
<1>1. TypeOK
  BY SlotsAssumption DEF Init, TypeOK, States, Transactions
<1>2. ActsOnRows
  BY DEF Init, ActsOnRows, Idle
<1>3. OneBookingPerKey
  BY DEF Init, OneBookingPerKey, Rows
<1> QED BY <1>1, <1>2, <1>3 DEF KeyInv

LEMMA KeyInvNext == KeyInv /\ TypeOK' /\ [Next]_vars => KeyInv'
<1> SUFFICES ASSUME KeyInv, TypeOK', [Next]_vars PROVE ActsOnRows' /\ OneBookingPerKey'
  BY DEF KeyInv
<1> USE DEF KeyInv
<1>1. ASSUME NEW c \in Clients, CreateInsert(c) PROVE ActsOnRows' /\ OneBookingPerKey'
  <2>1. tx[c] \in Transactions /\ tx[c].op = "create"
    BY <1>1 DEF CreateInsert, TypeOK
  <2>2. tx[c].id \in Ids
    BY <2>1, TransactionFields
  <2>3. Rows' = Rows \cup {tx[c].id}
    BY <1>1, <2>2 DEF CreateInsert, Rows, TypeOK
  <2>4. \A b \in Ids : b # tx[c].id => key'[b] = key[b]
    BY <1>1 DEF CreateInsert, TypeOK
  <2>5. key'[tx[c].id] = tx[c].key
    BY <1>1, <2>2 DEF CreateInsert, TypeOK
  <2>6. tx[c].key = NoKey \/ \A b \in Rows : key[b] # tx[c].key
    BY <1>1 DEF CreateInsert, KeyStored
  <2>7. Rows \subseteq Ids
    BY DEF Rows
  <2>8. OneBookingPerKey'
    BY <2>2, <2>3, <2>4, <2>5, <2>6, <2>7 DEF OneBookingPerKey
  <2>9. \A d \in Clients : tx'[d] = IF d = c THEN Idle ELSE tx[d]
    BY <1>1 DEF CreateInsert, TypeOK
  <2> QED BY <2>3, <2>8, <2>9 DEF ActsOnRows, Idle
<1>2. ASSUME NEW c \in Clients, Write(c) PROVE ActsOnRows' /\ OneBookingPerKey'
  <2>1. tx[c] \in Transactions /\ tx[c].op = "act" /\ tx[c].id \in Rows
    BY <1>2 DEF Write, TypeOK, ActsOnRows
  <2>2. Rows' = Rows
    BY <1>2, <2>1, TransactionFields, TransitionTargets DEF Write, Rows, TypeOK
  <2>3. \A d \in Clients : tx'[d] = IF d = c THEN Idle ELSE tx[d]
    BY <1>2 DEF Write, TypeOK
  <2> QED BY <1>2, <2>2, <2>3 DEF Write, ActsOnRows, OneBookingPerKey, Idle
<1>3. ASSUME NEW c \in Clients, NEW b \in Ids, NEW a \in Actions, Load(c, b, a)
      PROVE  ActsOnRows' /\ OneBookingPerKey'
  BY <1>3 DEF Load, ActsOnRows, OneBookingPerKey, Rows, TypeOK, Acting
<1>4. ASSUME NEW c \in Clients, NEW b \in Ids, NEW s \in Slots,
             NEW k \in Keys \cup {NoKey}, CreateCheck(c, b, s, k)
      PROVE  ActsOnRows' /\ OneBookingPerKey'
  BY <1>4 DEF CreateCheck, ActsOnRows, OneBookingPerKey, Rows, TypeOK, Creating
<1>5. ASSUME NEW c \in Clients, ApproveCheck(c) PROVE ActsOnRows' /\ OneBookingPerKey'
  BY <1>5 DEF ApproveCheck, ActsOnRows, OneBookingPerKey, Rows, TypeOK, Acting, Idle
<1>6. ASSUME NEW c \in Clients, Rollback(c)
      PROVE  ActsOnRows' /\ OneBookingPerKey'
  BY <1>6 DEF Rollback, ActsOnRows, OneBookingPerKey, Rows, TypeOK, Idle
<1>7. CASE UNCHANGED vars
  BY <1>7 DEF vars, ActsOnRows, OneBookingPerKey, Rows
<1> QED BY <1>1, <1>2, <1>3, <1>4, <1>5, <1>6, <1>7 DEF Next

(* A key never makes two bookings, whatever number of creates run at once: *)
(* the commit of an INSERT is refused when a committed row has its key.    *)
THEOREM KeysAreIdempotent == Spec => []OneBookingPerKey
<1>1. KeyInv => OneBookingPerKey
  BY DEF KeyInv
<1> QED BY <1>1, KeyInvInit, KeyInvNext, TypeCorrect, PTL DEF Spec

-----------------------------------------------------------------------------
(* One request at a time: what a handler read still holds when it writes.  *)
StillTrue ==
    \A c \in Clients :
        /\ tx[c].op = "create" => NoConflict(tx[c].slot, {})
        /\ tx[c].op = "act" => state[tx[c].id] \in BOOKING_TRANSITIONS[tx[c].action].from

SerialInv == KeyInv /\ StillTrue /\ NoDoubleBooking

LEMMA SerialInvNext ==
    ASSUME \A c, d \in Clients : c = d,
           SerialInv, KeyInv', [Next]_vars
    PROVE  SerialInv'
<1> SUFFICES StillTrue' /\ NoDoubleBooking'
  BY DEF SerialInv
<1> USE DEF SerialInv, KeyInv
<1>1. ASSUME NEW c \in Clients, CreateInsert(c) PROVE StillTrue' /\ NoDoubleBooking'
  <2>1. tx[c] \in Transactions /\ tx[c].op = "create"
    BY <1>1 DEF CreateInsert, TypeOK
  <2>2. tx[c].id \in Ids
    BY <2>1, TransactionFields
  <2>3. NoConflict(tx[c].slot, {})
    BY <2>1 DEF StillTrue
  <2>4. Rows' = Rows \cup {tx[c].id} /\ Rows \subseteq Ids
    BY <1>1, <2>2 DEF CreateInsert, Rows, TypeOK
  <2>5. /\ \A b \in Ids : b # tx[c].id => slot'[b] = slot[b] /\ state'[b] = state[b]
        /\ slot'[tx[c].id] = tx[c].slot
    BY <1>1, <2>2 DEF CreateInsert, TypeOK
  <2>6. \A b \in Rows : state[b] \in BOOKING_ACTIVE
                          => ~Overlaps(tx[c].slot, slot[b]) /\ ~Overlaps(slot[b], tx[c].slot)
    BY <2>3 DEF NoConflict, Overlaps
  <2>7. NoDoubleBooking'
    BY <2>2, <2>4, <2>5, <2>6 DEF NoDoubleBooking
  <2>8. \A d \in Clients : tx'[d] = Idle
    BY <1>1 DEF CreateInsert, TypeOK
  <2> QED BY <2>7, <2>8 DEF StillTrue, Idle
<1>2. ASSUME NEW c \in Clients, Write(c) PROVE StillTrue' /\ NoDoubleBooking'
  <2>1. tx[c] \in Transactions /\ tx[c].op = "act" /\ tx[c].id \in Rows
    BY <1>2 DEF Write, TypeOK, ActsOnRows
  <2>2. tx[c].id \in Ids /\ tx[c].action \in Actions
    BY <2>1, TransactionFields
  <2>3. Rows' = Rows /\ slot' = slot /\ Rows \subseteq Ids
    BY <1>2, <2>1, <2>2, TransitionTargets DEF Write, Rows, TypeOK
  <2>4. state'[tx[c].id] \in BOOKING_ACTIVE => state[tx[c].id] \in BOOKING_ACTIVE
    BY <1>2, <2>1, <2>2, TransitionTargets DEF Write, StillTrue, TypeOK
  <2>5. \A b \in Ids : b # tx[c].id => state'[b] = state[b]
    BY <1>2 DEF Write, TypeOK
  <2>6. NoDoubleBooking'
    BY <2>3, <2>4, <2>5 DEF NoDoubleBooking
  <2>7. \A d \in Clients : tx'[d] = Idle
    BY <1>2 DEF Write, TypeOK
  <2> QED BY <2>6, <2>7 DEF StillTrue, Idle
<1>3. ASSUME NEW c \in Clients, NEW b \in Ids, NEW a \in Actions, Load(c, b, a)
      PROVE  StillTrue' /\ NoDoubleBooking'
  <2>1. \A d \in Clients : /\ tx'[d].op = "act" /\ tx'[d].id = b /\ tx'[d].action = a
    BY <1>3 DEF Load, TypeOK, Acting
  <2>2. state' = state /\ slot' = slot /\ state[b] \in BOOKING_TRANSITIONS[a].from
    BY <1>3 DEF Load
  <2> QED BY <2>1, <2>2 DEF StillTrue, NoDoubleBooking, Rows
<1>4. ASSUME NEW c \in Clients, NEW b \in Ids, NEW s \in Slots,
             NEW k \in Keys \cup {NoKey}, CreateCheck(c, b, s, k)
      PROVE  StillTrue' /\ NoDoubleBooking'
  <2>1. \A d \in Clients : tx'[d].op = "create" /\ tx'[d].slot = s
    BY <1>4 DEF CreateCheck, TypeOK, Creating
  <2>2. state' = state /\ slot' = slot /\ NoConflict(s, {})
    BY <1>4 DEF CreateCheck
  <2> QED BY <2>1, <2>2 DEF StillTrue, NoDoubleBooking, NoConflict, Rows
<1>5. ASSUME NEW c \in Clients, ApproveCheck(c) PROVE StillTrue' /\ NoDoubleBooking'
  <2>1. \A d \in Clients : \/ tx'[d].op = "idle"
                           \/ /\ tx'[d].op = "act" /\ tx[d].op = "act"
                              /\ tx'[d].id = tx[d].id /\ tx'[d].action = tx[d].action
    BY <1>5 DEF ApproveCheck, TypeOK, Acting, Idle
  <2>2. state' = state /\ slot' = slot
    BY <1>5 DEF ApproveCheck
  <2> QED BY <2>1, <2>2 DEF StillTrue, NoDoubleBooking, Rows
<1>6. ASSUME NEW c \in Clients, Rollback(c)
      PROVE  StillTrue' /\ NoDoubleBooking'
  <2>1. \A d \in Clients : tx'[d] = Idle
    BY <1>6 DEF Rollback, TypeOK
  <2>2. state' = state /\ slot' = slot
    BY <1>6 DEF Rollback
  <2> QED BY <2>1, <2>2 DEF StillTrue, NoDoubleBooking, Rows, Idle
<1>7. CASE UNCHANGED vars
  BY <1>7 DEF vars, StillTrue, NoDoubleBooking, NoConflict, Rows
<1> QED BY <1>1, <1>2, <1>3, <1>4, <1>5, <1>6, <1>7 DEF Next

(* As long as requests do not overlap in time, no resource is booked       *)
(* twice: with it, the double booking TLC finds with two clients is due to *)
(* the interleaving and to nothing else in create or approve.              *)
THEOREM SerialNoDoubleBooking ==
    (\A c, d \in Clients : c = d) /\ Spec => []NoDoubleBooking
<1> SUFFICES ASSUME \A c, d \in Clients : c = d PROVE Spec => []NoDoubleBooking
  OBVIOUS
<1>1. Init => SerialInv
  <2> SUFFICES ASSUME Init PROVE StillTrue /\ NoDoubleBooking
    BY KeyInvInit DEF SerialInv
  <2> QED BY DEF Init, StillTrue, NoDoubleBooking, Rows, Idle
<1>2. SerialInv => NoDoubleBooking /\ KeyInv
  BY DEF SerialInv
<1>3. SerialInv /\ KeyInv' /\ [Next]_vars => SerialInv'
  BY SerialInvNext
<1>4. Spec => []KeyInv
  BY KeyInvInit, KeyInvNext, TypeCorrect, PTL DEF Spec
<1> QED BY <1>1, <1>2, <1>3, <1>4, PTL DEF Spec
=============================================================================
