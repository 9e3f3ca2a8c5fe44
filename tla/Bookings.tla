------------------------------ MODULE Bookings ------------------------------
(***************************************************************************)
(* Resource bookings of X.Office: bookings.service.ts on top of the        *)
(* transition table of bookings.fsm.ts.                                    *)
(*                                                                         *)
(* A request handler runs in one PostgreSQL transaction opened by          *)
(* XofficePrismaService.withTenant at the default isolation level, READ    *)
(* COMMITTED.  A handler is therefore cut where the code awaits a query:   *)
(* its reads see what was committed at that moment, and its writes, which  *)
(* become visible at commit, are computed from what it read.  tx[c] is     *)
(* what the handler of client c has read so far.                           *)
(***************************************************************************)
EXTENDS Naturals, FiniteSets

CONSTANTS
    Clients,    \* requests that may be in flight at the same time
    Ids,        \* primary keys a booking row may get
    Slots,      \* [res, from, to]: the resource and window a client asks for
    Keys,       \* idempotency keys clients may send
    NoKey       \* the client sent none (a NULL column, never unique-checked)

ASSUME SlotsAssumption == Slots # {} /\ \A s \in Slots : s.from \in Nat /\ s.to \in Nat
ASSUME NoKeyAssumption == NoKey \notin Keys

VARIABLES
    state,      \* state[b]: Booking.state, "NONE" when there is no row b
    slot,       \* slot[b]: resourceId, startAt and endAt of row b
    key,        \* key[b]: idempotencyKey of row b
    tx          \* tx[c]: the open transaction of client c

vars == <<state, slot, key, tx>>

-----------------------------------------------------------------------------
(* bookings.fsm.ts *)

Actions == {"approve", "reject", "cancel", "check-in", "check-out", "no-show"}

BOOKING_TRANSITIONS ==
    [ a \in Actions |->
        CASE a = "approve"   -> [from |-> {"REQUESTED"}, to |-> "APPROVED"]
          [] a = "reject"    -> [from |-> {"REQUESTED"}, to |-> "REJECTED"]
          [] a = "cancel"    -> [from |-> {"REQUESTED", "APPROVED", "CHECKED_IN"},
                                 to |-> "CANCELLED"]
          [] a = "check-in"  -> [from |-> {"APPROVED"}, to |-> "CHECKED_IN"]
          [] a = "check-out" -> [from |-> {"CHECKED_IN"}, to |-> "CHECKED_OUT"]
          [] a = "no-show"   -> [from |-> {"APPROVED"}, to |-> "NO_SHOW"] ]

BOOKING_ACTIVE == {"REQUESTED", "APPROVED", "CHECKED_IN"}
BOOKING_TERMINAL == {"CHECKED_OUT", "NO_SHOW", "REJECTED", "CANCELLED"}

(* Half-open windows on one resource intersect. *)
Overlaps(s, t) == s.res = t.res /\ s.from < t.to /\ t.from < s.to

-----------------------------------------------------------------------------
(* bookings.service.ts *)

Rows == {b \in Ids : state[b] # "NONE"}

(* Mutant: CHECKED_IN is forgotten among the states that hold the slot. *)
NoConflictForgetsCheckedIn(s, exclude) ==
    \A b \in Rows \ exclude : state[b] \in {"REQUESTED", "APPROVED"} => ~Overlaps(s, slot[b])

(* assertNoConflict: the query sees committed rows only. *)
NoConflict(s, exclude) ==
    \A b \in Rows \ exclude : state[b] \in BOOKING_ACTIVE => ~Overlaps(s, slot[b])

Idle == [op |-> "idle"]
Creating(b, s, k) == [op |-> "create", id |-> b, slot |-> s, key |-> k]
Acting(b, a, stage) == [op |-> "act", id |-> b, action |-> a, stage |-> stage]

FreshId(b) ==
    /\ state[b] = "NONE"
    /\ \A c \in Clients : tx[c].op = "create" => tx[c].id # b

(* Mutant: the key of a finished booking may be used again. *)
KeyStoredActive(k) == k # NoKey /\ \E b \in Rows : key[b] = k /\ state[b] \in BOOKING_ACTIVE

(* The lookup by (tenantId, idempotencyKey), and its unique index. *)
KeyStored(k) == k # NoKey /\ \E b \in Rows : key[b] = k

(* create, first part: a known key is answered with the stored row, which  *)
(* changes nothing; else the window is validated and the conflict check    *)
(* runs.                                                                   *)
CreateCheck(c, b, s, k) ==
    /\ tx[c] = Idle
    /\ FreshId(b)
    /\ ~KeyStored(k)
    /\ s.from < s.to
    /\ NoConflict(s, {})
    /\ tx' = [tx EXCEPT ![c] = Creating(b, s, k)]
    /\ UNCHANGED <<state, slot, key>>

(* create, second part: INSERT and commit, when the unique index on        *)
(* (tenantId, idempotencyKey) admits the row.                              *)
CreateInsert(c) ==
    LET t == tx[c] IN
    /\ t.op = "create"
    /\ ~KeyStored(t.key)
    /\ state' = [state EXCEPT ![t.id] = "REQUESTED"]
    /\ slot' = [slot EXCEPT ![t.id] = t.slot]
    /\ key' = [key EXCEPT ![t.id] = t.key]
    /\ tx' = [tx EXCEPT ![c] = Idle]

(* approve, transition, checkIn, checkOut, noShow: load the row and test   *)
(* the table.                                                              *)
Load(c, b, a) ==
    /\ tx[c] = Idle
    /\ b \in Rows
    /\ state[b] \in BOOKING_TRANSITIONS[a].from
    /\ tx' = [tx EXCEPT ![c] = Acting(b, a, IF a = "approve" THEN "loaded" ELSE "checked")]
    /\ UNCHANGED <<state, slot, key>>

(* approve runs the conflict check again, leaving out the booking itself. *)
ApproveCheck(c) ==
    LET t == tx[c] IN
    /\ t.op = "act" /\ t.stage = "loaded"
    /\ tx' = [tx EXCEPT ![c] = IF NoConflict(slot[t.id], {t.id})
                               THEN Acting(t.id, t.action, "checked")
                               ELSE Idle]
    /\ UNCHANGED <<state, slot, key>>

(* UPDATE ... WHERE id: the row takes the target state whatever state it   *)
(* is in by now.                                                           *)
Write(c) ==
    LET t == tx[c] IN
    /\ t.op = "act" /\ t.stage = "checked"
    /\ state' = [state EXCEPT ![t.id] = BOOKING_TRANSITIONS[t.action].to]
    /\ tx' = [tx EXCEPT ![c] = Idle]
    /\ UNCHANGED <<slot, key>>

(* The INSERT hits the unique index (the catch block then queries in a     *)
(* transaction that PostgreSQL has aborted, so that the client gets an     *)
(* error and not the stored row), the 30 second limit of withTenant, or    *)
(* the server dies: rollback.                                              *)
Rollback(c) ==
    /\ tx[c] # Idle
    /\ tx' = [tx EXCEPT ![c] = Idle]
    /\ UNCHANGED <<state, slot, key>>

-----------------------------------------------------------------------------
Init ==
    /\ state = [b \in Ids |-> "NONE"]
    /\ slot = [b \in Ids |-> CHOOSE s \in Slots : TRUE]
    /\ key = [b \in Ids |-> NoKey]
    /\ tx = [c \in Clients |-> Idle]

Next ==
    \E c \in Clients :
        \/ \E b \in Ids, s \in Slots, k \in Keys \cup {NoKey} : CreateCheck(c, b, s, k)
        \/ CreateInsert(c)
        \/ \E b \in Ids, a \in Actions : Load(c, b, a)
        \/ ApproveCheck(c)
        \/ Write(c)
        \/ Rollback(c)

Spec == Init /\ [][Next]_vars

-----------------------------------------------------------------------------
States == {"NONE"} \cup BOOKING_ACTIVE \cup BOOKING_TERMINAL

Transactions ==
    {Idle} \cup {Creating(b, s, k) : b \in Ids, s \in Slots, k \in Keys \cup {NoKey}}
           \cup {Acting(b, a, g) : b \in Ids, a \in Actions, g \in {"loaded", "checked"}}

(* The rows and open transactions have the shapes the schema gives them. *)
TypeOK ==
    /\ state \in [Ids -> States]
    /\ slot \in [Ids -> Slots]
    /\ key \in [Ids -> Keys \cup {NoKey}]
    /\ tx \in [Clients -> Transactions]

(* One key never makes two bookings, however creates with the same key     *)
(* interleave: the replay lookup of create backed by the unique index.     *)
OneBookingPerKey ==
    \A b1, b2 \in Rows : b1 # b2 /\ key[b1] = key[b2] => key[b1] = NoKey

(* No two active bookings hold overlapping windows of one resource: the    *)
(* rule assertNoConflict enforces on create and on approve.                *)
NoDoubleBooking ==
    \A b1, b2 \in Rows :
        /\ b1 # b2
        /\ state[b1] \in BOOKING_ACTIVE
        /\ state[b2] \in BOOKING_ACTIVE
        => ~Overlaps(slot[b1], slot[b2])
=============================================================================
