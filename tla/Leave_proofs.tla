---------------------------- MODULE Leave_proofs ----------------------------
(***************************************************************************)
(* What the leave ledger guarantees for any number of concurrent handlers, *)
(* requests, keys and windows, and attendance for any number of handlers,  *)
(* files, days and requests.                                               *)
(***************************************************************************)
EXTENDS Leave, Attendance, SequenceTheorems, FiniteSetTheorems, TLAPS

LEMMA IdleType == ASSUME Ids # {} PROVE Idle \in TxType
<1> DEFINE i0 == CHOOSE i \in Ids : TRUE
           w0 == CHOOSE w \in Windows : TRUE
           k0 == CHOOSE k \in Keys : TRUE
<1>1. i0 \in Ids /\ w0 \in Windows /\ k0 \in Keys
  BY LeaveAssumption
<1>2. Idle = [op |-> "idle", stage |-> "none", id |-> i0, win |-> w0, key |-> k0, to |-> "NONE", seen |-> 0]
  BY DEF Idle
<1>3. "NONE" \in Statuses
  BY DEF Statuses, LEAVE_TRANSITIONS
<1> HIDE DEF i0, w0, k0
<1> QED BY <1>1, <1>2, <1>3 DEF TxType

LEMMA StatusNames ==
    Statuses = {"NONE", "DRAFT", "SUBMITTED", "IN_REVIEW", "CHANGES_REQUESTED", "APPROVED",
                "CANCEL_REQUESTED", "REJECTED", "CANCELLED"}
BY DEF Statuses, LEAVE_TRANSITIONS

LEMMA TargetType == ASSUME NEW op \in Ops, NEW s PROVE Target(op, s) \in Statuses
BY StatusNames DEF Ops, Target

LEMMA DurationType == ASSUME NEW w \in Windows PROVE Duration(w) \in Nat
<1>1. w.from \in Nat /\ w.to \in Nat
  BY LeaveAssumption
<1> QED BY <1>1 DEF Duration

LEMMA DeltasType ==
    ASSUME NEW op, NEW to, NEW d \in Nat PROVE Deltas(op, to, d) \in DeltaType
<1>1. -d \in Int /\ d \in Int /\ 0 \in Int
  OBVIOUS
<1> QED BY <1>1 DEF Deltas, DeltaType

(* Handlers compute the next row from a row that exists. *)
TypeInv == TypeOK /\ Len(ledger) >= 1

LEMMA AppendType ==
    ASSUME TypeInv, NEW i \in Ids, NEW delta \in DeltaType, NEW seen, AppendRow(i, delta, seen)
    PROVE  /\ (ledger \in Seq(RowType) /\ Len(ledger) >= 1)'
           /\ seen = Len(ledger) /\ seen \in Nat \ {0}
           /\ Len(ledger') = Len(ledger) + 1
           /\ \A n \in 1 .. Len(ledger) : ledger'[n] = ledger[n]
           /\ ledger'[seen + 1].delta = delta
           /\ ledger'[seen + 1].pending = ledger[seen].pending + delta.pending
           /\ ledger'[seen + 1].used = ledger[seen].used + delta.used
<1> DEFINE row == [req |-> i, delta |-> delta, pending |-> ledger[seen].pending + delta.pending,
                   used |-> ledger[seen].used + delta.used]
<1>1. ledger \in Seq(RowType) /\ seen = Len(ledger) /\ seen \in Nat \ {0} /\ ledger' = Append(ledger, row)
  BY DEF TypeInv, TypeOK, AppendRow
<1>2. ledger[seen] \in RowType
  BY <1>1
<1>3. row \in RowType
  BY <1>2 DEF RowType, DeltaType
<1>4. /\ row.delta = delta /\ row.pending = ledger[seen].pending + delta.pending
      /\ row.used = ledger[seen].used + delta.used
  OBVIOUS
<1> HIDE DEF row
<1> QED BY <1>1, <1>3, <1>4

LEMMA TypeNext == ASSUME Ids # {} PROVE TypeInv /\ [Next]_vars => TypeInv'
<1> SUFFICES ASSUME TypeInv, [Next]_vars PROVE TypeInv'
  OBVIOUS
<1>0. TypeOK
  BY DEF TypeInv
<1>t. ASSUME NEW c \in Clients
      PROVE  /\ tx[c] \in TxType /\ tx[c].id \in Ids /\ tx[c].win \in Windows /\ tx[c].key \in Keys
             /\ tx[c].to \in Statuses
             /\ Deltas(tx[c].op, tx[c].to, Duration(tx[c].win)) \in DeltaType
  <2>1. tx[c] \in TxType
    BY <1>0 DEF TypeOK
  <2>2. tx[c].win \in Windows
    BY <2>1 DEF TxType
  <2> QED BY <2>1, <2>2, DurationType, DeltasType DEF TxType
<1>e. ASSUME NEW c \in Clients, End(c) PROVE (tx \in [Clients -> TxType])'
  BY <1>e, <1>0, IdleType DEF TypeOK, End
<1>1. ASSUME NEW c \in Clients, NEW i \in Ids, NEW w \in Windows, NEW k \in Keys, CreateCheck(c, i, w, k)
      PROVE  TypeInv'
  <2> DEFINE t == [Idle EXCEPT !.op = "create", !.stage = "checked", !.id = i,
                               !.win = w, !.key = k, !.to = "SUBMITTED"]
  <2>1. t \in TxType
    BY IdleType, StatusNames DEF TxType
  <2>2. tx' = [tx EXCEPT ![c] = t] /\ UNCHANGED <<status, window, key, task, ledger>>
    BY <1>1 DEF CreateCheck
  <2> HIDE DEF t
  <2> QED BY <1>0, <2>1, <2>2 DEF TypeInv, TypeOK
<1>2. ASSUME NEW c \in Clients, NEW i \in Ids, NEW op \in Ops, Load(c, i, op) PROVE TypeInv'
  <2> DEFINE s == Target(op, status[i])
             t == [Idle EXCEPT !.op = op, !.stage = "checked", !.id = i, !.win = window[i],
                               !.key = key[i], !.to = s]
  <2>1. s \in Statuses /\ window[i] \in Windows /\ key[i] \in Keys
    BY <1>0, TargetType DEF TypeOK
  <2>2. tx' = [tx EXCEPT ![c] = t] /\ UNCHANGED <<status, window, key, task, ledger>>
    BY <1>2 DEF Load
  <2> HIDE DEF s
  <2>3. t \in TxType
    BY <2>1, IdleType DEF TxType
  <2> HIDE DEF t
  <2> QED BY <1>0, <2>2, <2>3 DEF TypeInv, TypeOK
<1>3. ASSUME NEW c \in Clients, ReadLatest(c) PROVE TypeInv'
  <2> DEFINE n == Len(ledger)
             t == [tx[c] EXCEPT !.stage = "appending", !.seen = n]
  <2>1. n \in Nat
    BY <1>0 DEF TypeOK
  <2>2. tx' = [tx EXCEPT ![c] = t] /\ UNCHANGED <<status, window, key, task, ledger>>
    BY <1>0, <1>3 DEF ReadLatest, TypeOK, TxType
  <2> HIDE DEF n
  <2>3. t \in TxType
    BY <1>t, <2>1 DEF TxType
  <2> HIDE DEF t
  <2> QED BY <1>0, <2>2, <2>3 DEF TypeInv, TypeOK
<1>4. ASSUME NEW c \in Clients, CreateCommit(c) PROVE TypeInv'
  <2> DEFINE t == tx[c]
             d == Deltas(t.op, t.to, Duration(t.win))
  <2>1. /\ AppendRow(t.id, d, t.seen) /\ End(c)
        /\ status' = [status EXCEPT ![t.id] = "SUBMITTED"]
        /\ window' = [window EXCEPT ![t.id] = t.win]
        /\ key' = [key EXCEPT ![t.id] = t.key]
        /\ task' = [task EXCEPT ![t.id] = "open"]
    BY <1>4 DEF CreateCommit
  <2>2. t.id \in Ids /\ t.win \in Windows /\ t.key \in Keys /\ d \in DeltaType
    BY <1>t
  <2> HIDE DEF t, d
  <2>3. (ledger \in Seq(RowType) /\ Len(ledger) >= 1)'
    BY <2>1, <2>2, AppendType
  <2> QED BY <1>0, <1>e, <2>1, <2>2, <2>3, StatusNames DEF TypeInv, TypeOK
<1>5. ASSUME NEW c \in Clients, DecideCommit(c) PROVE TypeInv'
  <2> DEFINE t == tx[c]
             d == Deltas(t.op, t.to, Duration(t.win))
  <2>1. /\ AppendRow(t.id, d, t.seen) /\ End(c) /\ UNCHANGED <<window, key>>
        /\ status' = [status EXCEPT ![t.id] = t.to]
        /\ task' = [task EXCEPT ![t.id] = CASE t.op = "approve" -> "approved"
                                            [] t.op = "reject" -> "rejected"
                                            [] OTHER -> @]
    BY <1>5 DEF DecideCommit, TaskAfter
  <2>2. t.id \in Ids /\ t.to \in Statuses /\ d \in DeltaType
    BY <1>t
  <2> HIDE DEF t, d
  <2>3. (ledger \in Seq(RowType) /\ Len(ledger) >= 1)'
    BY <2>1, <2>2, AppendType
  <2>4. (task \in [Ids -> {"none", "open", "approved", "rejected"}])'
    BY <1>0, <2>1, <2>2 DEF TypeOK
  <2> QED BY <1>0, <1>e, <2>1, <2>2, <2>3, <2>4 DEF TypeInv, TypeOK
<1>6. ASSUME NEW c \in Clients, PlainCommit(c) PROVE TypeInv'
  BY <1>0, <1>6, <1>e, <1>t DEF PlainCommit, TypeInv, TypeOK
<1>7. ASSUME NEW c \in Clients, Rollback(c) PROVE TypeInv'
  BY <1>0, <1>7, <1>e DEF Rollback, TypeInv, TypeOK
<1>8. CASE UNCHANGED vars
  BY <1>0, <1>8 DEF vars, TypeInv, TypeOK
<1> QED BY <1>1, <1>2, <1>3, <1>4, <1>5, <1>6, <1>7, <1>8 DEF Next

LEMMA TypeInit == ASSUME Ids # {} PROVE Init => TypeInv
<1> SUFFICES ASSUME Init PROVE TypeInv
  OBVIOUS
<1>1. (CHOOSE w \in Windows : TRUE) \in Windows /\ (CHOOSE k \in Keys : TRUE) \in Keys
  BY LeaveAssumption
<1>2. ledger \in Seq(RowType) /\ Len(ledger) >= 1
  <2>1. PICK i \in Ids : ledger = <<[req |-> i, delta |-> [pending |-> 0, used |-> 0], pending |-> 0, used |-> 0]>>
    BY DEF Init
  <2>2. [req |-> i, delta |-> [pending |-> 0, used |-> 0], pending |-> 0, used |-> 0] \in RowType
    BY DEF RowType, DeltaType
  <2> QED BY <2>1, <2>2
<1>3. window \in [Ids -> Windows] /\ key \in [Ids -> Keys]
  BY <1>1 DEF Init
<1>4. tx \in [Clients -> TxType]
  BY IdleType DEF Init
<1> QED BY <1>2, <1>3, <1>4, StatusNames DEF Init, TypeInv, TypeOK

(* The rows of the two tables and the handlers' locals keep their types. *)
THEOREM TypeCorrect == ASSUME Ids # {} PROVE Spec => []TypeOK
<1>1. TypeInv => TypeOK
  BY DEF TypeInv
<1> QED BY <1>1, TypeInit, TypeNext, PTL DEF Spec

(* However many decisions are charged at the same time, no charge and no   *)
(* refund is lost from the ledger: a handler that computed its row from an *)
(* old one meets the unique index on the sequence.                         *)
THEOREM LedgerCarriesOn == ASSUME Ids # {} PROVE Spec => []NoLostCharge
<1>1. Init => NoLostCharge
  BY DEF Init, NoLostCharge
<1>2. TypeInv /\ NoLostCharge /\ [Next]_vars => NoLostCharge'
  <2> SUFFICES ASSUME TypeInv, NoLostCharge, [Next]_vars PROVE NoLostCharge'
    OBVIOUS
  <2>1. CASE ledger' = ledger
    BY <2>1 DEF NoLostCharge
  <2>2. ASSUME NEW c \in Clients, AppendRow(tx[c].id, Deltas(tx[c].op, tx[c].to, Duration(tx[c].win)), tx[c].seen)
        PROVE  NoLostCharge'
    <3> DEFINE d == Deltas(tx[c].op, tx[c].to, Duration(tx[c].win))
               m == tx[c].seen
    <3>1. tx[c].id \in Ids /\ d \in DeltaType
      <4>1. tx[c] \in TxType
        BY DEF TypeInv, TypeOK
      <4>2. tx[c].id \in Ids /\ tx[c].win \in Windows
        BY <4>1 DEF TxType
      <4> QED BY <4>2, DurationType, DeltasType
    <3> HIDE DEF d
    <3>2. /\ m = Len(ledger) /\ m \in Nat \ {0} /\ Len(ledger') = m + 1
          /\ \A n \in 1 .. m : ledger'[n] = ledger[n]
          /\ ledger'[m + 1].delta = d
          /\ ledger'[m + 1].pending = ledger[m].pending + d.pending
          /\ ledger'[m + 1].used = ledger[m].used + d.used
      BY <2>2, <3>1, AppendType DEF d
    <3> HIDE DEF m
    <3> SUFFICES ASSUME NEW n \in 2 .. m + 1
                 PROVE  /\ ledger'[n].pending = ledger'[n - 1].pending + ledger'[n].delta.pending
                        /\ ledger'[n].used = ledger'[n - 1].used + ledger'[n].delta.used
      BY <3>2 DEF NoLostCharge
    <3>3. CASE n = m + 1
      <4>1. ledger'[n - 1] = ledger[m]
        BY <3>2, <3>3
      <4> QED BY <3>2, <3>3, <4>1
    <3>4. CASE n \in 2 .. m
      <4>1. ledger'[n] = ledger[n] /\ ledger'[n - 1] = ledger[n - 1]
        BY <3>2, <3>4
      <4> QED BY <3>2, <3>4, <4>1 DEF NoLostCharge
    <3> QED BY <3>2, <3>3, <3>4
  <2>3. ASSUME NEW c \in Clients, CreateCommit(c) \/ DecideCommit(c) PROVE NoLostCharge'
    BY <2>2, <2>3 DEF CreateCommit, DecideCommit
  <2> QED BY <2>1, <2>3 DEF Next, vars, CreateCheck, Load, ReadLatest, PlainCommit, Rollback
<1> QED BY <1>1, <1>2, TypeInit, TypeNext, PTL DEF Spec

(* A handler other than create works on a row that is there, and never     *)
(* removes it.                                                             *)
ActsOnRows == \A c \in Clients : tx[c].op \in Ops => tx[c].id \in Rows /\ tx[c].to # "NONE"

KeyInv == OneRequestPerKey /\ ActsOnRows

LEMMA RowsStay ==
    ASSUME ActsOnRows, TypeInv, NEW c \in Clients, NEW t, tx' = [tx EXCEPT ![c] = t],
           Rows \subseteq Rows', t.op \in Ops => t.id \in Rows' /\ t.to # "NONE"
    PROVE  ActsOnRows'
<1> SUFFICES ASSUME NEW b \in Clients, tx'[b].op \in Ops PROVE tx'[b].id \in Rows' /\ tx'[b].to # "NONE"
  BY DEF ActsOnRows
<1>1. tx'[b] = t \/ tx'[b] = tx[b]
  BY DEF TypeInv, TypeOK
<1> QED BY <1>1 DEF ActsOnRows

(* One idempotency key makes one request, for any number of racing creates *)
(* and whatever else runs: the lookup of create and the unique index.      *)
THEOREM KeysAreIdempotent == ASSUME Ids # {} PROVE Spec => []OneRequestPerKey
<1>i. Idle.op \notin Ops
  BY DEF Idle, Ops
<1>1. Init => KeyInv
  BY <1>i DEF Init, KeyInv, OneRequestPerKey, ActsOnRows, Rows
<1>2. TypeInv /\ KeyInv /\ [Next]_vars => KeyInv'
  <2> SUFFICES ASSUME TypeInv, KeyInv, [Next]_vars PROVE KeyInv'
    OBVIOUS
  <2>0. TypeOK /\ OneRequestPerKey /\ ActsOnRows
    BY DEF TypeInv, KeyInv
  <2>a. ASSUME NEW c \in Clients, NEW t, tx' = [tx EXCEPT ![c] = t], UNCHANGED <<status, key>>,
               t.op \in Ops => t.id \in Rows /\ t.to # "NONE"
        PROVE  KeyInv'
    <3>1. Rows' = Rows
      BY <2>a DEF Rows
    <3>2. OneRequestPerKey'
      BY <2>0, <2>a, <3>1 DEF OneRequestPerKey
    <3>3. ActsOnRows'
      BY <2>0, <2>a, <3>1, RowsStay
    <3> QED BY <3>2, <3>3 DEF KeyInv
  <2>b. ASSUME NEW c \in Clients, tx[c].op \in Ops, End(c), status' = [status EXCEPT ![tx[c].id] = tx[c].to],
               UNCHANGED key
        PROVE  KeyInv'
    <3>0. tx[c].id \in Rows /\ tx[c].to # "NONE"
      BY <2>0, <2>b DEF ActsOnRows
    <3>1. Rows' = Rows
      BY <2>0, <2>b, <3>0 DEF Rows, TypeOK
    <3>2. OneRequestPerKey'
      BY <2>0, <2>b, <3>1 DEF OneRequestPerKey
    <3>3. ActsOnRows'
      BY <2>0, <2>b, <3>1, <1>i, RowsStay DEF End
    <3> QED BY <3>2, <3>3 DEF KeyInv
  <2>1. ASSUME NEW c \in Clients, NEW i \in Ids, NEW w, NEW k, CreateCheck(c, i, w, k) PROVE KeyInv'
    <3> DEFINE t == [Idle EXCEPT !.op = "create", !.stage = "checked", !.id = i,
                                 !.win = w, !.key = k, !.to = "SUBMITTED"]
    <3>1. tx' = [tx EXCEPT ![c] = t] /\ UNCHANGED <<status, key>>
      BY <2>1 DEF CreateCheck
    <3>2. t.op = "create"
      BY IdleType DEF TxType
    <3> HIDE DEF t
    <3>3. t.op \notin Ops
      BY <3>2 DEF Ops
    <3> QED BY <2>a, <3>1, <3>3
  <2>2. ASSUME NEW c \in Clients, NEW i \in Ids, NEW op \in Ops, Load(c, i, op) PROVE KeyInv'
    <3> DEFINE s == Target(op, status[i])
               t == [Idle EXCEPT !.op = op, !.stage = "checked", !.id = i, !.win = window[i],
                                 !.key = key[i], !.to = s]
    <3>1. tx' = [tx EXCEPT ![c] = t] /\ UNCHANGED <<status, key>> /\ i \in Rows
      BY <2>2 DEF Load
    <3>2. s # "NONE"
      BY DEF Target, Ops
    <3> HIDE DEF s
    <3>3. t.id = i /\ t.to = s
      BY IdleType DEF TxType
    <3> HIDE DEF t
    <3> QED BY <2>a, <3>1, <3>2, <3>3
  <2>3. ASSUME NEW c \in Clients, ReadLatest(c) PROVE KeyInv'
    <3> DEFINE t == [tx[c] EXCEPT !.stage = "appending", !.seen = Len(ledger)]
    <3>1. tx' = [tx EXCEPT ![c] = t] /\ UNCHANGED <<status, key>>
      BY <2>0, <2>3 DEF ReadLatest, TypeOK, TxType
    <3>2. t.op = tx[c].op /\ t.id = tx[c].id /\ t.to = tx[c].to
      BY <2>0 DEF TypeOK, TxType
    <3> HIDE DEF t
    <3> QED BY <2>0, <2>a, <3>1, <3>2 DEF ActsOnRows
  <2>4. ASSUME NEW c \in Clients, CreateCommit(c) PROVE KeyInv'
    <3> DEFINE i == tx[c].id
               k == tx[c].key
    <3>1. /\ ~KeyStored(k) /\ End(c)
          /\ status' = [status EXCEPT ![i] = "SUBMITTED"] /\ key' = [key EXCEPT ![i] = k]
      BY <2>4 DEF CreateCommit, UniqueKey
    <3>2. i \in Ids /\ k \in Keys
      BY <2>0 DEF TypeOK, TxType
    <3> HIDE DEF i, k
    <3>3. Rows' = Rows \cup {i}
      BY <2>0, <3>1, <3>2 DEF Rows, TypeOK
    <3>4. \A j \in Rows' : key'[j] = IF j = i THEN k ELSE key[j]
      BY <2>0, <3>1, <3>2 DEF Rows, TypeOK
    <3>5. OneRequestPerKey'
      BY <2>0, <3>1, <3>3, <3>4 DEF OneRequestPerKey, KeyStored
    <3>6. ActsOnRows'
      BY <2>0, <3>1, <3>3, <1>i, RowsStay DEF End
    <3> QED BY <3>5, <3>6 DEF KeyInv
  <2>5. ASSUME NEW c \in Clients, DecideCommit(c) PROVE KeyInv'
    BY <2>5, <2>b DEF DecideCommit
  <2>6. ASSUME NEW c \in Clients, PlainCommit(c) PROVE KeyInv'
    BY <2>6, <2>b DEF PlainCommit
  <2>7. ASSUME NEW c \in Clients, Rollback(c) PROVE KeyInv'
    BY <2>7, <2>a, <1>i DEF Rollback, End
  <2>8. CASE UNCHANGED vars
    BY <2>0, <2>8 DEF vars, KeyInv, OneRequestPerKey, ActsOnRows, Rows
  <2> QED BY <2>1, <2>2, <2>3, <2>4, <2>5, <2>6, <2>7, <2>8 DEF Next
<1>3. KeyInv => OneRequestPerKey
  BY DEF KeyInv
<1> QED BY <1>1, <1>2, <1>3, TypeInit, TypeNext, PTL DEF Spec

-----------------------------------------------------------------------------
(* One request at a time.  What the open handler has tested still holds    *)
(* when it commits.                                                        *)
StillTrue ==
    \A c \in Clients :
        /\ tx[c].op = "create" => /\ status[tx[c].id] = "NONE"
                                  /\ NoOverlapWith(tx[c].win)
                                  /\ EnoughBalance(tx[c].win)
        /\ tx[c].op \in Ops => /\ tx[c].to = Target(tx[c].op, status[tx[c].id])
                               /\ tx[c].to \in LEAVE_TRANSITIONS[status[tx[c].id]]

(* No handler leads to these two. *)
NeverReached == \A i \in Ids : status[i] \notin {"DRAFT", "IN_REVIEW"}

SerialInv ==
    /\ TypeInv /\ StillTrue /\ NeverReached
    /\ NoOverlap /\ NeverOverdrawn /\ TaskOpenWhileWaiting

(* What a decision adds to the charged half days. *)
LEMMA DeltaSums ==
    ASSUME NEW op, NEW to, NEW d \in Nat
    PROVE  /\ op = "create" => Deltas(op, to, d).pending + Deltas(op, to, d).used = d
           /\ op # "create" => Deltas(op, to, d).pending + Deltas(op, to, d).used <= 0
BY DEF Deltas

LEMMA LatestType ==
    ASSUME TypeInv
    PROVE  /\ Len(ledger) \in Nat \ {0}
           /\ Latest.pending \in Int /\ Latest.used \in Int
           /\ Available(Latest) \in Int
<1>1. ledger \in Seq(RowType) /\ Len(ledger) \in Nat \ {0}
  BY DEF TypeInv, TypeOK
<1>2. Latest \in RowType
  BY <1>1 DEF Latest
<1> QED
  BY <1>1, <1>2, LeaveAssumption DEF RowType, Available

(* What the next row does to the available balance. *)
LEMMA AppendAvailable ==
    ASSUME TypeInv, TypeInv', NEW i \in Ids, NEW delta \in DeltaType, NEW seen,
           AppendRow(i, delta, seen)
    PROVE  Available(Latest)' = Available(Latest) - (delta.pending + delta.used)
<1>1. /\ seen = Len(ledger) /\ seen \in Nat \ {0} /\ Len(ledger') = Len(ledger) + 1
      /\ ledger'[seen + 1].pending = ledger[seen].pending + delta.pending
      /\ ledger'[seen + 1].used = ledger[seen].used + delta.used
  BY AppendType
<1>2. delta.pending \in Int /\ delta.used \in Int
  BY DEF DeltaType
<1>3. Latest'.pending = Latest.pending + delta.pending /\ Latest'.used = Latest.used + delta.used
  BY <1>1 DEF Latest
<1>4. Latest.pending \in Int /\ Latest.used \in Int
  BY LatestType
<1> QED
  BY <1>2, <1>3, <1>4, LeaveAssumption DEF Available

(* Where a decision leads from, and what its task is then. *)
LEMMA DecisionFacts ==
    ASSUME NEW op \in Ops, NEW s \in Statuses, NEW to, to = Target(op, s), to \in LEAVE_TRANSITIONS[s],
           s \notin {"DRAFT", "IN_REVIEW"}
    PROVE  /\ s \notin Closed
           /\ to \notin {"NONE", "DRAFT", "IN_REVIEW"}
           /\ op = "approve" <=> to = "APPROVED"
           /\ op = "reject" <=> to = "REJECTED"
           /\ to \in {"SUBMITTED", "CHANGES_REQUESTED"} => s \in {"SUBMITTED", "CHANGES_REQUESTED"}
           /\ to = "CANCEL_REQUESTED" => s = "APPROVED"
<1>1. s \in {"SUBMITTED", "CHANGES_REQUESTED", "APPROVED", "CANCEL_REQUESTED", "NONE",
             "REJECTED", "CANCELLED"}
  BY StatusNames
<1>2. s \notin {"NONE", "REJECTED", "CANCELLED"}
  BY DEF LEAVE_TRANSITIONS
<1>3. s \in {"SUBMITTED", "CHANGES_REQUESTED", "APPROVED", "CANCEL_REQUESTED"}
  BY <1>1, <1>2
<1> QED
  BY <1>3 DEF Ops, Target, LEAVE_TRANSITIONS, Closed

LEMMA InitSerial == ASSUME Ids # {} PROVE Init => SerialInv
<1> SUFFICES ASSUME Init PROVE SerialInv
  OBVIOUS
<1>1. TypeInv
  BY TypeInit
<1>2. Idle.op = "idle"
  BY DEF Idle
<1>3. StillTrue
  BY <1>2 DEF Init, StillTrue, Ops
<1>4. NeverOverdrawn
  <2>1. Latest.pending = 0 /\ Latest.used = 0
    BY DEF Init, Latest
  <2> QED BY <2>1, LeaveAssumption DEF NeverOverdrawn, Available
<1> QED BY <1>1, <1>3, <1>4 DEF Init, SerialInv, NeverReached, NoOverlap, Closed, TaskOpenWhileWaiting

LEMMA NextSerial ==
    ASSUME Ids # {}, \A b, c \in Clients : b = c
    PROVE  SerialInv /\ [Next]_vars => SerialInv'
<1> SUFFICES ASSUME SerialInv, [Next]_vars PROVE SerialInv'
  OBVIOUS
<1>0. TypeInv /\ TypeInv' /\ TypeOK /\ TypeOK'
  BY TypeNext DEF SerialInv, TypeInv
<1>i. Idle.op = "idle"
  BY DEF Idle
(* Steps that only move the handler. *)
<1>r. ASSUME UNCHANGED <<status, window, key, task, ledger>>, StillTrue'
      PROVE  SerialInv'
  BY <1>0, <1>r DEF SerialInv, NeverReached, NoOverlap, NeverOverdrawn, TaskOpenWhileWaiting, Latest, Available
(* Steps that end it. *)
<1>e. ASSUME NEW c \in Clients, End(c) PROVE StillTrue'
  <2>1. \A b \in Clients : tx'[b] = Idle
    BY <1>0, <1>e DEF End, TypeOK
  <2> QED BY <1>i, <2>1 DEF StillTrue, Ops
<1>1. ASSUME NEW c \in Clients, NEW i \in Ids, NEW w \in Windows, NEW k \in Keys, CreateCheck(c, i, w, k)
      PROVE  SerialInv'
  <2> DEFINE t == [Idle EXCEPT !.op = "create", !.stage = "checked", !.id = i,
                               !.win = w, !.key = k, !.to = "SUBMITTED"]
  <2>1. tx' = [tx EXCEPT ![c] = t] /\ UNCHANGED <<status, window, key, task, ledger>>
    BY <1>1 DEF CreateCheck
  <2>2. t.op = "create" /\ t.id = i /\ t.win = w
    BY IdleType DEF TxType
  <2> HIDE DEF t
  <2>3. \A b \in Clients : tx'[b] = t
    BY <1>0, <2>1 DEF TypeOK
  <2>4. status[i] = "NONE" /\ NoOverlapWith(w) /\ EnoughBalance(w)
    BY <1>1 DEF CreateCheck
  <2>5. NoOverlapWith(w)' /\ EnoughBalance(w)'
    BY <2>1, <2>4 DEF NoOverlapWith, EnoughBalance, Latest, Available
  <2>6. StillTrue'
    BY <2>1, <2>2, <2>3, <2>4, <2>5 DEF StillTrue, Ops, NoOverlapWith, EnoughBalance
  <2> QED BY <1>r, <2>1, <2>6
<1>2. ASSUME NEW c \in Clients, NEW i \in Ids, NEW op \in Ops, Load(c, i, op) PROVE SerialInv'
  <2> DEFINE s == Target(op, status[i])
             t == [Idle EXCEPT !.op = op, !.stage = "checked", !.id = i, !.win = window[i],
                               !.key = key[i], !.to = s]
  <2>1. tx' = [tx EXCEPT ![c] = t] /\ UNCHANGED <<status, window, key, task, ledger>>
    BY <1>2 DEF Load
  <2>2. t.op = op /\ t.id = i /\ t.to = s
    BY IdleType DEF TxType
  <2>3. s \in LEAVE_TRANSITIONS[status[i]]
    BY <1>2 DEF Load
  <2> HIDE DEF t
  <2>4. \A b \in Clients : tx'[b] = t
    BY <1>0, <2>1 DEF TypeOK
  <2>5. op # "create"
    BY DEF Ops
  <2>6. StillTrue'
    BY <2>1, <2>2, <2>3, <2>4, <2>5 DEF StillTrue
  <2> QED BY <1>r, <2>1, <2>6
<1>3. ASSUME NEW c \in Clients, ReadLatest(c) PROVE SerialInv'
  <2> DEFINE t == [tx[c] EXCEPT !.stage = "appending", !.seen = Len(ledger)]
  <2>1. tx' = [tx EXCEPT ![c] = t] /\ UNCHANGED <<status, window, key, task, ledger>>
    BY <1>0, <1>3 DEF ReadLatest, TypeOK, TxType
  <2>2. t.op = tx[c].op /\ t.id = tx[c].id /\ t.to = tx[c].to /\ t.win = tx[c].win
    BY <1>0 DEF TypeOK, TxType
  <2> HIDE DEF t
  <2>3. \A b \in Clients : tx'[b] = t
    BY <1>0, <2>1 DEF TypeOK
  <2>4. StillTrue
    BY DEF SerialInv
  <2>5. StillTrue'
    BY <2>1, <2>2, <2>3, <2>4 DEF StillTrue, NoOverlapWith, EnoughBalance, Latest, Available
  <2> QED BY <1>r, <2>1, <2>5
<1>t. ASSUME NEW c \in Clients
      PROVE  /\ tx[c].id \in Ids /\ tx[c].win \in Windows /\ Duration(tx[c].win) \in Nat
             /\ Deltas(tx[c].op, tx[c].to, Duration(tx[c].win)) \in DeltaType
  <2>1. tx[c].id \in Ids /\ tx[c].win \in Windows
    BY <1>0 DEF TypeOK, TxType
  <2> QED BY <2>1, DurationType, DeltasType
<1>4. ASSUME NEW c \in Clients, CreateCommit(c) PROVE SerialInv'
  <2> DEFINE i == tx[c].id
             w == tx[c].win
             d == Deltas(tx[c].op, tx[c].to, Duration(w))
  <2>1. /\ tx[c].op = "create" /\ AppendRow(i, d, tx[c].seen) /\ End(c)
        /\ status' = [status EXCEPT ![i] = "SUBMITTED"]
        /\ window' = [window EXCEPT ![i] = w]
        /\ task' = [task EXCEPT ![i] = "open"]
    BY <1>4 DEF CreateCommit
  <2>2. i \in Ids /\ w \in Windows /\ Duration(w) \in Nat /\ d \in DeltaType
    BY <1>t
  <2>3. status[i] = "NONE" /\ NoOverlapWith(w) /\ EnoughBalance(w)
    BY <2>1 DEF SerialInv, StillTrue
  <2>4. d.pending + d.used = Duration(w)
    BY <2>1, <2>2, DeltaSums
  <2> HIDE DEF i, w, d
  <2>5. Available(Latest)' = Available(Latest) - Duration(w)
    BY <1>0, <2>1, <2>2, <2>4, AppendAvailable
  <2>6. NeverOverdrawn'
    BY <1>0, <2>2, <2>3, <2>5, LatestType DEF NeverOverdrawn, EnoughBalance
  <2>7. \A j \in Ids : /\ status'[j] = IF j = i THEN "SUBMITTED" ELSE status[j]
                       /\ window'[j] = IF j = i THEN w ELSE window[j]
                       /\ task'[j] = IF j = i THEN "open" ELSE task[j]
    BY <1>0, <2>1, <2>2 DEF TypeOK
  <2>8. NeverReached' /\ TaskOpenWhileWaiting'
    BY <2>7 DEF SerialInv, NeverReached, TaskOpenWhileWaiting
  <2>9. NoOverlap'
    BY <2>3, <2>7 DEF SerialInv, NoOverlap, NoOverlapWith, Overlaps
  <2> QED BY <1>0, <1>e, <2>1, <2>6, <2>8, <2>9 DEF SerialInv
(* A decision, with its status and task, whatever else it writes. *)
<1>d. ASSUME NEW c \in Clients, tx[c].op \in Ops, End(c), UNCHANGED window,
             status' = [status EXCEPT ![tx[c].id] = tx[c].to],
             task' = [task EXCEPT ![tx[c].id] = TaskAfter(tx[c].op, @)],
             NeverOverdrawn'
      PROVE  SerialInv'
  <2> DEFINE i == tx[c].id
             op == tx[c].op
             to == tx[c].to
             s == status[i]
  <2>1. i \in Ids /\ s \in Statuses /\ s \notin {"DRAFT", "IN_REVIEW"}
    BY <1>0, <1>t DEF TypeOK, SerialInv, NeverReached
  <2>2. to = Target(op, s) /\ to \in LEAVE_TRANSITIONS[s]
    BY <1>d DEF SerialInv, StillTrue
  <2>3. \A j \in Ids : /\ status'[j] = IF j = i THEN to ELSE status[j]
                       /\ task'[j] = IF j = i THEN TaskAfter(op, task[i]) ELSE task[j]
    BY <1>0, <1>d, <2>1 DEF TypeOK
  <2>o. op \in Ops
    BY <1>d
  <2> HIDE DEF i, op, to, s
  <2>4. /\ s \notin Closed
        /\ to \notin {"NONE", "DRAFT", "IN_REVIEW"}
        /\ op = "approve" <=> to = "APPROVED"
        /\ op = "reject" <=> to = "REJECTED"
        /\ to \in {"SUBMITTED", "CHANGES_REQUESTED"} => s \in {"SUBMITTED", "CHANGES_REQUESTED"}
        /\ to = "CANCEL_REQUESTED" => s = "APPROVED"
    BY <2>1, <2>2, <2>o, DecisionFacts
  <2>5. NeverReached'
    BY <2>3, <2>4 DEF SerialInv, NeverReached
  <2>6. /\ s \in {"SUBMITTED", "CHANGES_REQUESTED"} => task[i] = "open"
        /\ s = "APPROVED" => task[i] # "open"
    BY <2>1 DEF s, SerialInv, TaskOpenWhileWaiting
  <2>7. TaskOpenWhileWaiting'
    BY <2>3, <2>4, <2>6 DEF SerialInv, TaskOpenWhileWaiting, TaskAfter
  <2>8. NoOverlap'
    BY <1>d, <2>1, <2>3, <2>4 DEF s, SerialInv, NoOverlap
  <2> QED BY <1>0, <1>d, <1>e, <2>5, <2>7, <2>8 DEF SerialInv
<1>5. ASSUME NEW c \in Clients, DecideCommit(c) PROVE SerialInv'
  <2> DEFINE d == Deltas(tx[c].op, tx[c].to, Duration(tx[c].win))
  <2>1. /\ tx[c].op \in Ops /\ AppendRow(tx[c].id, d, tx[c].seen) /\ End(c) /\ UNCHANGED window
        /\ status' = [status EXCEPT ![tx[c].id] = tx[c].to]
        /\ task' = [task EXCEPT ![tx[c].id] = TaskAfter(tx[c].op, @)]
    BY <1>5 DEF DecideCommit
  <2>2. d \in DeltaType /\ tx[c].id \in Ids
    BY <1>t
  <2>3. d.pending + d.used <= 0 /\ d.pending + d.used \in Int
    <3>1. tx[c].op # "create"
      BY <2>1 DEF Ops
    <3>2. d.pending + d.used <= 0
      BY <1>t, <3>1, DeltaSums
    <3>3. d.pending \in Int /\ d.used \in Int
      BY <2>2 DEF DeltaType
    <3> QED BY <3>2, <3>3
  <2> HIDE DEF d
  <2>4. Available(Latest)' = Available(Latest) - (d.pending + d.used)
    BY <1>0, <2>1, <2>2, AppendAvailable
  <2>5. NeverOverdrawn'
    BY <1>0, <2>3, <2>4, LatestType DEF SerialInv, NeverOverdrawn
  <2> QED BY <1>d, <2>1, <2>5
<1>6. ASSUME NEW c \in Clients, PlainCommit(c) PROVE SerialInv'
  <2>1. /\ tx[c].op \in Ops /\ ~Appends(tx[c].op, tx[c].to) /\ End(c)
        /\ UNCHANGED <<window, task, ledger>>
        /\ status' = [status EXCEPT ![tx[c].id] = tx[c].to]
    BY <1>6 DEF PlainCommit
  <2>2. TaskAfter(tx[c].op, task[tx[c].id]) = task[tx[c].id]
    BY <2>1 DEF Appends, TaskAfter
  <2>3. task' = [task EXCEPT ![tx[c].id] = TaskAfter(tx[c].op, @)]
    BY <1>0, <1>t, <2>1, <2>2 DEF TypeOK
  <2>4. NeverOverdrawn'
    BY <2>1 DEF SerialInv, NeverOverdrawn, Available, Latest
  <2> QED BY <1>d, <2>1, <2>3, <2>4
<1>7. ASSUME NEW c \in Clients, Rollback(c) PROVE SerialInv'
  BY <1>7, <1>e, <1>r DEF Rollback
<1>8. CASE UNCHANGED vars
  <2>1. StillTrue'
    BY <1>8 DEF vars, SerialInv, StillTrue, NoOverlapWith, EnoughBalance, Latest, Available
  <2> QED BY <1>8, <1>r, <2>1 DEF vars
<1> QED BY <1>1, <1>2, <1>3, <1>4, <1>5, <1>6, <1>7, <1>8 DEF Next

(* With one request at a time, no two open or approved requests of a       *)
(* person overlap (LEAVE_OVERLAP of create), whatever is decided, cancelled *)
(* and resubmitted.                                                        *)
THEOREM SerialNoOverlap ==
    ASSUME Ids # {}, \A b, c \in Clients : b = c
    PROVE  Spec => []NoOverlap
<1>1. SerialInv => NoOverlap
  BY DEF SerialInv
<1> QED BY <1>1, InitSerial, NextSerial, PTL DEF Spec

(* With one request at a time, no sequence of decisions overdraws the      *)
(* balance, although the ledger's columns need not be the days themselves. *)
THEOREM SerialNeverOverdrawn ==
    ASSUME Ids # {}, \A b, c \in Clients : b = c
    PROVE  Spec => []NeverOverdrawn
<1>1. SerialInv => NeverOverdrawn
  BY DEF SerialInv
<1> QED BY <1>1, InitSerial, NextSerial, PTL DEF Spec

(* With one request at a time, a request that waits for its approver has   *)
(* an open task and a decided one has none.                                *)
THEOREM SerialTaskOpen ==
    ASSUME Ids # {}, \A b, c \in Clients : b = c
    PROVE  Spec => []TaskOpenWhileWaiting
<1>1. SerialInv => TaskOpenWhileWaiting
  BY DEF SerialInv
<1> QED BY <1>1, InitSerial, NextSerial, PTL DEF Spec

(* The sum behind the balance.  The half days that are charged form a      *)
(* finite set, and the open decision holds the dates of its request.       *)
Taken == HalfDays(Statuses \ Closed)

HoldsDates == \A c \in Clients : tx[c].op \in Ops => tx[c].win = window[tx[c].id]

SumInv == HoldsDates /\ IsFiniteSet(Taken) /\ AvailableExact

(* A request takes as many half days as it lasts. *)
LEMMA HalfDaysCount ==
    ASSUME NEW i, NEW w \in Windows
    PROVE  IsFiniteSet(HalfDaysOf(i, w)) /\ Cardinality(HalfDaysOf(i, w)) = Duration(w)
<1>1. Duration(w) \in Nat
  BY DurationType
<1>2. IsFiniteSet(1 .. Duration(w)) /\ Cardinality(1 .. Duration(w)) = Duration(w)
  <2>1. 1 \in Int /\ Duration(w) \in Int
    BY <1>1
  <2>2. /\ IsFiniteSet(1 .. Duration(w))
        /\ Cardinality(1 .. Duration(w)) = IF 1 > Duration(w) THEN 0 ELSE Duration(w) - 1 + 1
    BY ONLY <2>1, FS_Interval
  <2> QED BY <1>1, <2>2
<1>3. IsFiniteSet({i}) /\ Cardinality({i}) = 1
  BY FS_Singleton
<1>4. /\ IsFiniteSet({i} \X (1 .. Duration(w)))
      /\ Cardinality({i} \X (1 .. Duration(w))) = Cardinality({i}) * Cardinality(1 .. Duration(w))
  BY ONLY <1>2, <1>3, FS_Product
<1> QED BY <1>1, <1>2, <1>3, <1>4 DEF HalfDaysOf

LEMMA TakenMembers ==
    ASSUME TypeOK
    PROVE  Taken = UNION {HalfDaysOf(i, window[i]) : i \in {j \in Ids : status[j] \notin Closed}}
BY DEF Taken, HalfDays, TypeOK

(* A request that begins to count adds its half days, and one that ends    *)
(* takes them away; any other decision leaves them.                        *)
LEMMA TakenAdds ==
    ASSUME TypeOK, TypeOK', IsFiniteSet(Taken), NEW i \in Ids, NEW w \in Windows, status[i] \in Closed,
           \A j \in Ids : /\ j # i => status'[j] = status[j] /\ window'[j] = window[j]
                          /\ j = i => status'[j] \notin Closed /\ window'[j] = w
    PROVE  IsFiniteSet(Taken') /\ Cardinality(Taken') = Cardinality(Taken) + Duration(w)
<1>1. Taken' = Taken \cup HalfDaysOf(i, w)
  <2>1. Taken' = UNION {HalfDaysOf(j, window'[j]) : j \in {k \in Ids : status'[k] \notin Closed}}
    BY DEF Taken, HalfDays, TypeOK
  <2>2. Taken = UNION {HalfDaysOf(j, window[j]) : j \in {k \in Ids : status[k] \notin Closed}}
    BY TakenMembers
  <2>3. {k \in Ids : status'[k] \notin Closed} = {k \in Ids : status[k] \notin Closed} \cup {i}
    OBVIOUS
  <2> QED BY <2>1, <2>2, <2>3
<1>2. Taken \cap HalfDaysOf(i, w) = {}
  <2>2. Taken = UNION {HalfDaysOf(j, window[j]) : j \in {k \in Ids : status[k] \notin Closed}}
    BY TakenMembers
  <2> QED BY <2>2 DEF HalfDaysOf
<1>3. IsFiniteSet(HalfDaysOf(i, w)) /\ Cardinality(HalfDaysOf(i, w)) = Duration(w)
  BY HalfDaysCount
<1>4. /\ IsFiniteSet(Taken \cup HalfDaysOf(i, w))
      /\ Cardinality(Taken \cup HalfDaysOf(i, w))
           = Cardinality(Taken) + Cardinality(HalfDaysOf(i, w)) - Cardinality(Taken \cap HalfDaysOf(i, w))
  BY ONLY IsFiniteSet(Taken), <1>3, FS_Union
<1>5. Cardinality({}) = 0 /\ Cardinality(Taken) \in Nat /\ Duration(w) \in Nat
  BY FS_EmptySet, FS_CardinalityType, DurationType
<1>6. Cardinality(Taken \cup HalfDaysOf(i, w)) = Cardinality(Taken) + Duration(w)
  <2>1. Cardinality(Taken \cap HalfDaysOf(i, w)) = 0
    BY <1>2, <1>5, Zenon
  <2> QED BY ONLY <1>3, <1>4, <1>5, <2>1
<1> QED BY <1>1, <1>4, <1>6

LEMMA TakenDrops ==
    ASSUME TypeOK, TypeOK', IsFiniteSet(Taken), NEW i \in Ids, status[i] \notin Closed,
           window' = window, status'[i] \in Closed, \A j \in Ids : j # i => status'[j] = status[j]
    PROVE  IsFiniteSet(Taken') /\ Cardinality(Taken') = Cardinality(Taken) - Duration(window[i])
<1> DEFINE w == window[i]
<1>0. w \in Windows
  BY DEF TypeOK
<1>a. Taken' = UNION {HalfDaysOf(j, window[j]) : j \in {k \in Ids : status'[k] \notin Closed}}
  BY DEF Taken, HalfDays, TypeOK
<1>b. Taken = UNION {HalfDaysOf(j, window[j]) : j \in {k \in Ids : status[k] \notin Closed}}
  BY TakenMembers
<1>c. {k \in Ids : status'[k] \notin Closed} = {k \in Ids : status[k] \notin Closed} \ {i}
  OBVIOUS
<1>1. Taken' = Taken \ HalfDaysOf(i, w)
  BY <1>a, <1>b, <1>c DEF HalfDaysOf
<1>2. Taken \cap HalfDaysOf(i, w) = HalfDaysOf(i, w)
  BY <1>b
<1> HIDE DEF w
<1>3. IsFiniteSet(HalfDaysOf(i, w)) /\ Cardinality(HalfDaysOf(i, w)) = Duration(w)
  BY <1>0, HalfDaysCount
<1>4. /\ IsFiniteSet(Taken \ HalfDaysOf(i, w))
      /\ Cardinality(Taken \ HalfDaysOf(i, w)) = Cardinality(Taken) - Cardinality(Taken \cap HalfDaysOf(i, w))
  BY ONLY IsFiniteSet(Taken), FS_Difference
<1> QED BY <1>1, <1>2, <1>3, <1>4 DEF w

LEMMA TakenStays ==
    ASSUME TypeOK, TypeOK', window' = window, \A j \in Ids : status'[j] \in Closed <=> status[j] \in Closed
    PROVE  Taken' = Taken
<1>1. Taken' = UNION {HalfDaysOf(j, window[j]) : j \in {k \in Ids : status'[k] \notin Closed}}
  BY DEF Taken, HalfDays, TypeOK
<1>2. {k \in Ids : status'[k] \notin Closed} = {k \in Ids : status[k] \notin Closed}
  OBVIOUS
<1> QED BY <1>1, <1>2, TakenMembers

(* A decision refunds the whole request exactly when it closes it. *)
LEMMA RefundFacts ==
    ASSUME NEW op \in Ops, NEW s \in Statuses, NEW to, NEW d \in Nat, to = Target(op, s),
           to \in LEAVE_TRANSITIONS[s], s \notin {"DRAFT", "IN_REVIEW"}
    PROVE  /\ s \notin Closed
           /\ to \in Closed => Appends(op, to)
           /\ Deltas(op, to, d).pending + Deltas(op, to, d).used = IF to \in Closed THEN -d ELSE 0
<1>1. s \in {"SUBMITTED", "CHANGES_REQUESTED", "APPROVED", "CANCEL_REQUESTED"}
  BY DecisionFacts, StatusNames DEF Closed
<1>2. /\ op \in {"approve", "requestChanges", "resubmit"} => to \notin Closed
      /\ op \in {"reject", "cancelApprove"} => to \in Closed
      /\ op = "cancel" => to \in {"CANCELLED", "CANCEL_REQUESTED"}
  BY DEF Target, Closed
<1>c. "CANCELLED" \in Closed /\ "CANCEL_REQUESTED" \notin Closed
  BY DEF Closed
<1>3. to \in Closed => Appends(op, to)
  BY <1>2, <1>c DEF Appends, Ops
<1>4. Deltas(op, to, d).pending + Deltas(op, to, d).used = IF to \in Closed THEN -d ELSE 0
  <2>1. CASE op = "approve"
    BY <1>2, <2>1 DEF Deltas
  <2>2. CASE op \in {"reject", "cancelApprove"}
    BY <1>2, <2>2 DEF Deltas
  <2>3. CASE op = "cancel"
    BY <1>2, <1>c, <2>3 DEF Deltas
  <2>4. CASE op \in {"requestChanges", "resubmit"}
    BY <1>2, <2>4 DEF Deltas
  <2> QED BY <2>1, <2>2, <2>3, <2>4 DEF Ops
<1> QED BY <1>1, <1>3, <1>4 DEF Closed

LEMMA InitSum == ASSUME Ids # {} PROVE Init => SumInv
<1> SUFFICES ASSUME Init PROVE SumInv
  OBVIOUS
<1>1. TypeOK
  BY TypeInit DEF TypeInv
<1>2. Taken = {}
  BY <1>1, TakenMembers DEF Init, Closed
<1>3. IsFiniteSet({}) /\ Cardinality({}) = 0
  BY FS_EmptySet
<1>4. Latest.pending = 0 /\ Latest.used = 0
  BY DEF Init, Latest
<1>5. AvailableExact
  <2>1. Available(Latest) = Opening
    BY <1>4, LeaveAssumption DEF Available
  <2>2. Opening - Cardinality(Taken) = Opening
    BY <1>2, <1>3, LeaveAssumption
  <2> QED BY <2>1, <2>2 DEF AvailableExact, Taken
<1>6. Idle.op = "idle"
  BY DEF Idle
<1> QED BY <1>2, <1>3, <1>5, <1>6 DEF SumInv, HoldsDates, Init, Ops

LEMMA NextSum ==
    ASSUME Ids # {}, \A b, c \in Clients : b = c
    PROVE  SerialInv /\ SumInv /\ [Next]_vars => SumInv'
<1> SUFFICES ASSUME SerialInv, SumInv, [Next]_vars PROVE SumInv'
  OBVIOUS
<1>0. TypeInv /\ TypeInv' /\ TypeOK /\ TypeOK'
  BY TypeNext DEF SerialInv, TypeInv
<1>i. Idle.op = "idle"
  BY DEF Idle
<1>a. /\ IsFiniteSet(Taken) /\ Cardinality(Taken) \in Nat
      /\ Available(Latest) = Opening - Cardinality(Taken)
      /\ Opening \in Nat /\ Available(Latest) \in Int
  BY <1>0, FS_CardinalityType, LatestType, LeaveAssumption DEF SumInv, AvailableExact, Taken
<1>r. ASSUME UNCHANGED <<status, window, ledger>>, HoldsDates' PROVE SumInv'
  <2>1. Taken' = Taken
    BY <1>0, <1>r, TakenStays
  <2>2. Available(Latest)' = Available(Latest)
    BY <1>r DEF Available, Latest
  <2> QED BY <1>a, <1>r, <2>1, <2>2 DEF SumInv, AvailableExact, Taken
<1>e. ASSUME NEW c \in Clients, End(c) PROVE HoldsDates'
  <2>1. \A b \in Clients : tx'[b] = Idle
    BY <1>0, <1>e DEF End, TypeOK
  <2> QED BY <1>i, <2>1 DEF HoldsDates, Ops
<1>s. ASSUME HoldsDates', IsFiniteSet(Taken'), Available(Latest)' = Opening - Cardinality(Taken')
      PROVE  SumInv'
  BY <1>s DEF SumInv, AvailableExact, Taken
<1>t. ASSUME NEW c \in Clients
      PROVE  /\ tx[c].id \in Ids /\ tx[c].win \in Windows /\ Duration(tx[c].win) \in Nat
             /\ Deltas(tx[c].op, tx[c].to, Duration(tx[c].win)) \in DeltaType
  <2>1. tx[c].id \in Ids /\ tx[c].win \in Windows
    BY <1>0 DEF TypeOK, TxType
  <2> QED BY <2>1, DurationType, DeltasType
<1>1. ASSUME NEW c \in Clients, NEW i \in Ids, NEW w \in Windows, NEW k \in Keys, CreateCheck(c, i, w, k)
      PROVE  SumInv'
  <2> DEFINE t == [Idle EXCEPT !.op = "create", !.stage = "checked", !.id = i,
                               !.win = w, !.key = k, !.to = "SUBMITTED"]
  <2>1. tx' = [tx EXCEPT ![c] = t] /\ UNCHANGED <<status, window, ledger>>
    BY <1>1 DEF CreateCheck
  <2>2. t.op = "create"
    BY IdleType DEF TxType
  <2> HIDE DEF t
  <2>3. \A b \in Clients : tx'[b] = t
    BY <1>0, <2>1 DEF TypeOK
  <2> QED BY <1>r, <2>1, <2>2, <2>3 DEF HoldsDates, Ops
<1>2. ASSUME NEW c \in Clients, NEW i \in Ids, NEW op \in Ops, Load(c, i, op) PROVE SumInv'
  <2> DEFINE t == [Idle EXCEPT !.op = op, !.stage = "checked", !.id = i, !.win = window[i],
                               !.key = key[i], !.to = Target(op, status[i])]
  <2>1. tx' = [tx EXCEPT ![c] = t] /\ UNCHANGED <<status, window, ledger>>
    BY <1>2 DEF Load
  <2>2. t.id = i /\ t.win = window[i]
    BY IdleType DEF TxType
  <2> HIDE DEF t
  <2>3. \A b \in Clients : tx'[b] = t
    BY <1>0, <2>1 DEF TypeOK
  <2> QED BY <1>r, <2>1, <2>2, <2>3 DEF HoldsDates
<1>3. ASSUME NEW c \in Clients, ReadLatest(c) PROVE SumInv'
  <2> DEFINE t == [tx[c] EXCEPT !.stage = "appending", !.seen = Len(ledger)]
  <2>1. tx' = [tx EXCEPT ![c] = t] /\ UNCHANGED <<status, window, ledger>>
    BY <1>0, <1>3 DEF ReadLatest, TypeOK, TxType
  <2>2. t.op = tx[c].op /\ t.id = tx[c].id /\ t.win = tx[c].win
    BY <1>0 DEF TypeOK, TxType
  <2> HIDE DEF t
  <2>3. \A b \in Clients : tx'[b] = t
    BY <1>0, <2>1 DEF TypeOK
  <2> QED BY <1>r, <2>1, <2>2, <2>3 DEF SumInv, HoldsDates
<1>4. ASSUME NEW c \in Clients, CreateCommit(c) PROVE SumInv'
  <2> DEFINE i == tx[c].id
             w == tx[c].win
             d == Deltas(tx[c].op, tx[c].to, Duration(w))
  <2>1. /\ tx[c].op = "create" /\ AppendRow(i, d, tx[c].seen) /\ End(c)
        /\ status' = [status EXCEPT ![i] = "SUBMITTED"]
        /\ window' = [window EXCEPT ![i] = w]
    BY <1>4 DEF CreateCommit
  <2>2. i \in Ids /\ w \in Windows /\ Duration(w) \in Nat /\ d \in DeltaType
    BY <1>t
  <2>3. status[i] \in Closed
    BY <2>1 DEF SerialInv, StillTrue, Closed
  <2>4. d.pending + d.used = Duration(w)
    BY <2>1, <2>2, DeltaSums
  <2> HIDE DEF i, w, d
  <2>5. Available(Latest)' = Available(Latest) - Duration(w)
    BY <1>0, <2>1, <2>2, <2>4, AppendAvailable
  <2>6. \A j \in Ids : /\ j # i => status'[j] = status[j] /\ window'[j] = window[j]
                       /\ j = i => status'[j] \notin Closed /\ window'[j] = w
    BY <1>0, <2>1, <2>2 DEF TypeOK, Closed
  <2>7. IsFiniteSet(Taken') /\ Cardinality(Taken') = Cardinality(Taken) + Duration(w)
    BY <1>0, <1>a, <2>2, <2>3, <2>6, TakenAdds
  <2>8. Available(Latest)' = Opening - Cardinality(Taken')
    BY <1>a, <2>2, <2>5, <2>7
  <2> QED BY <1>e, <1>s, <2>1, <2>7, <2>8
(* A decision, and what it adds to the charge. *)
<1>d. ASSUME NEW c \in Clients, tx[c].op \in Ops, End(c), UNCHANGED window,
             status' = [status EXCEPT ![tx[c].id] = tx[c].to],
             Available(Latest)' = Available(Latest)
                 - (IF tx[c].to \in Closed THEN -Duration(tx[c].win) ELSE 0)
      PROVE  SumInv'
  <2> DEFINE i == tx[c].id
             to == tx[c].to
             op == tx[c].op
  <2>1. i \in Ids /\ status[i] \in Statuses /\ status[i] \notin {"DRAFT", "IN_REVIEW"}
    BY <1>0, <1>t DEF TypeOK, SerialInv, NeverReached
  <2>2. op \in Ops /\ to = Target(op, status[i]) /\ to \in LEAVE_TRANSITIONS[status[i]]
    BY <1>d DEF SerialInv, StillTrue
  <2>3. tx[c].win = window[i] /\ window[i] \in Windows /\ Duration(window[i]) \in Nat
    BY <1>d, <1>t DEF SumInv, HoldsDates
  <2>4. status'[i] = to /\ \A j \in Ids : j # i => status'[j] = status[j]
    BY <1>0, <1>d, <2>1 DEF TypeOK
  <2>5. Available(Latest)' = Available(Latest) - (IF to \in Closed THEN -Duration(window[i]) ELSE 0)
    BY <1>d, <2>3
  <2> HIDE DEF i, to, op
  <2>6. status[i] \notin Closed
    BY <2>1, <2>2, DecisionFacts
  <2>7. CASE to \in Closed
    <3>1. IsFiniteSet(Taken') /\ Cardinality(Taken') = Cardinality(Taken) - Duration(window[i])
      BY <1>0, <1>a, <1>d, <2>1, <2>4, <2>6, <2>7, TakenDrops
    <3>2. Available(Latest)' = Opening - Cardinality(Taken')
      BY <1>a, <2>3, <2>5, <2>7, <3>1
    <3> QED BY <1>d, <1>e, <1>s, <3>1, <3>2
  <2>8. CASE to \notin Closed
    <3>1. Taken' = Taken
      BY <1>0, <1>d, <2>4, <2>6, <2>8, TakenStays
    <3>2. Available(Latest)' = Opening - Cardinality(Taken')
      BY <1>a, <2>5, <2>8, <3>1
    <3> QED BY <1>a, <1>d, <1>e, <1>s, <3>1, <3>2
  <2> QED BY <2>7, <2>8
(* The facts of the open decision. *)
<1>f. ASSUME NEW c \in Clients, tx[c].op \in Ops
      PROVE  LET d == Deltas(tx[c].op, tx[c].to, Duration(tx[c].win)) IN
             /\ tx[c].to \in Closed => Appends(tx[c].op, tx[c].to)
             /\ d.pending + d.used = IF tx[c].to \in Closed THEN -Duration(tx[c].win) ELSE 0
  <2>1. /\ tx[c].id \in Ids /\ status[tx[c].id] \in Statuses
        /\ status[tx[c].id] \notin {"DRAFT", "IN_REVIEW"}
    BY <1>0, <1>t DEF TypeOK, SerialInv, NeverReached
  <2>2. /\ tx[c].to = Target(tx[c].op, status[tx[c].id])
        /\ tx[c].to \in LEAVE_TRANSITIONS[status[tx[c].id]]
    BY <1>f DEF SerialInv, StillTrue
  <2>3. Duration(tx[c].win) \in Nat
    BY <1>t
  <2> QED BY <1>f, <2>1, <2>2, <2>3, RefundFacts
<1>5. ASSUME NEW c \in Clients, DecideCommit(c) PROVE SumInv'
  <2> DEFINE d == Deltas(tx[c].op, tx[c].to, Duration(tx[c].win))
  <2>1. /\ tx[c].op \in Ops /\ AppendRow(tx[c].id, d, tx[c].seen) /\ End(c) /\ UNCHANGED window
        /\ status' = [status EXCEPT ![tx[c].id] = tx[c].to]
    BY <1>5 DEF DecideCommit
  <2>2. d \in DeltaType /\ tx[c].id \in Ids
    BY <1>t
  <2>3. d.pending + d.used = IF tx[c].to \in Closed THEN -Duration(tx[c].win) ELSE 0
    BY <1>f, <2>1
  <2> HIDE DEF d
  <2>4. Available(Latest)' = Available(Latest) - (d.pending + d.used)
    BY <1>0, <2>1, <2>2, AppendAvailable
  <2> QED BY <1>d, <2>1, <2>3, <2>4
<1>6. ASSUME NEW c \in Clients, PlainCommit(c) PROVE SumInv'
  <2>1. /\ tx[c].op \in Ops /\ ~Appends(tx[c].op, tx[c].to) /\ End(c)
        /\ UNCHANGED <<window, ledger>>
        /\ status' = [status EXCEPT ![tx[c].id] = tx[c].to]
    BY <1>6 DEF PlainCommit
  <2>2. tx[c].to \notin Closed
    BY <1>f, <2>1
  <2>3. Available(Latest)' = Available(Latest)
    BY <2>1 DEF Available, Latest
  <2>4. Available(Latest)' = Available(Latest) - 0
    BY <1>a, <2>3
  <2> QED BY <1>d, <2>1, <2>2, <2>4
<1>7. ASSUME NEW c \in Clients, Rollback(c) PROVE SumInv'
  BY <1>7, <1>e, <1>r DEF Rollback
<1>8. CASE UNCHANGED vars
  <2>1. HoldsDates'
    BY <1>8 DEF vars, SumInv, HoldsDates
  <2> QED BY <1>8, <1>r, <2>1 DEF vars
<1> QED BY <1>1, <1>2, <1>3, <1>4, <1>5, <1>6, <1>7, <1>8 DEF Next

(* With one request at a time, the available balance of the latest ledger  *)
(* row is the opening balance less the half days of the requests that are  *)
(* neither rejected nor cancelled, whatever the decisions moved between    *)
(* the columns pending and used of append.                                 *)
THEOREM SerialAvailable ==
    ASSUME Ids # {}, \A b, c \in Clients : b = c
    PROVE  Spec => []AvailableExact
<1>1. SumInv => AvailableExact
  BY DEF SumInv
<1> QED BY <1>1, InitSerial, NextSerial, InitSum, NextSum, PTL DEF Spec

-----------------------------------------------------------------------------
(* Attendance.  The predicates below are about one open handler t, given   *)
(* the tables it will write to and the history rc of what was overtaken.   *)

ImportFields == {"op", "file", "to", "stage", "cut", "todo", "at", "new", "wrote", "pend"}
DayFields == {"status", "in", "out", "worked", "late", "files", "frozen"}

DayOK(r) == DOMAIN r = DayFields /\ r.frozen \in BOOLEAN
On(S, d) == {f \in S : d \in Affected(f)}
SeenOf(t, cp) ==
    {f \in Files : IF f = t.file THEN t.to = "COMMITTED" \/ cp[f] > t.cut ELSE cp[f] > 0}

(* The row r shows the punches that the files of S have on day d. *)
Shows(r, d, S) ==
    /\ r.files = S
    /\ r.in = FirstIn(Punches(d, S))
    /\ r.out = LastOut(Punches(d, S))

Started(t) == t.stage \in {"marked", "computed"}

ImportShape(t) ==
    /\ t.op = "import" /\ DOMAIN t = ImportFields
    /\ t.file \in Files /\ t.to \in {"COMMITTED", "ROLLED_BACK"}
    /\ t.stage \in {"loaded", "cut", "marked", "computed"} /\ t.cut \in Nat
    /\ t.todo \subseteq Affected(t.file) /\ t.at \subseteq Affected(t.file)
    /\ t.wrote \subseteq Affected(t.file)
    /\ t.stage # "computed" => t.at = {}
    /\ \A d, e \in t.at : d = e
    /\ ~Started(t) => t.todo = Affected(t.file) /\ t.wrote = {}
    /\ DayOK(t.new) /\ DOMAIN t.pend = Days /\ \A d \in Days : DayOK(t.pend[d])

(* What t has seen and deleted of its batch still stands. *)
BatchView(t, bt, cp, rc) ==
    /\ t.to = "COMMITTED" \/ t.stage = "loaded" => t.cut = 0
    /\ t.cut <= cp[t.file]
    /\ t.file \notin rc =>
        /\ t.to = "COMMITTED" => bt[t.file] = "PREVIEWED"
        /\ t.to = "ROLLED_BACK" => bt[t.file] = "COMMITTED"
        /\ t.to = "ROLLED_BACK" /\ t.stage # "loaded" => t.cut = cp[t.file]

(* A day it has passed over is frozen, and what it computed or wrote is    *)
(* what is to be seen now, unless the day was overtaken.                   *)
DayView(t, cp, dy, rc) ==
    /\ \A d \in Affected(t.file) \ (t.todo \cup t.at \cup t.wrote) : dy[d].frozen
    /\ \A d \in t.wrote : t.pend[d].frozen = dy[d].frozen
    /\ \A d \in (t.at \cup t.wrote) \ rc : ~dy[d].frozen
    /\ \A d \in t.at \ rc : Shows(t.new, d, On(SeenOf(t, cp), d))
    /\ \A d \in t.wrote \ rc : Shows(t.pend[d], d, On(SeenOf(t, cp), d))

ImportInv(t, bt, cp, dy, rc) ==
    ImportShape(t) /\ BatchView(t, bt, cp, rc) /\ DayView(t, cp, dy, rc)

DecideInv(t, rq, rc) ==
    /\ t.op = "decide" /\ t.id \in RequestIds /\ t.to \in {"APPROVED", "REJECTED"}
    /\ rq[t.id] # NoRequest
    /\ t = [op |-> "decide", id |-> t.id, to |-> t.to]
    /\ t.id \notin rc => rq[t.id].status = "SUBMITTED"

HandlerInv(t, bt, cp, dy, rq, rc) ==
    t = NoHandler \/ DecideInv(t, rq, rc) \/ ImportInv(t, bt, cp, dy, rc)

(* Two imports at once: the locks. *)
Apart(t, u) ==
    t.op = "import" /\ u.op = "import" =>
        /\ t.file = u.file => (t.cut = 0 \/ u.cut = 0) /\ ~(Started(t) /\ Started(u))
        /\ t.wrote \cap u.wrote = {}

RequestType ==
    [kind : {"correction"}, key : RequestKeys, want : Wants, status : {"SUBMITTED", "APPROVED", "REJECTED"},
     task : {"open", "approved", "rejected"}] \cup
    [kind : {"overtime"}, key : RequestKeys, want : {NoWant}, status : {"SUBMITTED", "APPROVED", "REJECTED"},
     task : {"open", "approved", "rejected"}]

TablesOK(bt, cp, dy, rq) ==
    /\ bt \in [Files -> {"none", "PREVIEWED", "COMMITTED", "ROLLED_BACK"}]
    /\ cp \in [Files -> Nat]
    /\ DOMAIN dy = Days /\ \A d \in Days : DayOK(dy[d])
    /\ rq \in [RequestIds -> {NoRequest} \cup RequestType]

OwnsEvents(bt, cp, rc) == \A f \in Files \ rc : cp[f] = IF bt[f] = "COMMITTED" THEN 1 ELSE 0

(* The corrections that a table of requests has for day d. *)
For(rq, d) == {i \in RequestIds : rq[i] # NoRequest /\ rq[i].kind = "correction" /\ rq[i].want.day = d}
FrozenBy(rq, rc, d) == \E i \in For(rq, d) : rq[i].status = "APPROVED" \/ i \in rc
With(cp) == {f \in Files : cp[f] > 0}
HasReason(cp, dy, rq, rc) ==
    \A d \in Days \ rc : IF dy[d].frozen THEN FrozenBy(rq, rc, d)
                         ELSE Shows(dy[d], d, On(With(cp), d))

Views(hd, bt, cp, dy, rq, rc) ==
    /\ DOMAIN hd = Handlers
    /\ \A c \in Handlers : HandlerInv(hd[c], bt, cp, dy, rq, rc)
    /\ \A c \in Handlers : \A b \in Handlers \ {c} : Apart(hd[b], hd[c])

AInv ==
    /\ TablesOK(batch, copies, day, req)
    /\ Views(handler, batch, copies, day, req, raced)
    /\ OwnsEvents(batch, copies, raced)
    /\ HasReason(copies, day, req, raced)

-----------------------------------------------------------------------------
(* What is known of a handler follows from its kind.                       *)
LEMMA OpsDiffer ==
    ASSUME NEW t, NEW bt, NEW cp, NEW dy, NEW rq, NEW rc, HandlerInv(t, bt, cp, dy, rq, rc)
    PROVE  /\ t.op = "import" <=> ImportInv(t, bt, cp, dy, rc)
           /\ t.op = "decide" <=> DecideInv(t, rq, rc)
           /\ t.op = "idle" <=> t = NoHandler
BY DEF HandlerInv, ImportInv, ImportShape, DecideInv, NoHandler

(* The rows that recomputeDay and an approval write.                       *)
LEMMA DayFacts ==
    /\ DayOK(NoDay) /\ NoDay.frozen = FALSE /\ NoDay.files = {} /\ NoDay.in = 0 /\ NoDay.out = 0
    /\ \A d, S : DayOK(Computed(d, S)) /\ Computed(d, S).frozen = FALSE
    /\ \A r, w : DayOK(r) => DayOK(Corrected(r, w)) /\ Corrected(r, w).frozen
<1>1. DayOK(NoDay) /\ NoDay.frozen = FALSE /\ NoDay.files = {} /\ NoDay.in = 0 /\ NoDay.out = 0
  BY DEF DayOK, NoDay, DayFields
<1>2. ASSUME NEW d, NEW S PROVE DayOK(Computed(d, S)) /\ Computed(d, S).frozen = FALSE
  BY DEF DayOK, Computed, DayFields
<1>3. ASSUME NEW r, NEW w, DayOK(r) PROVE DayOK(Corrected(r, w)) /\ Corrected(r, w).frozen
  BY <1>3 DEF DayOK, Corrected, DayFields
<1> QED
  BY <1>1, <1>2, <1>3

(* Only the files with a row on day d have punches there. *)
LEMMA PunchesOn ==
    ASSUME NEW d, NEW S \in SUBSET Files
    PROVE  Punches(d, S) = Punches(d, On(S, d))
BY DEF Punches, On, Affected

(* recomputeDay writes what is to be seen.                                 *)
LEMMA ComputedShows ==
    ASSUME NEW d, NEW S \in SUBSET Files
    PROVE  Shows(Computed(d, S), d, On(S, d))
<1>1. Computed(d, S).files = On(S, d)
  BY DEF Computed, On
<1>2. /\ Computed(d, S).in = FirstIn(Punches(d, S))
      /\ Computed(d, S).out = LastOut(Punches(d, S))
  BY DEF Computed
<1> QED
  BY <1>1, <1>2, PunchesOn DEF Shows

-----------------------------------------------------------------------------
(* One handler goes on: what it has in hand after a step *)

AfterDelete(t, cp) == [t EXCEPT !.stage = "cut", !.cut = cp[t.file]]
AfterRead(t, d, cp) ==
    [t EXCEPT !.todo = t.todo \ {d}, !.stage = "computed", !.at = {d}, !.new = Computed(d, SeenOf(t, cp))]
AfterUpsert(t, d, row) ==
    [t EXCEPT !.stage = "marked", !.at = {}, !.new = NoDay,
              !.wrote = t.wrote \cup {d}, !.pend = [t.pend EXCEPT ![d] = row]]

(* commit or rollback has loaded its batch.                                *)
LEMMA FreshImport ==
    ASSUME NEW bt, NEW cp, NEW dy, NEW rq, NEW rc, TablesOK(bt, cp, dy, rq),
           NEW f \in Files, NEW to \in {"COMMITTED", "ROLLED_BACK"},
           bt[f] = IF to = "COMMITTED" THEN "PREVIEWED" ELSE "COMMITTED",
           NEW q, q = Import(f, to)
    PROVE  /\ ImportInv(q, bt, cp, dy, rc)
           /\ \A u : Apart(q, u) /\ Apart(u, q)
<1>1. /\ DOMAIN q = ImportFields
      /\ q.op = "import" /\ q.file = f /\ q.to = to /\ q.stage = "loaded" /\ q.cut = 0
      /\ q.todo = Affected(f) /\ q.at = {} /\ q.new = NoDay /\ q.wrote = {}
      /\ q.pend = [d \in Days |-> NoDay]
  BY DEF Import, ImportFields
<1>2. ImportShape(q)
  BY <1>1, DayFacts DEF ImportShape, Started
<1>3. BatchView(q, bt, cp, rc)
  BY <1>1 DEF BatchView, TablesOK
<1>4. DayView(q, cp, dy, rc)
  BY <1>1 DEF DayView
<1>5. \A u : Apart(q, u) /\ Apart(u, q)
  BY <1>1 DEF Apart, Started
<1> QED
  BY <1>2, <1>3, <1>4, <1>5 DEF ImportInv

(* rollback has deleted the events it found.                               *)
LEMMA DeleteEvents ==
    ASSUME NEW t, NEW bt, NEW cp, NEW dy, NEW rq, NEW rc, TablesOK(bt, cp, dy, rq),
           ImportInv(t, bt, cp, dy, rc), t.stage = "loaded", t.to = "ROLLED_BACK",
           NEW q, q = AfterDelete(t, cp)
    PROVE  /\ ImportInv(q, bt, cp, dy, rc)
           /\ q.file = t.file /\ q.wrote = t.wrote /\ ~Started(q)
<1>1. ImportShape(t)
  BY DEF ImportInv
<1>2. /\ DOMAIN q = ImportFields
      /\ q.op = "import" /\ q.file = t.file /\ q.to = t.to /\ q.stage = "cut" /\ q.cut = cp[t.file]
      /\ q.todo = t.todo /\ q.at = t.at /\ q.new = t.new /\ q.wrote = t.wrote /\ q.pend = t.pend
  BY <1>1 DEF ImportShape, ImportFields, AfterDelete
<1>3. ImportShape(q)
  BY <1>1, <1>2 DEF ImportShape, Started, TablesOK
<1>4. BatchView(q, bt, cp, rc)
  BY <1>1, <1>2 DEF ImportShape, ImportInv, BatchView, TablesOK
<1>5. q.at = {} /\ q.wrote = {}
  BY <1>1, <1>2 DEF ImportShape, Started
<1>6. DayView(q, cp, dy, rc)
  BY <1>2, <1>5 DEF ImportInv, DayView
<1> QED
  BY <1>2, <1>3, <1>4, <1>6 DEF ImportInv, Started

(* The batch row is updated and locked.                                    *)
LEMMA MarkBatch ==
    ASSUME NEW t, NEW bt, NEW cp, NEW dy, NEW rc,
           ImportInv(t, bt, cp, dy, rc), t.stage = IF t.to = "COMMITTED" THEN "loaded" ELSE "cut",
           NEW q, q = [t EXCEPT !.stage = "marked"]
    PROVE  /\ ImportInv(q, bt, cp, dy, rc)
           /\ q.file = t.file /\ q.wrote = t.wrote /\ q.cut = t.cut
<1>1. ImportShape(t)
  BY DEF ImportInv
<1>2. /\ DOMAIN q = ImportFields
      /\ q.op = "import" /\ q.file = t.file /\ q.to = t.to /\ q.stage = "marked" /\ q.cut = t.cut
      /\ q.todo = t.todo /\ q.at = t.at /\ q.new = t.new /\ q.wrote = t.wrote /\ q.pend = t.pend
  BY <1>1 DEF ImportShape, ImportFields
<1>3. ImportShape(q)
  BY <1>1, <1>2 DEF ImportShape, Started
<1>4. BatchView(q, bt, cp, rc)
  BY <1>1, <1>2 DEF ImportShape, ImportInv, BatchView
<1>5. q.at = {} /\ q.wrote = {}
  BY <1>1, <1>2 DEF ImportShape, Started
<1>6. DayView(q, cp, dy, rc)
  BY <1>2, <1>5 DEF ImportInv, DayView
<1> QED
  BY <1>2, <1>3, <1>4, <1>6 DEF ImportInv

(* recomputeDay leaves a corrected day alone.                              *)
LEMMA SkipDay ==
    ASSUME NEW t, NEW bt, NEW cp, NEW dy, NEW rc,
           ImportInv(t, bt, cp, dy, rc), t.stage = "marked", NEW d \in t.todo, dy[d].frozen,
           NEW q, q = [t EXCEPT !.todo = t.todo \ {d}]
    PROVE  /\ ImportInv(q, bt, cp, dy, rc)
           /\ q.file = t.file /\ q.wrote = t.wrote /\ q.cut = t.cut
<1>1. ImportShape(t)
  BY DEF ImportInv
<1>2. /\ DOMAIN q = ImportFields
      /\ q.op = "import" /\ q.file = t.file /\ q.to = t.to /\ q.stage = "marked" /\ q.cut = t.cut
      /\ q.todo = t.todo \ {d} /\ q.at = t.at /\ q.new = t.new /\ q.wrote = t.wrote /\ q.pend = t.pend
  BY <1>1 DEF ImportShape, ImportFields
<1>3. ImportShape(q)
  BY <1>1, <1>2 DEF ImportShape, Started
<1>4. BatchView(q, bt, cp, rc)
  BY <1>1, <1>2 DEF ImportInv, BatchView
<1>5. SeenOf(q, cp) = SeenOf(t, cp)
  BY <1>2 DEF SeenOf
<1>6. DayView(q, cp, dy, rc)
  BY <1>2, <1>5 DEF ImportInv, DayView
<1> QED
  BY <1>2, <1>3, <1>4, <1>6 DEF ImportInv

(* recomputeDay has read and computed a day.                               *)
LEMMA ReadDay ==
    ASSUME NEW t, NEW bt, NEW cp, NEW dy, NEW rc,
           ImportInv(t, bt, cp, dy, rc), t.stage = "marked", NEW d \in t.todo, ~dy[d].frozen,
           NEW q, q = AfterRead(t, d, cp)
    PROVE  /\ ImportInv(q, bt, cp, dy, rc)
           /\ q.file = t.file /\ q.wrote = t.wrote /\ q.cut = t.cut
<1>1. ImportShape(t)
  BY DEF ImportInv
<1>2. /\ DOMAIN q = ImportFields
      /\ q.op = "import" /\ q.file = t.file /\ q.to = t.to /\ q.stage = "computed" /\ q.cut = t.cut
      /\ q.todo = t.todo \ {d} /\ q.at = {d} /\ q.new = Computed(d, SeenOf(t, cp))
      /\ q.wrote = t.wrote /\ q.pend = t.pend
  BY <1>1 DEF ImportShape, ImportFields, AfterRead
<1>3. ImportShape(q)
  BY <1>1, <1>2, DayFacts DEF ImportShape, Started
<1>4. BatchView(q, bt, cp, rc)
  BY <1>1, <1>2 DEF ImportInv, BatchView
<1>5. SeenOf(q, cp) = SeenOf(t, cp) /\ SeenOf(t, cp) \in SUBSET Files
  BY <1>2 DEF SeenOf
<1>6. Shows(q.new, d, On(SeenOf(q, cp), d))
  BY <1>2, <1>5, ComputedShows
<1>7. t.at = {}
  BY <1>1 DEF ImportShape
<1>8. DayView(q, cp, dy, rc)
  <2>1. DayView(t, cp, dy, rc)
    BY DEF ImportInv
  <2>2. ~dy[d].frozen
    OBVIOUS
  <2> QED
    BY ONLY <1>2, <1>5, <1>6, <1>7, <2>1, <2>2 DEF DayView
<1> QED
  BY <1>2, <1>3, <1>4, <1>8 DEF ImportInv

(* recomputeDay has upserted the day and holds its lock.                   *)
LEMMA UpsertDay ==
    ASSUME NEW t, NEW bt, NEW cp, NEW dy, NEW rq, NEW rc, TablesOK(bt, cp, dy, rq),
           ImportInv(t, bt, cp, dy, rc), t.stage = "computed", NEW d \in t.at,
           NEW row, row = [t.new EXCEPT !.frozen = dy[d].frozen],
           NEW q, q = AfterUpsert(t, d, row)
    PROVE  /\ ImportInv(q, bt, cp, dy, rc)
           /\ q.file = t.file /\ q.wrote = t.wrote \cup {d} /\ q.cut = t.cut
<1>1. ImportShape(t)
  BY DEF ImportInv
<1>0. t.at = {d} /\ d \in Days
  BY <1>1, AttendanceAssumption DEF ImportShape, Affected
<1>2. /\ DOMAIN q = ImportFields
      /\ q.op = "import" /\ q.file = t.file /\ q.to = t.to /\ q.stage = "marked" /\ q.cut = t.cut
      /\ q.todo = t.todo /\ q.at = {} /\ q.new = NoDay
      /\ q.wrote = t.wrote \cup {d} /\ q.pend = [t.pend EXCEPT ![d] = row]
  BY <1>1 DEF ImportShape, ImportFields, AfterUpsert
<1>3. /\ DayOK(row) /\ row.frozen = dy[d].frozen
      /\ row.files = t.new.files /\ row.in = t.new.in /\ row.out = t.new.out
  BY <1>0, <1>1 DEF ImportShape, DayOK, DayFields, TablesOK
<1>4. /\ DOMAIN q.pend = Days /\ q.pend[d] = row
      /\ \A e \in Days : e # d => q.pend[e] = t.pend[e]
  BY <1>0, <1>1, <1>2 DEF ImportShape
<1>5. ImportShape(q)
  BY <1>0, <1>1, <1>2, <1>3, <1>4, DayFacts DEF ImportShape, Started
<1>6. BatchView(q, bt, cp, rc)
  BY <1>1, <1>2 DEF ImportInv, BatchView
<1>7. SeenOf(q, cp) = SeenOf(t, cp)
  BY <1>2 DEF SeenOf
<1>8. d \notin rc => Shows(row, d, On(SeenOf(t, cp), d))
  BY <1>3 DEF ImportInv, DayView, Shows
<1>9. t.wrote \subseteq Days
  BY <1>1, AttendanceAssumption DEF ImportShape, Affected
<1>10. DayView(q, cp, dy, rc)
  <2>1. DayView(t, cp, dy, rc)
    BY DEF ImportInv
  <2>2. \A e \in q.wrote : q.pend[e].frozen = dy[e].frozen
    BY ONLY <1>2, <1>3, <1>4, <1>9, <2>1 DEF DayView
  <2>3. \A e \in q.wrote \ rc : Shows(q.pend[e], e, On(SeenOf(q, cp), e))
    BY ONLY <1>2, <1>4, <1>7, <1>8, <1>9, <2>1 DEF DayView
  <2> QED
    BY ONLY <1>0, <1>2, <2>1, <2>2, <2>3 DEF DayView
<1> QED
  BY <1>2, <1>5, <1>6, <1>10 DEF ImportInv

-----------------------------------------------------------------------------
(* A handler commits *)

(* The tables after import u has committed. *)
BatchAfter(u, bt) == [bt EXCEPT ![u.file] = u.to]
CopiesAfter(u, cp) == [cp EXCEPT ![u.file] = IF u.to = "COMMITTED" THEN @ + 1 ELSE @ - u.cut]
DaysAfter(u, dy) == [d \in Days |-> IF d \in u.wrote THEN u.pend[d] ELSE dy[d]]

(* The tables after a commit: frozen days stay frozen. *)
LEMMA AfterImport ==
    ASSUME NEW u, NEW bt, NEW cp, NEW dy, NEW rq, NEW rc, TablesOK(bt, cp, dy, rq),
           ImportInv(u, bt, cp, dy, rc)
    PROVE  /\ TablesOK(BatchAfter(u, bt), CopiesAfter(u, cp), DaysAfter(u, dy), rq)
           /\ BatchAfter(u, bt)[u.file] = u.to
           /\ CopiesAfter(u, cp)[u.file] = IF u.to = "COMMITTED" THEN cp[u.file] + 1 ELSE cp[u.file] - u.cut
           /\ \A f \in Files \ {u.file} : BatchAfter(u, bt)[f] = bt[f] /\ CopiesAfter(u, cp)[f] = cp[f]
           /\ \A d \in Days : DaysAfter(u, dy)[d] = IF d \in u.wrote THEN u.pend[d] ELSE dy[d]
           /\ \A d \in Days : DaysAfter(u, dy)[d].frozen = dy[d].frozen
<1>1. ImportShape(u) /\ u.file \in Files /\ u.cut \in Nat /\ u.cut <= cp[u.file] /\ cp[u.file] \in Nat
  BY DEF ImportInv, ImportShape, BatchView, TablesOK
<1>2. \A d \in Days : DaysAfter(u, dy)[d] = IF d \in u.wrote THEN u.pend[d] ELSE dy[d]
  BY DEF DaysAfter
<1>3. \A d \in Days : DaysAfter(u, dy)[d].frozen = dy[d].frozen
  BY <1>2 DEF ImportInv, DayView
<1>4. DOMAIN DaysAfter(u, dy) = Days /\ \A d \in Days : DayOK(DaysAfter(u, dy)[d])
  BY <1>1, <1>2 DEF DaysAfter, ImportShape, TablesOK
<1>5. BatchAfter(u, bt) \in [Files -> {"none", "PREVIEWED", "COMMITTED", "ROLLED_BACK"}]
  BY <1>1 DEF BatchAfter, TablesOK, ImportShape
<1>6. CopiesAfter(u, cp) \in [Files -> Nat]
  BY <1>1 DEF CopiesAfter, TablesOK
<1>7. /\ BatchAfter(u, bt)[u.file] = u.to
      /\ \A f \in Files \ {u.file} : BatchAfter(u, bt)[f] = bt[f]
  BY <1>1 DEF BatchAfter, TablesOK
<1>8. /\ CopiesAfter(u, cp)[u.file] = IF u.to = "COMMITTED" THEN cp[u.file] + 1 ELSE cp[u.file] - u.cut
      /\ \A f \in Files \ {u.file} : CopiesAfter(u, cp)[f] = cp[f]
  BY <1>1 DEF CopiesAfter, TablesOK
<1> QED
  BY <1>2, <1>3, <1>4, <1>5, <1>6, <1>7, <1>8 DEF TablesOK

(* Another import u commits while t is open: a file that both work on and  *)
(* a day that t has read are overtaken.                                    *)
LEMMA ImportBesideImport ==
    ASSUME NEW t, NEW u, NEW bt, NEW cp, NEW dy, NEW rq, NEW rc, TablesOK(bt, cp, dy, rq),
           ImportInv(t, bt, cp, dy, rc), ImportInv(u, bt, cp, dy, rc), Apart(t, u),
           u.stage = "marked", u.todo = {},
           NEW rd, rc \subseteq rd, t.file = u.file => u.file \in rd, t.at \cap u.wrote \subseteq rd,
           NEW bt2, bt2 = BatchAfter(u, bt), NEW cp2, cp2 = CopiesAfter(u, cp),
           NEW dy2, dy2 = DaysAfter(u, dy)
    PROVE  ImportInv(t, bt2, cp2, dy2, rd)
<1>1. /\ TablesOK(bt2, cp2, dy2, rq)
      /\ cp2[u.file] = IF u.to = "COMMITTED" THEN cp[u.file] + 1 ELSE cp[u.file] - u.cut
      /\ \A f \in Files \ {u.file} : bt2[f] = bt[f] /\ cp2[f] = cp[f]
      /\ \A d \in Days : dy2[d] = IF d \in u.wrote THEN u.pend[d] ELSE dy[d]
      /\ \A d \in Days : dy2[d].frozen = dy[d].frozen
  BY ONLY TablesOK(bt, cp, dy, rq), ImportInv(u, bt, cp, dy, rc), bt2 = BatchAfter(u, bt),
          cp2 = CopiesAfter(u, cp), dy2 = DaysAfter(u, dy), AfterImport
<1>2. ImportShape(t) /\ ImportShape(u) /\ Affected(t.file) \subseteq Days
  BY AttendanceAssumption DEF ImportInv, ImportShape, Affected
<1>3. t.at \subseteq Days /\ t.wrote \subseteq Days
  BY <1>2 DEF ImportShape
<1>4. t.cut <= cp2[t.file]
  <2>1. t.cut <= cp[t.file] /\ cp[t.file] \in Nat /\ u.cut \in Nat /\ t.cut \in Nat /\ cp2[t.file] \in Nat
    BY <1>1, <1>2 DEF ImportInv, ImportShape, BatchView, TablesOK
  <2>2. t.file # u.file => cp2[t.file] = cp[t.file]
    BY <1>1, <1>2 DEF ImportShape
  <2>3. t.file = u.file => t.cut = 0 \/ u.cut = 0
    BY <1>2 DEF Apart, ImportShape
  <2> QED
    BY <1>1, <2>1, <2>2, <2>3
<1>5. BatchView(t, bt2, cp2, rd)
  <2>1. CASE t.file = u.file
    BY <1>4, <2>1 DEF ImportInv, BatchView
  <2>2. CASE t.file # u.file
    <3>1. bt2[t.file] = bt[t.file] /\ cp2[t.file] = cp[t.file] /\ t.file \in Files
      BY <1>1, <1>2, <2>2 DEF ImportShape
    <3> QED
      BY <3>1 DEF ImportInv, BatchView
  <2> QED
    BY <2>1, <2>2
<1>6. ASSUME NEW d \in (t.at \cup t.wrote) \ rd
      PROVE  On(SeenOf(t, cp2), d) = On(SeenOf(t, cp), d)
  <2>1. d \in Days /\ ~dy[d].frozen /\ d \notin rc
    BY <1>3, <1>6 DEF ImportInv, DayView
  <2>2. Started(t) /\ u.file # t.file
    <3>1. Started(t)
      BY <1>2, <1>6 DEF ImportShape, Started
    <3>2. Started(u)
      BY DEF Started
    <3> QED
      BY <1>2, <3>1, <3>2 DEF Apart, ImportShape
  <2>3. d \notin u.wrote
    BY <1>2, <1>6 DEF Apart, ImportShape
  <2>4. d \notin Affected(u.file)
    <3>1. u.at = {}
      BY <1>2 DEF ImportShape
    <3> QED
      BY <2>1, <2>3, <3>1 DEF ImportInv, DayView
  <2>5. \A f \in Files : d \in Affected(f) => cp2[f] = cp[f]
    BY <1>1, <2>4
  <2> QED
    BY <2>5 DEF On, SeenOf
<1>7. DayView(t, cp2, dy2, rd)
  <2>1. \A d \in Affected(t.file) \ (t.todo \cup t.at \cup t.wrote) : dy2[d].frozen
    BY <1>1, <1>2 DEF ImportInv, DayView
  <2>2. \A d \in t.wrote : t.pend[d].frozen = dy2[d].frozen
    BY <1>1, <1>3 DEF ImportInv, DayView
  <2>3. \A d \in (t.at \cup t.wrote) \ rd : ~dy2[d].frozen
    BY <1>1, <1>3 DEF ImportInv, DayView
  <2>4. \A d \in t.at \ rd : Shows(t.new, d, On(SeenOf(t, cp2), d))
    BY <1>6 DEF ImportInv, DayView
  <2>5. \A d \in t.wrote \ rd : Shows(t.pend[d], d, On(SeenOf(t, cp2), d))
    BY <1>6 DEF ImportInv, DayView
  <2> QED
    BY <2>1, <2>2, <2>3, <2>4, <2>5 DEF DayView
<1> QED
  BY <1>2, <1>5, <1>7 DEF ImportInv

(* What the tables show once import u has committed. *)
LEMMA ImportShowsItself ==
    ASSUME NEW u, NEW bt, NEW cp, NEW dy, NEW rq, NEW rc, TablesOK(bt, cp, dy, rq),
           ImportInv(u, bt, cp, dy, rc), u.stage = "marked", u.todo = {},
           OwnsEvents(bt, cp, rc), HasReason(cp, dy, rq, rc),
           NEW rd, rc \subseteq rd,
           NEW bt2, bt2 = BatchAfter(u, bt), NEW cp2, cp2 = CopiesAfter(u, cp),
           NEW dy2, dy2 = DaysAfter(u, dy)
    PROVE  OwnsEvents(bt2, cp2, rd) /\ HasReason(cp2, dy2, rq, rd)
<1>1. /\ TablesOK(bt2, cp2, dy2, rq)
      /\ bt2[u.file] = u.to
      /\ cp2[u.file] = IF u.to = "COMMITTED" THEN cp[u.file] + 1 ELSE cp[u.file] - u.cut
      /\ \A f \in Files \ {u.file} : bt2[f] = bt[f] /\ cp2[f] = cp[f]
      /\ \A d \in Days : dy2[d] = IF d \in u.wrote THEN u.pend[d] ELSE dy[d]
      /\ \A d \in Days : dy2[d].frozen = dy[d].frozen
  BY ONLY TablesOK(bt, cp, dy, rq), ImportInv(u, bt, cp, dy, rc), bt2 = BatchAfter(u, bt),
          cp2 = CopiesAfter(u, cp), dy2 = DaysAfter(u, dy), AfterImport
<1>2. ImportShape(u) /\ u.at = {} /\ u.file \in Files /\ u.to \in {"COMMITTED", "ROLLED_BACK"}
  BY DEF ImportInv, ImportShape
<1>3. OwnsEvents(bt2, cp2, rd)
  <2>1. CASE u.file \in rd
    BY <1>1, <2>1 DEF OwnsEvents
  <2>2. CASE u.file \notin rd
    <3>1. cp[u.file] = IF bt[u.file] = "COMMITTED" THEN 1 ELSE 0
      BY <1>2, <2>2 DEF OwnsEvents
    <3>2. cp2[u.file] = IF u.to = "COMMITTED" THEN 1 ELSE 0
      BY <1>1, <1>2, <2>2, <3>1 DEF ImportInv, BatchView
    <3> QED
      BY <1>1, <3>2 DEF OwnsEvents
  <2> QED
    BY <2>1, <2>2
<1>4. ASSUME NEW d \in Days \ rd, ~dy2[d].frozen
      PROVE  Shows(dy2[d], d, On(With(cp2), d))
  <2>1. CASE d \in u.wrote
    <3>1. dy2[d] = u.pend[d] /\ Shows(u.pend[d], d, On(SeenOf(u, cp), d))
      BY <1>1, <1>4, <2>1 DEF ImportInv, DayView
    <3>2. SeenOf(u, cp) = With(cp2)
      <4>1. cp2[u.file] > 0 <=> u.to = "COMMITTED" \/ cp[u.file] > u.cut
        BY <1>1, <1>2 DEF TablesOK, ImportShape
      <4> QED
        BY <1>1, <1>2, <4>1 DEF SeenOf, With
    <3> QED
      BY <3>1, <3>2
  <2>2. CASE d \notin u.wrote
    <3>1. dy2[d] = dy[d] /\ ~dy[d].frozen
      BY <1>1, <1>4, <2>2
    <3>2. d \notin Affected(u.file)
      BY <1>2, <2>2, <3>1 DEF ImportInv, DayView
    <3>3. On(With(cp2), d) = On(With(cp), d)
      BY <1>1, <3>2 DEF On, With
    <3> QED
      BY <1>4, <3>1, <3>3 DEF HasReason
  <2> QED
    BY <2>1, <2>2
<1>5. ASSUME NEW d \in Days \ rd, dy2[d].frozen PROVE FrozenBy(rq, rd, d)
  BY <1>1, <1>5 DEF HasReason, FrozenBy
<1> QED
  BY <1>3, <1>4, <1>5 DEF HasReason

(* The tables after decision v. *)
DecidedDays(v, rq) ==
    IF v.to = "APPROVED" /\ rq[v.id].kind = "correction" THEN {rq[v.id].want.day} ELSE {}
RequestsAfter(v, rq) == [rq EXCEPT ![v.id] = [@ EXCEPT !.status = v.to, !.task = Outcome(v.to)]]
CorrectedAfter(v, rq, dy) ==
    [d \in Days |-> IF d \in DecidedDays(v, rq) THEN Corrected(dy[d], rq[v.id].want) ELSE dy[d]]

(* What decision v changes, and what it leaves. *)
Decided(v, rq, dy, rq2, dy2) ==
    /\ rq2[v.id].status = v.to /\ rq2[v.id] # NoRequest
    /\ rq2[v.id].kind = rq[v.id].kind /\ rq2[v.id].want = rq[v.id].want
    /\ \A i \in RequestIds \ {v.id} : rq2[i] = rq[i]
    /\ \A d \in Days \ DecidedDays(v, rq) : dy2[d] = dy[d]
    /\ \A d \in Days \cap DecidedDays(v, rq) : dy2[d].frozen

(* approve and reject write the request they loaded and the day it names.  *)
LEMMA AfterDecision ==
    ASSUME NEW v, NEW bt, NEW cp, NEW dy, NEW rq, NEW rc, TablesOK(bt, cp, dy, rq), DecideInv(v, rq, rc),
           NEW rq2, rq2 = RequestsAfter(v, rq), NEW dy2, dy2 = CorrectedAfter(v, rq, dy)
    PROVE  TablesOK(bt, cp, dy2, rq2) /\ Decided(v, rq, dy, rq2, dy2)
<1>1. v.id \in RequestIds /\ rq[v.id] \in RequestType /\ v.to \in {"APPROVED", "REJECTED"}
  BY DEF DecideInv, TablesOK
<1>2. PICK r : r = rq[v.id]
  OBVIOUS
<1>3. PICK q : q = [r EXCEPT !.status = v.to, !.task = Outcome(v.to)]
  OBVIOUS
<1>4. Outcome(v.to) \in {"open", "approved", "rejected"}
  BY DEF Outcome
<1>5. q \in RequestType /\ q.status = v.to /\ q.kind = r.kind /\ q.want = r.want /\ q # NoRequest
  <2>1. PICK o : o = Outcome(v.to)
    OBVIOUS
  <2>2. q.status = v.to /\ q.kind = r.kind /\ q.want = r.want
    BY <1>1, <1>2, <1>3 DEF RequestType
  <2>3. q \in RequestType
    BY <1>1, <1>2, <1>3, <1>4, <2>1 DEF RequestType
  <2>4. NoRequest \notin RequestType
    BY DEF NoRequest, RequestType
  <2> QED
    BY <2>2, <2>3, <2>4
<1>6. rq2[v.id] = q /\ \A i \in RequestIds \ {v.id} : rq2[i] = rq[i]
  BY <1>1, <1>2, <1>3 DEF RequestsAfter, TablesOK
<1>7. rq2 \in [RequestIds -> {NoRequest} \cup RequestType]
  BY <1>1, <1>2, <1>3, <1>5 DEF RequestsAfter, TablesOK
<1>8. /\ DOMAIN dy2 = Days
      /\ \A d \in Days : dy2[d] = IF d \in DecidedDays(v, rq) THEN Corrected(dy[d], rq[v.id].want) ELSE dy[d]
  BY DEF CorrectedAfter
<1>9. \A d \in Days : DayOK(dy2[d]) /\ (d \in DecidedDays(v, rq) => dy2[d].frozen)
  BY <1>8, DayFacts DEF TablesOK
<1> QED
  BY <1>2, <1>5, <1>6, <1>7, <1>8, <1>9 DEF TablesOK, Decided

(* A decision commits while import t is open: a day that t has read is     *)
(* overtaken, and t holds the lock of a day it has written.                *)
LEMMA DecisionBesideImport ==
    ASSUME NEW t, NEW v, NEW bt, NEW cp, NEW dy, NEW rq, NEW rc, TablesOK(bt, cp, dy, rq),
           ImportInv(t, bt, cp, dy, rc), DecideInv(v, rq, rc),
           t.wrote \cap DecidedDays(v, rq) = {},
           NEW rd, rc \subseteq rd, t.at \cap DecidedDays(v, rq) \subseteq rd,
           NEW rq2, rq2 = RequestsAfter(v, rq), NEW dy2, dy2 = CorrectedAfter(v, rq, dy)
    PROVE  ImportInv(t, bt, cp, dy2, rd)
<1>0. Decided(v, rq, dy, rq2, dy2)
  BY ONLY TablesOK(bt, cp, dy, rq), DecideInv(v, rq, rc), rq2 = RequestsAfter(v, rq),
          dy2 = CorrectedAfter(v, rq, dy), AfterDecision
<1>1. /\ \A d \in Days \ DecidedDays(v, rq) : dy2[d] = dy[d]
      /\ \A d \in Days \cap DecidedDays(v, rq) : dy2[d].frozen
  BY <1>0 DEF Decided
<1>2. ImportShape(t) /\ Affected(t.file) \subseteq Days /\ t.at \subseteq Days /\ t.wrote \subseteq Days
  BY AttendanceAssumption DEF ImportInv, ImportShape, Affected
<1>3. BatchView(t, bt, cp, rd)
  BY DEF ImportInv, BatchView
<1>4. DayView(t, cp, dy2, rd)
  <2>1. \A d \in Affected(t.file) \ (t.todo \cup t.at \cup t.wrote) : dy2[d].frozen
    BY <1>1, <1>2 DEF ImportInv, DayView
  <2>2. \A d \in t.wrote : t.pend[d].frozen = dy2[d].frozen
    BY <1>1, <1>2 DEF ImportInv, DayView
  <2>3. \A d \in (t.at \cup t.wrote) \ rd : ~dy2[d].frozen
    BY <1>1, <1>2 DEF ImportInv, DayView
  <2> QED
    BY <2>1, <2>2, <2>3 DEF ImportInv, DayView
<1> QED
  BY <1>2, <1>3, <1>4 DEF ImportInv

(* A decision commits while another is open.                               *)
LEMMA DecisionBesideDecision ==
    ASSUME NEW t, NEW v, NEW bt, NEW cp, NEW dy, NEW rq, NEW rc, TablesOK(bt, cp, dy, rq),
           DecideInv(t, rq, rc), DecideInv(v, rq, rc),
           NEW rd, rc \subseteq rd, t.id = v.id => v.id \in rd,
           NEW rq2, rq2 = RequestsAfter(v, rq), NEW dy2, dy2 = CorrectedAfter(v, rq, dy)
    PROVE  DecideInv(t, rq2, rd)
<1>0. Decided(v, rq, dy, rq2, dy2)
  BY ONLY TablesOK(bt, cp, dy, rq), DecideInv(v, rq, rc), rq2 = RequestsAfter(v, rq),
          dy2 = CorrectedAfter(v, rq, dy), AfterDecision
<1>1. /\ rq2[v.id] # NoRequest
      /\ \A i \in RequestIds \ {v.id} : rq2[i] = rq[i]
  BY <1>0 DEF Decided
<1> QED
  BY <1>1 DEF DecideInv

(* What the tables show after a decision.                                  *)
LEMMA DecisionHasReason ==
    ASSUME NEW v, NEW bt, NEW cp, NEW dy, NEW rq, NEW rc, TablesOK(bt, cp, dy, rq), DecideInv(v, rq, rc),
           HasReason(cp, dy, rq, rc), NEW rd, rc \subseteq rd,
           NEW rq2, rq2 = RequestsAfter(v, rq), NEW dy2, dy2 = CorrectedAfter(v, rq, dy)
    PROVE  HasReason(cp, dy2, rq2, rd)
<1>0. Decided(v, rq, dy, rq2, dy2)
  BY ONLY TablesOK(bt, cp, dy, rq), DecideInv(v, rq, rc), rq2 = RequestsAfter(v, rq),
          dy2 = CorrectedAfter(v, rq, dy), AfterDecision
<1>1. /\ rq2[v.id].status = v.to /\ rq2[v.id] # NoRequest
      /\ rq2[v.id].kind = rq[v.id].kind /\ rq2[v.id].want = rq[v.id].want
      /\ \A i \in RequestIds \ {v.id} : rq2[i] = rq[i]
      /\ \A d \in Days \ DecidedDays(v, rq) : dy2[d] = dy[d]
      /\ \A d \in Days \cap DecidedDays(v, rq) : dy2[d].frozen
  BY <1>0 DEF Decided
<1>2. v.id \in RequestIds /\ rq[v.id] # NoRequest /\ (v.id \in rc \/ rq[v.id].status = "SUBMITTED")
  BY DEF DecideInv
<1>3. \A d : For(rq2, d) = For(rq, d)
  BY <1>1, <1>2 DEF For
<1>4. ASSUME NEW d \in Days \ rd, d \in DecidedDays(v, rq) PROVE FrozenBy(rq2, rd, d)
  <2>1. v.to = "APPROVED" /\ rq[v.id].kind = "correction" /\ rq[v.id].want.day = d
    BY <1>4 DEF DecidedDays
  <2>2. v.id \in For(rq2, d)
    BY <1>1, <1>2, <2>1 DEF For
  <2> QED
    BY <1>1, <2>1, <2>2 DEF FrozenBy
<1>5. ASSUME NEW d \in Days \ rd, d \notin DecidedDays(v, rq), dy2[d].frozen PROVE FrozenBy(rq2, rd, d)
  <2>1. dy2[d] = dy[d] /\ d \in Days \ rc
    BY <1>1, <1>5
  <2>2. PICK i \in For(rq, d) : rq[i].status = "APPROVED" \/ i \in rc
    BY <1>5, <2>1 DEF HasReason, FrozenBy
  <2>3. i \in RequestIds
    BY <2>2 DEF For
  <2>4. rq2[i].status = "APPROVED" \/ i \in rd
    BY <1>1, <1>2, <2>2, <2>3
  <2> QED
    BY <1>3, <2>2, <2>4 DEF FrozenBy
<1>6. ASSUME NEW d \in Days \ rd, d \notin DecidedDays(v, rq), ~dy2[d].frozen
      PROVE  Shows(dy2[d], d, On(With(cp), d))
  BY <1>1, <1>6 DEF HasReason
<1> QED
  BY <1>1, <1>4, <1>5, <1>6 DEF HasReason

-----------------------------------------------------------------------------
(* The steps *)

(* The locks do not depend on whose they are.                              *)
LEMMA ApartBoth ==
    ASSUME NEW t, NEW u, Apart(t, u)
    PROVE  Apart(u, t)
BY DEF Apart

(* Nobody waits for a handler that is not there.                           *)
LEMMA IdleApart ==
    /\ NoHandler.op = "idle"
    /\ \A u : Apart(NoHandler, u) /\ Apart(u, NoHandler)
BY DEF Apart, NoHandler

(* Handler c goes on, and the others see what they saw. *)
LEMMA GoesOn ==
    ASSUME NEW hd, NEW bt, NEW cp, NEW dy, NEW rq, NEW rc, Views(hd, bt, cp, dy, rq, rc),
           NEW c \in Handlers, NEW q, HandlerInv(q, bt, cp, dy, rq, rc),
           \A b \in Handlers \ {c} : Apart(hd[b], q),
           NEW hd2, hd2 = [hd EXCEPT ![c] = q]
    PROVE  Views(hd2, bt, cp, dy, rq, rc)
<1>1. DOMAIN hd2 = Handlers /\ hd2[c] = q /\ \A b \in Handlers \ {c} : hd2[b] = hd[b]
  BY DEF Views
<1>2. \A b \in Handlers : HandlerInv(hd2[b], bt, cp, dy, rq, rc)
  BY <1>1 DEF Views
<1>3. ASSUME NEW a \in Handlers, NEW b \in Handlers \ {a} PROVE Apart(hd2[b], hd2[a])
  <2>1. CASE a = c
    BY <1>1, <2>1
  <2>2. CASE b = c
    <3>1. hd2[a] = hd[a] /\ hd2[b] = q /\ Apart(hd[a], q)
      BY <1>1, <2>2
    <3> QED
      BY <3>1, ApartBoth
  <2>3. CASE a # c /\ b # c
    BY <1>1, <2>3 DEF Views
  <2> QED
    BY <2>1, <2>2, <2>3
<1> QED
  BY <1>1, <1>2, <1>3 DEF Views

(* The same for the state: c takes up, continues or gives up. *)
LEMMA Turn ==
    ASSUME AInv, NEW c \in Handlers, NEW q, HandlerInv(q, batch, copies, day, req, raced),
           \A b \in Handlers \ {c} : Apart(handler[b], q),
           handler' = [handler EXCEPT ![c] = q], UNCHANGED <<rows, raced>>
    PROVE  AInv'
<1>1. Views(handler', batch, copies, day, req, raced)
  BY GoesOn DEF AInv
<1>2. batch' = batch /\ copies' = copies /\ day' = day /\ req' = req /\ raced' = raced
  BY DEF rows
<1> QED
  BY <1>1, <1>2 DEF AInv

(* The steps of an import, a decision and a request keep the invariant.    *)
LEMMA CommitLoadStep ==
    ASSUME AInv, NEW c \in Handlers, NEW f \in Files, NEW to \in {"COMMITTED", "ROLLED_BACK"},
           batch[f] = IF to = "COMMITTED" THEN "PREVIEWED" ELSE "COMMITTED",
           Begin(c, Import(f, to)), UNCHANGED <<rows, raced>>
    PROVE  AInv'
<1>1. PICK q : q = Import(f, to)
  OBVIOUS
<1>2. ImportInv(q, batch, copies, day, raced) /\ \A u : Apart(q, u) /\ Apart(u, q)
  BY <1>1, FreshImport DEF AInv
<1>3. HandlerInv(q, batch, copies, day, req, raced)
  BY <1>2 DEF HandlerInv
<1>4. handler' = [handler EXCEPT ![c] = q]
  BY <1>1 DEF Begin
<1> QED
  BY <1>2, <1>3, <1>4, Turn

(* What an open import has in hand, and how it stands to the others. *)
LEMMA OpenImport ==
    ASSUME AInv, NEW c \in Handlers, handler[c].op = "import"
    PROVE  /\ ImportInv(handler[c], batch, copies, day, raced)
           /\ handler[c].file \in Files /\ handler[c].op = "import"
           /\ \A b \in Handlers \ {c} : Apart(handler[b], handler[c])
<1>1. ImportInv(handler[c], batch, copies, day, raced)
  BY OpsDiffer DEF AInv, Views
<1> QED
  BY <1>1 DEF AInv, Views, ImportInv, ImportShape

LEMMA RollbackDeleteStep ==
    ASSUME AInv, NEW c \in Handlers, RollbackDelete(c)
    PROVE  AInv'
<1>1. PICK t : t = handler[c]
  OBVIOUS
<1>2. ImportInv(t, batch, copies, day, raced) /\ t.op = "import" /\ t.stage = "loaded" /\ t.to = "ROLLED_BACK"
  BY <1>1, OpenImport DEF RollbackDelete, Stage
<1>3. PICK q : q = AfterDelete(t, copies)
  OBVIOUS
<1>4. ImportInv(q, batch, copies, day, raced) /\ q.file = t.file /\ q.wrote = t.wrote /\ ~Started(q)
  <2>1. TablesOK(batch, copies, day, req)
    BY DEF AInv
  <2> QED
    BY ONLY <1>2, <1>3, <2>1, DeleteEvents
<1>5. ASSUME NEW b \in Handlers \ {c} PROVE Apart(handler[b], q)
  <2>1. Apart(handler[b], t)
    BY <1>1, <1>2, OpenImport
  <2>2. handler[b].op = "import" /\ handler[b].file = t.file => handler[b].cut = 0
    BY <1>1 DEF RollbackDelete, EventsFree
  <2> QED
    BY <1>2, <1>4, <2>1, <2>2 DEF Apart
<1>6. handler' = [handler EXCEPT ![c] = q] /\ UNCHANGED <<rows, raced>>
  BY <1>1, <1>3 DEF RollbackDelete, AfterDelete, AInv, Views
<1>7. HandlerInv(q, batch, copies, day, req, raced)
  BY <1>4 DEF HandlerInv
<1> QED
  BY <1>5, <1>6, <1>7, Turn

LEMMA MarkStep ==
    ASSUME AInv, NEW c \in Handlers, Mark(c)
    PROVE  AInv'
<1>1. PICK t : t = handler[c]
  OBVIOUS
<1>2. /\ ImportInv(t, batch, copies, day, raced) /\ t.op = "import"
      /\ t.stage = IF t.to = "COMMITTED" THEN "loaded" ELSE "cut"
  BY <1>1, OpenImport DEF Mark, Stage
<1>3. PICK q : q = [t EXCEPT !.stage = "marked"]
  OBVIOUS
<1>4. ImportInv(q, batch, copies, day, raced) /\ q.file = t.file /\ q.wrote = t.wrote /\ q.cut = t.cut
  BY <1>2, <1>3, MarkBatch
<1>5. ASSUME NEW b \in Handlers \ {c} PROVE Apart(handler[b], q)
  <2>1. Apart(handler[b], t)
    BY <1>1, <1>2, OpenImport
  <2>2. handler[b].op = "import" /\ handler[b].file = t.file => ~Started(handler[b])
    BY <1>1 DEF Mark, BatchFree, Started
  <2> QED
    BY <1>2, <1>4, <2>1, <2>2 DEF Apart
<1>6. handler' = [handler EXCEPT ![c] = q] /\ UNCHANGED <<rows, raced>>
  BY <1>1, <1>3 DEF Mark, AInv, Views
<1>7. HandlerInv(q, batch, copies, day, req, raced)
  BY <1>4 DEF HandlerInv
<1> QED
  BY <1>5, <1>6, <1>7, Turn

LEMMA RecomputeReadStep ==
    ASSUME AInv, NEW c \in Handlers, NEW d \in Days, RecomputeRead(c, d)
    PROVE  AInv'
<1>1. PICK t : t = handler[c]
  OBVIOUS
<1>2. ImportInv(t, batch, copies, day, raced) /\ t.op = "import" /\ t.stage = "marked" /\ d \in t.todo
  BY <1>1, OpenImport DEF RecomputeRead, Stage
<1>3. PICK q : q = IF day[d].frozen THEN [t EXCEPT !.todo = t.todo \ {d}] ELSE AfterRead(t, d, copies)
  OBVIOUS
<1>4. /\ ImportInv(q, batch, copies, day, raced) /\ q.file = t.file /\ q.wrote = t.wrote /\ q.cut = t.cut
  <2>1. CASE day[d].frozen
    <3>1. q = [t EXCEPT !.todo = t.todo \ {d}]
      BY <1>3, <2>1
    <3> QED
      BY ONLY <1>2, <2>1, <3>1, SkipDay
  <2>2. CASE ~day[d].frozen
    <3>1. q = AfterRead(t, d, copies)
      BY <1>3, <2>2
    <3> QED
      BY ONLY <1>2, <2>2, <3>1, ReadDay
  <2> QED
    BY <2>1, <2>2
<1>5. ASSUME NEW b \in Handlers \ {c} PROVE Apart(handler[b], q)
  <2>1. Apart(handler[b], t) /\ Started(t)
    BY <1>1, <1>2, OpenImport DEF Started
  <2> QED
    BY <1>2, <1>4, <2>1 DEF Apart
<1>6. handler' = [handler EXCEPT ![c] = q] /\ UNCHANGED <<rows, raced>>
  <2>1. Seen(c) = SeenOf(t, copies)
    BY <1>1 DEF Seen, SeenOf
  <2>2. q = IF day[d].frozen THEN [t EXCEPT !.todo = t.todo \ {d}] ELSE Reads(c, d)
    BY ONLY <1>1, <1>3, <2>1 DEF Reads, AfterRead
  <2> QED
    BY <1>1, <2>2 DEF RecomputeRead
<1>7. HandlerInv(q, batch, copies, day, req, raced)
  BY <1>4 DEF HandlerInv
<1> QED
  BY <1>5, <1>6, <1>7, Turn

LEMMA RecomputeUpsertStep ==
    ASSUME AInv, NEW c \in Handlers, NEW d \in Days, RecomputeUpsert(c, d)
    PROVE  AInv'
<1>1. PICK t : t = handler[c]
  OBVIOUS
<1>2. ImportInv(t, batch, copies, day, raced) /\ t.op = "import" /\ t.stage = "computed" /\ d \in t.at
  BY <1>1, OpenImport DEF RecomputeUpsert, Stage
<1>3. PICK row : row = [t.new EXCEPT !.frozen = day[d].frozen]
  OBVIOUS
<1>4. PICK q : q = AfterUpsert(t, d, row)
  OBVIOUS
<1>5. /\ ImportInv(q, batch, copies, day, raced)
      /\ q.file = t.file /\ q.wrote = t.wrote \cup {d} /\ q.cut = t.cut
  <2>1. TablesOK(batch, copies, day, req)
    BY DEF AInv
  <2> QED
    BY ONLY <1>2, <1>3, <1>4, <2>1, UpsertDay
<1>6. ASSUME NEW b \in Handlers \ {c} PROVE Apart(handler[b], q)
  <2>1. Apart(handler[b], t) /\ Started(t)
    BY <1>1, <1>2, OpenImport DEF Started
  <2>2. handler[b].op = "import" => d \notin handler[b].wrote
    BY <1>1 DEF RecomputeUpsert, DayFree
  <2> QED
    BY <1>2, <1>5, <2>1, <2>2 DEF Apart
<1>7. handler' = [handler EXCEPT ![c] = q] /\ UNCHANGED <<rows, raced>>
  BY <1>1, <1>3, <1>4 DEF RecomputeUpsert, AfterUpsert
<1>8. HandlerInv(q, batch, copies, day, req, raced)
  BY <1>5 DEF HandlerInv
<1> QED
  BY <1>6, <1>7, <1>8, Turn

(* The import commits. *)
LEMMA ImportCommitStep ==
    ASSUME AInv, NEW c \in Handlers, ImportCommit(c)
    PROVE  AInv'
<1>1. PICK u : u = handler[c]
  OBVIOUS
<1>2. /\ ImportInv(u, batch, copies, day, raced) /\ u.op = "import" /\ u.file \in Files
      /\ u.stage = "marked" /\ u.todo = {}
  BY <1>1, OpenImport DEF ImportCommit, Stage
<1>3. /\ batch' = BatchAfter(u, batch) /\ copies' = CopiesAfter(u, copies) /\ day' = DaysAfter(u, day)
      /\ req' = req /\ handler' = [handler EXCEPT ![c] = NoHandler]
  BY <1>1 DEF ImportCommit, Ends, BatchAfter, CopiesAfter, DaysAfter
<1>4. raced' = raced \cup {y \in u.wrote \cup {u.file} : \E b \in Handlers \ {c} : Holds(b, y)}
  BY <1>1 DEF ImportCommit, Ends
<1>5. /\ TablesOK(batch, copies, day, req) /\ OwnsEvents(batch, copies, raced)
      /\ HasReason(copies, day, req, raced) /\ raced \subseteq raced'
  BY <1>4 DEF AInv
<1>6. TablesOK(batch', copies', day', req)
  <2>1. TablesOK(BatchAfter(u, batch), CopiesAfter(u, copies), DaysAfter(u, day), req)
    BY ONLY <1>2, <1>5, AfterImport
  <2> QED
    BY <1>3, <2>1
<1>7. OwnsEvents(batch', copies', raced') /\ HasReason(copies', day', req, raced')
  BY ONLY <1>2, <1>3, <1>5, ImportShowsItself
<1>8. ASSUME NEW b \in Handlers \ {c}
      PROVE  HandlerInv(handler[b], batch', copies', day', req, raced')
  <2>1. PICK t : t = handler[b]
    OBVIOUS
  <2>2. HandlerInv(t, batch, copies, day, req, raced)
    BY <2>1 DEF AInv, Views
  <2>3. CASE t.op = "import"
    <3>1. ImportInv(t, batch, copies, day, raced)
      BY ONLY <2>2, <2>3, OpsDiffer
    <3>2. Apart(t, u)
      BY <1>1, <1>2, <2>1, OpenImport
    <3>3. t.file = u.file => u.file \in raced'
      BY <1>4, <2>1, <2>3 DEF Holds
    <3>4. t.at \cap u.wrote \subseteq raced'
      BY <1>4, <2>1, <2>3 DEF Holds
    <3>5. ImportInv(t, batch', copies', day', raced')
      BY ONLY <1>2, <1>3, <1>5, <3>1, <3>2, <3>3, <3>4, ImportBesideImport
    <3> QED
      BY <2>1, <3>5 DEF HandlerInv
  <2>4. CASE DecideInv(t, req, raced)
    <3>1. DecideInv(t, req, raced')
      BY <1>5, <2>4 DEF DecideInv
    <3> QED
      BY <2>1, <3>1 DEF HandlerInv
  <2>5. CASE t = NoHandler
    BY <2>1, <2>5 DEF HandlerInv
  <2> QED
    BY <2>2, <2>3, <2>4, <2>5 DEF HandlerInv, ImportInv, ImportShape
<1>9. Views(handler', batch', copies', day', req, raced')
  <2>1. DOMAIN handler = Handlers /\ \A a \in Handlers : \A b \in Handlers \ {a} : Apart(handler[b], handler[a])
    BY DEF AInv, Views
  <2>2. HandlerInv(NoHandler, batch', copies', day', req, raced')
    BY DEF HandlerInv
  <2> QED
    BY ONLY <1>3, <1>8, <2>1, <2>2, IdleApart DEF Views
<1> QED
  BY <1>3, <1>6, <1>7, <1>9 DEF AInv

LEMMA DecideStep ==
    ASSUME AInv, NEW c \in Handlers, Decide(c)
    PROVE  AInv'
<1>1. PICK v : v = handler[c]
  OBVIOUS
<1>2. DecideInv(v, req, raced) /\ v.op = "decide"
  <2>1. v.op = "decide" /\ HandlerInv(v, batch, copies, day, req, raced)
    BY <1>1 DEF Decide, AInv, Views
  <2> QED
    BY ONLY <2>1, OpsDiffer
<1>3. /\ req' = RequestsAfter(v, req) /\ day' = CorrectedAfter(v, req, day)
      /\ batch' = batch /\ copies' = copies /\ handler' = [handler EXCEPT ![c] = NoHandler]
  BY <1>1 DEF Decide, Ends, RequestsAfter, CorrectedAfter, DecidedDays
<1>4. raced' = raced \cup {y \in DecidedDays(v, req) \cup {v.id} : \E b \in Handlers \ {c} : Holds(b, y)}
  BY <1>1 DEF Decide, Ends, DecidedDays
<1>5. \A d \in DecidedDays(v, req) : DayFree(c, d)
  BY <1>1 DEF Decide, DecidedDays
<1>6. /\ TablesOK(batch, copies, day, req) /\ OwnsEvents(batch, copies, raced)
      /\ HasReason(copies, day, req, raced) /\ raced \subseteq raced'
  BY <1>4 DEF AInv
<1>7. TablesOK(batch, copies, day', req')
  BY ONLY <1>2, <1>3, <1>6, AfterDecision
<1>8. OwnsEvents(batch, copies, raced') /\ HasReason(copies, day', req', raced')
  <2>1. OwnsEvents(batch, copies, raced')
    BY <1>6 DEF OwnsEvents
  <2>2. HasReason(copies, day', req', raced')
    BY ONLY <1>2, <1>3, <1>6, DecisionHasReason
  <2> QED
    BY <2>1, <2>2
<1>9. ASSUME NEW b \in Handlers \ {c}
      PROVE  HandlerInv(handler[b], batch, copies, day', req', raced')
  <2>1. PICK t : t = handler[b]
    OBVIOUS
  <2>2. HandlerInv(t, batch, copies, day, req, raced)
    BY <2>1 DEF AInv, Views
  <2>3. CASE t.op = "import"
    <3>1. ImportInv(t, batch, copies, day, raced)
      BY ONLY <2>2, <2>3, OpsDiffer
    <3>2. t.wrote \cap DecidedDays(v, req) = {}
      BY <1>5, <2>1, <2>3 DEF DayFree
    <3>3. t.at \cap DecidedDays(v, req) \subseteq raced'
      BY <1>4, <2>1, <2>3 DEF Holds
    <3>4. ImportInv(t, batch, copies, day', raced')
      BY ONLY <1>2, <1>3, <1>6, <3>1, <3>2, <3>3, DecisionBesideImport
    <3> QED
      BY <2>1, <3>4 DEF HandlerInv
  <2>4. CASE DecideInv(t, req, raced)
    <3>1. t.id = v.id => v.id \in raced'
      BY <1>4, <2>1, <2>4 DEF Holds, DecideInv
    <3>2. DecideInv(t, req', raced')
      BY ONLY <1>2, <1>3, <1>6, <2>4, <3>1, DecisionBesideDecision
    <3> QED
      BY <2>1, <3>2 DEF HandlerInv
  <2>5. CASE t = NoHandler
    BY <2>1, <2>5 DEF HandlerInv
  <2> QED
    BY <2>2, <2>3, <2>4, <2>5 DEF HandlerInv, ImportInv, ImportShape
<1>10. Views(handler', batch, copies, day', req', raced')
  <2>1. DOMAIN handler = Handlers /\ \A a \in Handlers : \A b \in Handlers \ {a} : Apart(handler[b], handler[a])
    BY DEF AInv, Views
  <2>2. HandlerInv(NoHandler, batch, copies, day', req', raced')
    BY DEF HandlerInv
  <2> QED
    BY ONLY <1>3, <1>9, <2>1, <2>2, IdleApart DEF Views
<1> QED
  BY <1>3, <1>7, <1>8, <1>10 DEF AInv

LEMMA DecideLoadStep ==
    ASSUME AInv, NEW c \in Handlers, NEW i \in RequestIds, NEW to \in {"APPROVED", "REJECTED"},
           DecideLoad(c, i, to)
    PROVE  AInv'
<1>1. PICK q : q = [op |-> "decide", id |-> i, to |-> to]
  OBVIOUS
<1>2. q.op = "decide" /\ q.id = i /\ q.to = to
  BY <1>1
<1>3. req[i] # NoRequest /\ req[i] \in RequestType
  BY DEF DecideLoad, Requests, AInv, TablesOK
<1>4. req[i].status = "SUBMITTED"
  <2>1. req[i].status \in {"SUBMITTED", "APPROVED", "REJECTED"} /\ to \in Table(req[i].kind)[req[i].status]
    BY <1>3 DEF DecideLoad, RequestType
  <2>2. PICK s, k : s = req[i].status /\ k = req[i].kind
    OBVIOUS
  <2>3. s \in {"SUBMITTED", "APPROVED", "REJECTED"} /\ to \in Table(k)[s]
    BY <2>1, <2>2
  <2>4. CASE k = "correction"
    BY <2>2, <2>3, <2>4 DEF Table, CORRECTION_TRANSITIONS
  <2>5. CASE k # "correction"
    BY <2>2, <2>3, <2>5 DEF Table, OT_TRANSITIONS
  <2> QED
    BY <2>4, <2>5
<1>5. HandlerInv(q, batch, copies, day, req, raced)
  BY <1>1, <1>2, <1>3, <1>4 DEF HandlerInv, DecideInv
<1>6. \A b \in Handlers \ {c} : Apart(handler[b], q)
  BY <1>2 DEF Apart
<1>7. handler' = [handler EXCEPT ![c] = q] /\ UNCHANGED <<rows, raced>>
  BY <1>1 DEF DecideLoad, Begin
<1> QED
  BY <1>5, <1>6, <1>7, Turn

LEMMA AbandonStep ==
    ASSUME AInv, NEW c \in Handlers, Abandon(c)
    PROVE  AInv'
<1>1. HandlerInv(NoHandler, batch, copies, day, req, raced)
  BY DEF HandlerInv
<1>2. handler' = [handler EXCEPT ![c] = NoHandler] /\ UNCHANGED <<rows, raced>>
  BY DEF Abandon
<1>3. \A b \in Handlers \ {c} : Apart(handler[b], NoHandler)
  BY IdleApart
<1> QED
  BY ONLY AInv, c \in Handlers, <1>1, <1>2, <1>3, Turn

LEMMA PreviewStep ==
    ASSUME AInv, NEW f \in Files, Preview(f)
    PROVE  AInv'
<1>1. /\ batch' \in [Files -> {"none", "PREVIEWED", "COMMITTED", "ROLLED_BACK"}]
      /\ batch[f] = "none" /\ batch'[f] = "PREVIEWED" /\ \A g \in Files \ {f} : batch'[g] = batch[g]
  BY DEF Preview, AInv, TablesOK
<1>2. copies' = copies /\ day' = day /\ req' = req /\ handler' = handler /\ raced' = raced
  BY DEF Preview
<1>3. TablesOK(batch', copies, day, req)
  BY <1>1 DEF AInv, TablesOK
<1>4. OwnsEvents(batch', copies, raced)
  BY <1>1 DEF AInv, OwnsEvents
<1>5. ASSUME NEW t, ImportInv(t, batch, copies, day, raced) PROVE ImportInv(t, batch', copies, day, raced)
  <2>1. t.file \in Files /\ t.to \in {"COMMITTED", "ROLLED_BACK"}
    BY <1>5 DEF ImportInv, ImportShape
  <2>2. BatchView(t, batch', copies, raced)
    BY <1>1, <1>5, <2>1 DEF ImportInv, BatchView
  <2> QED
    BY <1>5, <2>2 DEF ImportInv
<1>6. Views(handler, batch', copies, day, req, raced)
  BY <1>5 DEF AInv, Views, HandlerInv
<1> QED
  BY <1>2, <1>3, <1>4, <1>6 DEF AInv

LEMMA CreateStep ==
    ASSUME AInv, NEW i \in RequestIds, NEW k \in RequestKeys, NEW kind, NEW w,
           (kind = "correction" /\ w \in Wants) \/ (kind = "overtime" /\ w = NoWant),
           Create(kind, k, w, i)
    PROVE  AInv'
<1>1. PICK r : r = [kind |-> kind, key |-> k, want |-> w, status |-> "SUBMITTED", task |-> "open"]
  OBVIOUS
<1>2. r \in RequestType
  BY <1>1 DEF RequestType
<1>3. /\ req' \in [RequestIds -> {NoRequest} \cup RequestType]
      /\ req[i] = NoRequest /\ \A j \in RequestIds \ {i} : req'[j] = req[j]
  BY <1>1, <1>2 DEF Create, AInv, TablesOK
<1>4. batch' = batch /\ copies' = copies /\ day' = day /\ handler' = handler /\ raced' = raced
  BY DEF Create
<1>5. TablesOK(batch, copies, day, req')
  BY <1>3 DEF AInv, TablesOK
<1>6. ASSUME NEW t, DecideInv(t, req, raced) PROVE DecideInv(t, req', raced)
  BY <1>3, <1>6 DEF DecideInv
<1>7. Views(handler, batch, copies, day, req', raced)
  BY <1>6 DEF AInv, Views, HandlerInv
<1>8. ASSUME NEW d, FrozenBy(req, raced, d) PROVE FrozenBy(req', raced, d)
  <2>1. PICK j \in For(req, d) : req[j].status = "APPROVED" \/ j \in raced
    BY <1>8 DEF FrozenBy
  <2>2. j \in RequestIds /\ req[j] # NoRequest /\ req'[j] = req[j]
    BY <1>3, <2>1 DEF For
  <2>3. j \in For(req', d)
    BY <2>1, <2>2 DEF For
  <2> QED
    BY <2>1, <2>2, <2>3 DEF FrozenBy
<1>9. HasReason(copies, day, req', raced)
  BY <1>8 DEF AInv, HasReason
<1> QED
  BY <1>4, <1>5, <1>7, <1>9 DEF AInv

LEMMA InitAttendance ==
    AttendanceInit => AInv
<1> SUFFICES ASSUME AttendanceInit PROVE AInv
  OBVIOUS
<1> USE DEF AttendanceInit
<1>1. TablesOK(batch, copies, day, req)
  BY DayFacts DEF TablesOK
<1>2. Views(handler, batch, copies, day, req, raced)
  BY IdleApart DEF Views, HandlerInv
<1>3. OwnsEvents(batch, copies, raced)
  BY DEF OwnsEvents
<1>4. HasReason(copies, day, req, raced)
  <2>1. \A d \in Days : On(With(copies), d) = {} /\ Punches(d, {}) = {}
    BY DEF On, With, Punches
  <2>2. FirstIn({}) = 0 /\ LastOut({}) = 0
    BY DEF FirstIn, LastOut
  <2> QED
    BY <2>1, <2>2, DayFacts DEF HasReason, Shows
<1> QED
  BY <1>1, <1>2, <1>3, <1>4 DEF AInv

LEMMA NextAttendance ==
    AInv /\ [AttendanceNext]_attendanceVars => AInv'
<1> SUFFICES ASSUME AInv, [AttendanceNext]_attendanceVars PROVE AInv'
  OBVIOUS
<1>1. ASSUME NEW f \in Files, Preview(f) PROVE AInv'
  BY <1>1, PreviewStep
<1>2. ASSUME NEW w \in Leaves, LeaveDecided(w) PROVE AInv'
  BY <1>2 DEF LeaveDecided, AInv
<1>3. ASSUME NEW w \in Assignments, createAssignment(w) PROVE AInv'
  BY <1>3 DEF createAssignment, AInv
<1>4. ASSUME Requesting PROVE AInv'
  <2>1. PICK k \in RequestKeys, i \in RequestIds :
            (\E w \in Wants : Create("correction", k, w, i)) \/ Create("overtime", k, NoWant, i)
    BY <1>4 DEF Requesting
  <2> QED
    BY <2>1, CreateStep
<1>5. ASSUME NEW c \in Handlers, Importing(c) PROVE AInv'
  <2>1. ASSUME NEW f \in Files, CommitLoad(c, f) PROVE AInv'
    BY <2>1, CommitLoadStep DEF CommitLoad
  <2>2. ASSUME NEW f \in Files, RollbackLoad(c, f) PROVE AInv'
    BY <2>2, CommitLoadStep DEF RollbackLoad
  <2> QED
    BY <1>5, <2>1, <2>2, RollbackDeleteStep, MarkStep, ImportCommitStep, RecomputeReadStep, RecomputeUpsertStep
    DEF Importing
<1>6. ASSUME NEW c \in Handlers, Deciding(c) PROVE AInv'
  BY <1>6, DecideLoadStep, DecideStep DEF Deciding
<1>7. ASSUME NEW c \in Handlers, Abandon(c) PROVE AInv'
  BY <1>7, AbandonStep
<1>8. ASSUME UNCHANGED attendanceVars PROVE AInv'
  BY <1>8 DEF attendanceVars, rows, AInv
<1> QED
  BY <1>1, <1>2, <1>3, <1>4, <1>5, <1>6, <1>7, <1>8 DEF AttendanceNext

LEMMA AlwaysAInv ==
    AttendanceSpec => []AInv
BY InitAttendance, NextAttendance, PTL DEF AttendanceSpec

(* Attendance, for any number of handlers: the events of a file are in the *)
(* table once while its batch is COMMITTED and not at all otherwise,       *)
(* unless two handlers worked on the batch at the same time (commit and    *)
(* rollback of attendance-import.service.ts).                              *)
THEOREM EventsOwned ==
    AttendanceSpec => []BatchOwnsEvents
<1>1. AInv => BatchOwnsEvents
  BY DEF AInv, OwnsEvents, BatchOwnsEvents
<1> QED
  BY <1>1, AlwaysAInv, PTL

(* A day shows the punches of the files that are committed now, or has an  *)
(* approved correction, whatever imports and rollbacks overlap on it,      *)
(* unless recomputeDay or a decision was overtaken by a commit.            *)
THEOREM DayReason ==
    AttendanceSpec => []DayHasReason
<1>1. AInv => DayHasReason
  <2> SUFFICES ASSUME AInv PROVE DayHasReason
    OBVIOUS
  <2>1. \A d : Corrections(d) = For(req, d) /\ OnDay(d) = On(With(copies), d)
    BY DEF Corrections, Requests, For, OnDay, On, With
  <2> QED
    BY <2>1 DEF AInv, HasReason, FrozenBy, Shows, DayHasReason
<1> QED
  BY <1>1, AlwaysAInv, PTL

(* A corrected day changes only by a further approved correction, unless a *)
(* recomputeDay that had looked at it before the approval was overtaken.   *)
THEOREM CorrectionKept ==
    AttendanceSpec => CorrectionStands
<1> DEFINE Kept(d) == day[d].frozen /\ d \notin raced =>
          \/ day'[d] = day[d]
          \/ \E i \in Corrections(d), c \in Handlers :
                handler[c] = [op |-> "decide", id |-> i, to |-> "APPROVED"] /\ handler'[c] = NoHandler
<1>1. ASSUME AInv, [AttendanceNext]_attendanceVars, NEW d \in Days PROVE Kept(d)
  <2>1. ASSUME NEW c \in Handlers, ImportCommit(c), day[d].frozen, d \notin raced PROVE day'[d] = day[d]
    <3>1. ImportInv(handler[c], batch, copies, day, raced)
      BY <1>1, <2>1, OpenImport DEF ImportCommit, Stage
    <3>2. d \notin handler[c].wrote
      BY <2>1, <3>1 DEF ImportInv, DayView
    <3> QED
      BY <2>1, <3>2 DEF ImportCommit
  <2>2. ASSUME NEW c \in Handlers, Decide(c) PROVE Kept(d)
    <3>1. PICK v : v = handler[c]
      OBVIOUS
    <3>2. DecideInv(v, req, raced)
      <4>1. v.op = "decide" /\ HandlerInv(v, batch, copies, day, req, raced)
        BY <1>1, <2>2, <3>1 DEF Decide, AInv, Views
      <4> QED
        BY ONLY <4>1, OpsDiffer
    <3>3. day' = CorrectedAfter(v, req, day) /\ handler' = [handler EXCEPT ![c] = NoHandler]
      BY <2>2, <3>1 DEF Decide, Ends, CorrectedAfter, DecidedDays
    <3>4. CASE d \notin DecidedDays(v, req)
      BY <3>3, <3>4 DEF CorrectedAfter
    <3>5. CASE d \in DecidedDays(v, req)
      <4>1. v.id \in Corrections(d) /\ v.to = "APPROVED"
        BY <3>2, <3>5 DEF Corrections, Requests, DecidedDays, DecideInv
      <4>2. handler[c] = [op |-> "decide", id |-> v.id, to |-> "APPROVED"]
        BY <3>1, <3>2, <4>1 DEF DecideInv
      <4>3. handler'[c] = NoHandler
        BY <1>1, <3>3 DEF AInv, Views
      <4> QED
        BY <4>1, <4>2, <4>3
    <3> QED
      BY <3>4, <3>5
  <2>3. ASSUME NEW c \in Handlers, Importing(c) PROVE Kept(d)
    BY <2>1, <2>3 DEF Importing, CommitLoad, RollbackLoad, RollbackDelete, Mark, RecomputeRead, RecomputeUpsert, rows
  <2>4. ASSUME NEW c \in Handlers, Deciding(c) PROVE Kept(d)
    BY <2>2, <2>4 DEF Deciding, DecideLoad, rows
  <2> QED
    BY <1>1, <2>3, <2>4 DEF AttendanceNext, Preview, LeaveDecided, createAssignment, Requesting, Create,
                            Abandon, attendanceVars, rows
<1>2. AInv /\ [AttendanceNext]_attendanceVars => [\A d \in Days : Kept(d)]_attendanceVars
  BY <1>1
<1> QED
  BY <1>2, AlwaysAInv, PTL DEF AttendanceSpec, CorrectionStands
=============================================================================
