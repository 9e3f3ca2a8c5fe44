--------------------------- MODULE Outbox_proofs ---------------------------
(* Proofs about Outbox, for any handlers, sweeps, events and bounds. *)
EXTENDS Outbox, TLAPS

-----------------------------------------------------------------------------
(* What the two kinds of write do to the table *)

(* An idle handler is a well-typed transaction. *)
LEMMA IdleType == Idle \in TxType /\ Idle.op = "idle"
<1> DEFINE w0 == CHOOSE w \in Webhooks : TRUE
<1>1. w0 \in Events
  BY OutboxAssumption DEF Events
<1>2. Idle = [op |-> "idle", of |-> w0]
  BY DEF Idle
<1> HIDE DEF w0
<1> QED BY <1>1, <1>2 DEF TxType

(* enqueueOutboxEvent adds one pending row at the end and touches no other. *)
LEMMA EnqueueAppends ==
    ASSUME NEW e \in Events, outbox \in Seq(RowType), EnqueueOutboxEvent(e)
    PROVE  /\ outbox' \in Seq(RowType)
           /\ DOMAIN outbox = 1 .. Len(outbox) /\ Len(outbox) \in Nat
           /\ DOMAIN outbox' = 1 .. Len(outbox) + 1
           /\ \A r \in DOMAIN outbox' : r \in DOMAIN outbox \/ r = Len(outbox) + 1
           /\ \A r \in DOMAIN outbox : outbox'[r] = outbox[r]
           /\ outbox'[Len(outbox) + 1] = [of |-> e, status |-> "pending", attempts |-> 0, next |-> "now"]
<1> DEFINE row == [of |-> e, status |-> "pending", attempts |-> 0, next |-> "now"]
<1>1. row \in RowType
  BY DEF RowType
<1>2. outbox' = Append(outbox, row)
  BY DEF EnqueueOutboxEvent
<1> HIDE DEF row
<1>3. /\ outbox' \in Seq(RowType)
      /\ DOMAIN outbox = 1 .. Len(outbox) /\ Len(outbox) \in Nat
      /\ DOMAIN outbox' = 1 .. Len(outbox) + 1
      /\ \A r \in DOMAIN outbox : outbox'[r] = outbox[r]
      /\ outbox'[Len(outbox) + 1] = row
  BY <1>1, <1>2
<1>4. \A n \in Nat : \A r \in 1 .. n + 1 : r \in 1 .. n \/ r = n + 1
  OBVIOUS
<1>5. \A r \in DOMAIN outbox' : r \in DOMAIN outbox \/ r = Len(outbox) + 1
  BY <1>3, <1>4
<1> QED BY <1>3, <1>5 DEF row

(* One attempt keeps the event and stores the attempt it was given, within *)
(* the cap when that is not above it.                                      *)
LEMMA AttemptedRow ==
    ASSUME NEW row \in RowType, NEW a \in Nat
    PROVE  /\ Attempted(row, a) \in RowType
           /\ Attempted(row, a).of = row.of /\ Attempted(row, a).attempts = a
           /\ Attempted(row, a).status = "pending" => a < MaxAttempts
           /\ Attempted(row, a).status = "failed" => a >= MaxAttempts
<1>1. FailUntil[row.of] \in Nat /\ MaxAttempts \in Nat
  BY OutboxAssumption DEF RowType
<1>2. \/ a >= FailUntil[row.of] /\ Attempted(row, a) = [row EXCEPT !.status = "sent", !.attempts = a]
      \/ a >= MaxAttempts /\ Attempted(row, a) = [row EXCEPT !.status = "failed", !.attempts = a]
      \/ a < MaxAttempts /\ Attempted(row, a) = [row EXCEPT !.status = "pending", !.attempts = a, !.next = "later"]
  BY <1>1 DEF Attempted
<1> QED BY <1>1, <1>2 DEF RowType

(* A sweep changes only the rows it read, each by one attempt. *)
LEMMA SweepRows ==
    ASSUME TypeOK, NEW s \in Sweepers, SweepCommit(s)
    PROVE  /\ outbox' \in Seq(RowType)
           /\ DOMAIN outbox' = DOMAIN outbox
           /\ \A r \in DOMAIN outbox : outbox'[r].of = outbox[r].of
           /\ \A r \in DOMAIN outbox \ DOMAIN batch[s] : outbox'[r] = outbox[r]
           /\ \A r \in DOMAIN batch[s] :
                /\ r \in DOMAIN outbox /\ batch[s][r] \in Nat
                /\ outbox'[r] = Attempted(outbox[r], batch[s][r] + 1)
<1>1. /\ outbox \in Seq(RowType) /\ DOMAIN outbox = 1 .. Len(outbox) /\ Len(outbox) \in Nat
      /\ \A r \in DOMAIN outbox : outbox[r] \in RowType
      /\ DOMAIN batch[s] \subseteq DOMAIN outbox
      /\ \A r \in DOMAIN batch[s] : batch[s][r] \in Nat /\ batch[s][r] + 1 \in Nat
  BY DEF TypeOK
<1>2. outbox' = [r \in DOMAIN outbox |-> IF r \in DOMAIN batch[s]
                                         THEN Attempted(outbox[r], batch[s][r] + 1) ELSE outbox[r]]
  BY DEF SweepCommit
<1>3. \A r \in DOMAIN batch[s] : /\ Attempted(outbox[r], batch[s][r] + 1) \in RowType
                                 /\ Attempted(outbox[r], batch[s][r] + 1).of = outbox[r].of
  BY <1>1, AttemptedRow
<1>4. \A r \in DOMAIN outbox : outbox'[r] \in RowType /\ outbox'[r].of = outbox[r].of
  BY <1>1, <1>2, <1>3
<1>5. outbox' \in [1 .. Len(outbox) -> RowType]
  BY <1>1, <1>2, <1>4
<1>6. outbox' \in Seq(RowType)
  BY <1>1, <1>5
<1> QED BY <1>1, <1>2, <1>4, <1>6

(* The passing of time changes no row but its nextAttemptAt. *)
LEMMA BackoffRows ==
    ASSUME outbox \in Seq(RowType), NEW r \in 1 .. MaxRows, BackoffOver(r)
    PROVE  /\ outbox' \in Seq(RowType)
           /\ DOMAIN outbox' = DOMAIN outbox
           /\ \A q \in DOMAIN outbox : /\ outbox'[q].of = outbox[q].of
                                       /\ outbox'[q].status = outbox[q].status
                                       /\ outbox'[q].attempts = outbox[q].attempts
<1>1. /\ DOMAIN outbox = 1 .. Len(outbox) /\ Len(outbox) \in Nat
      /\ \A q \in DOMAIN outbox : outbox[q] \in RowType
  OBVIOUS
<1>2. outbox' = [outbox EXCEPT ![r] = [outbox[r] EXCEPT !.next = "now"]] /\ r \in DOMAIN outbox
  BY DEF BackoffOver
<1>3. [outbox[r] EXCEPT !.next = "now"] \in RowType
  BY <1>1, <1>2 DEF RowType
<1>4. outbox' \in [1 .. Len(outbox) -> RowType]
  BY <1>1, <1>2, <1>3
<1>5. outbox' \in Seq(RowType)
  BY <1>1, <1>4
<1>6. \A q \in DOMAIN outbox : /\ outbox'[q].of = outbox[q].of
                               /\ outbox'[q].status = outbox[q].status
                               /\ outbox'[q].attempts = outbox[q].attempts
  BY <1>1, <1>2 DEF RowType
<1> QED BY <1>1, <1>4, <1>5, <1>6

-----------------------------------------------------------------------------
(* Types *)

LEMMA TypeInit == Init => TypeOK
BY IdleType DEF Init, TypeOK, NoBatch, TxType

LEMMA TypeNext == TypeOK /\ [Next]_vars => TypeOK'
<1> SUFFICES ASSUME TypeOK, [Next]_vars PROVE TypeOK'
  OBVIOUS
<1>0. /\ outbox \in Seq(RowType) /\ tx \in [Clients -> TxType]
      /\ \A r \in DOMAIN outbox : outbox[r] \in RowType
  BY DEF TypeOK
<1> DEFINE TxOK == /\ tx \in [Clients -> TxType]
                   /\ \A c \in Clients : /\ tx[c].op = "receive" => tx[c].of \in Webhooks
                                         /\ tx[c].op \in {"change", "enqueued"} => tx[c].of \in Changes
           Ready(t) == /\ t \in TxType
                       /\ t.op = "receive" => t.of \in Webhooks
                       /\ t.op \in {"change", "enqueued"} => t.of \in Changes
<1>a. TxOK
  BY DEF TypeOK
<1>t. ASSUME NEW c \in Clients, NEW t, Ready(t), tx' = [tx EXCEPT ![c] = t] PROVE TxOK'
  BY <1>a, <1>t
<1>e. ASSUME NEW c \in Clients, End(c) PROVE TxOK'
  <2>1. Ready(Idle)
    BY IdleType DEF TxType
  <2> HIDE DEF Ready, TxOK
  <2> QED BY <1>e, <1>t, <2>1 DEF End
<1>r. ASSUME TxOK', UNCHANGED <<received, committed, outbox, batch, aborts, done>> PROVE TypeOK'
  BY <1>r DEF TypeOK
<1>g. ASSUME NEW e \in Events, EnqueueOutboxEvent(e), TxOK', (received \subseteq Webhooks)',
             UNCHANGED <<committed, batch, aborts, done>>
      PROVE  TypeOK'
  <2>1. outbox' \in Seq(RowType) /\ DOMAIN outbox \subseteq DOMAIN outbox'
    <3>1. /\ outbox' \in Seq(RowType) /\ DOMAIN outbox = 1 .. Len(outbox) /\ Len(outbox) \in Nat
          /\ DOMAIN outbox' = 1 .. Len(outbox) + 1
      BY <1>0, <1>g, EnqueueAppends
    <3>2. \A n \in Nat : 1 .. n \subseteq 1 .. n + 1
      OBVIOUS
    <3> QED BY <3>1, <3>2
  <2> HIDE DEF TxOK
  <2>2. TxOK' /\ (received \subseteq Webhooks)' /\ UNCHANGED <<committed, batch, aborts, done>>
    BY <1>g
  <2> QED BY <2>1, <2>2 DEF TypeOK, TxOK
<1>1. ASSUME NEW c \in Clients, NEW w \in Webhooks, ReceiveCheck(c, w) PROVE TypeOK'
  <2>1. Ready([op |-> "receive", of |-> w])
    BY DEF TxType, Events
  <2> HIDE DEF Ready, TxOK
  <2> QED BY <1>1, <1>t, <1>r, <2>1 DEF ReceiveCheck
<1>2. ASSUME NEW c \in Clients, ReceiveCommit(c) PROVE TypeOK'
  <2>1. /\ EnqueueOutboxEvent(tx[c].of) /\ End(c) /\ received' = received \cup {tx[c].of}
        /\ UNCHANGED <<committed, batch, aborts, done>> /\ tx[c].op = "receive"
    BY <1>2 DEF ReceiveCommit
  <2>2. tx[c].of \in Webhooks /\ tx[c].of \in Events
    BY <1>a, <2>1 DEF Events
  <2>3. (received \subseteq Webhooks)'
    BY <2>1, <2>2 DEF TypeOK
  <2> HIDE DEF TxOK
  <2> QED BY <1>e, <1>g, <2>1, <2>2, <2>3
<1>3. ASSUME NEW c \in Clients, NEW x \in Changes, ChangeBegin(c, x) PROVE TypeOK'
  <2>1. Ready([op |-> "change", of |-> x])
    BY DEF TxType, Events
  <2> HIDE DEF Ready, TxOK
  <2> QED BY <1>3, <1>t, <1>r, <2>1 DEF ChangeBegin
<1>4. ASSUME NEW c \in Clients, Enqueue(c) PROVE TypeOK'
  <2> DEFINE t == [tx[c] EXCEPT !.op = "enqueued"]
  <2>1. /\ EnqueueOutboxEvent(tx[c].of) /\ tx[c].op = "change" /\ tx' = [tx EXCEPT ![c] = t]
        /\ UNCHANGED <<received, committed, batch, aborts, done>>
    BY <1>4 DEF Enqueue
  <2>2. tx[c].of \in Events /\ Ready(t)
    BY <1>a, <2>1 DEF TxType
  <2>3. (received \subseteq Webhooks)'
    BY <2>1 DEF TypeOK
  <2> HIDE DEF Ready, TxOK, t
  <2>4. TxOK'
    BY <1>t, <2>1, <2>2
  <2> QED BY <1>g, <2>1, <2>2, <2>3, <2>4
<1>5. ASSUME NEW c \in Clients, ChangeCommit(c) PROVE TypeOK'
  <2>1. (committed \subseteq Changes)' /\ End(c) /\ UNCHANGED <<received, outbox, batch, aborts, done>>
    BY <1>5 DEF ChangeCommit, TypeOK
  <2>2. TxOK'
    BY <1>e, <2>1
  <2> QED BY <2>1, <2>2 DEF TypeOK
<1>6. ASSUME NEW c \in Clients, Rollback(c) PROVE TypeOK'
  <2> HIDE DEF TxOK
  <2> QED BY <1>6, <1>e, <1>r DEF Rollback
<1> HIDE DEF TxOK, Ready
<1>7. ASSUME NEW s \in Sweepers, NEW g \in BOOLEAN, SweepBegin(s, g) PROVE TypeOK'
  <2> DEFINE R == Oldest(Pending(g))
             b == [r \in R |-> outbox[r].attempts]
  <2>1. R \subseteq DOMAIN outbox
    BY DEF Oldest, Pending
  <2>2. batch' = [batch EXCEPT ![s] = b] /\ UNCHANGED <<received, committed, outbox, tx, aborts, done>>
    BY <1>7 DEF SweepBegin
  <2> HIDE DEF R
  <2>3. DOMAIN b = R /\ \A r \in R : outbox[r].attempts \in Nat
    BY <1>0, <2>1 DEF RowType
  <2>4. DOMAIN b \subseteq DOMAIN outbox /\ b \in [DOMAIN b -> Nat]
    BY <2>1, <2>3
  <2> HIDE DEF b
  <2> QED BY <2>2, <2>4 DEF TypeOK
<1>8. ASSUME NEW s \in Sweepers, SweepCommit(s) PROVE TypeOK'
  <2>1. outbox' \in Seq(RowType) /\ DOMAIN outbox' = DOMAIN outbox
    BY <1>8, SweepRows
  <2>2. done' \subseteq DOMAIN outbox
    BY <1>8 DEF SweepCommit, TypeOK
  <2>3. batch' = [batch EXCEPT ![s] = NoBatch] /\ UNCHANGED <<received, committed, tx, aborts>>
    BY <1>8 DEF SweepCommit
  <2> QED BY <2>1, <2>2, <2>3 DEF TypeOK, NoBatch
<1>9. ASSUME NEW s \in Sweepers, SweepAbort(s) PROVE TypeOK'
  BY <1>9 DEF SweepAbort, TypeOK, NoBatch
<1>10. ASSUME NEW r \in 1 .. MaxRows, BackoffOver(r) PROVE TypeOK'
  <2>1. outbox' \in Seq(RowType) /\ DOMAIN outbox' = DOMAIN outbox
    BY <1>0, <1>10, BackoffRows
  <2> QED BY <1>10, <2>1 DEF BackoffOver, TypeOK
<1>11. CASE UNCHANGED vars
  BY <1>11 DEF vars, TypeOK
<1> QED BY <1>1, <1>2, <1>3, <1>4, <1>5, <1>6, <1>7, <1>8, <1>9, <1>10, <1>11 DEF Next, Handler, Dispatch

(* Every reachable state is well typed. *)
THEOREM TypeCorrect == Spec => []TypeOK
BY TypeInit, TypeNext, PTL DEF Spec

-----------------------------------------------------------------------------
(* The cap on attempts.  A sweep stores the attempts it read plus one, so  *)
(* what the open sweeps have read must be below the cap as well.           *)
CapInv ==
    /\ AttemptsCapped
    /\ \A s \in Sweepers : \A r \in DOMAIN batch[s] : batch[s][r] < MaxAttempts

LEMMA CapNext == TypeOK /\ TypeOK' /\ CapInv /\ [Next]_vars => CapInv'
<1> SUFFICES ASSUME TypeOK, TypeOK', CapInv, [Next]_vars PROVE CapInv'
  OBVIOUS
<1>0. /\ outbox \in Seq(RowType) /\ DOMAIN batch = Sweepers /\ MaxAttempts \in Nat \ {0}
      /\ \A r \in DOMAIN outbox : outbox[r] \in RowType
  BY OutboxAssumption DEF TypeOK
<1>u. ASSUME UNCHANGED <<outbox, batch>> PROVE CapInv'
  BY <1>u DEF CapInv, AttemptsCapped
<1>g. ASSUME NEW e \in Events, EnqueueOutboxEvent(e), UNCHANGED batch PROVE CapInv'
  <2>0. /\ \A r \in DOMAIN outbox : outbox'[r] = outbox[r]
        /\ \A r \in DOMAIN outbox' : r \in DOMAIN outbox \/ r = Len(outbox) + 1
        /\ outbox'[Len(outbox) + 1] = [of |-> e, status |-> "pending", attempts |-> 0, next |-> "now"]
    BY <1>0, <1>g, EnqueueAppends
  <2>1. /\ \A r \in DOMAIN outbox : outbox'[r] = outbox[r]
        /\ \A r \in DOMAIN outbox' : r \notin DOMAIN outbox => outbox'[r].status = "pending" /\ outbox'[r].attempts = 0
    BY <2>0
  <2> QED BY <1>0, <1>g, <2>1 DEF CapInv, AttemptsCapped
<1>1. ASSUME NEW c \in Clients, Handler(c) PROVE CapInv'
  <2>1. CASE ReceiveCommit(c)
    BY <1>g, <2>1 DEF ReceiveCommit, TypeOK, TxType
  <2>2. CASE Enqueue(c)
    BY <1>g, <2>2 DEF Enqueue, TypeOK, TxType
  <2>3. CASE ~ReceiveCommit(c) /\ ~Enqueue(c)
    BY <1>1, <1>u, <2>3 DEF Handler, ReceiveCheck, ChangeBegin, ChangeCommit, Rollback
  <2> QED BY <2>1, <2>2, <2>3
<1>2. ASSUME NEW s \in Sweepers, NEW g \in BOOLEAN, SweepBegin(s, g) PROVE CapInv'
  <2> DEFINE R == Oldest(Pending(g))
             b == [r \in R |-> outbox[r].attempts]
  <2>1. \A r \in R : r \in DOMAIN outbox /\ outbox[r].status = "pending"
    BY DEF Oldest, Pending
  <2>2. batch' = [batch EXCEPT ![s] = b] /\ UNCHANGED outbox
    BY <1>2 DEF SweepBegin
  <2> HIDE DEF R
  <2>3. \A r \in DOMAIN b : b[r] < MaxAttempts
    BY <2>1 DEF CapInv, AttemptsCapped
  <2> HIDE DEF b
  <2> QED BY <1>0, <2>2, <2>3 DEF CapInv, AttemptsCapped
<1>3. ASSUME NEW s \in Sweepers, SweepCommit(s) PROVE CapInv'
  <2>1. \A r \in DOMAIN outbox : \/ outbox'[r] = outbox[r]
                                 \/ /\ r \in DOMAIN batch[s] /\ batch[s][r] \in Nat
                                    /\ outbox'[r] = Attempted(outbox[r], batch[s][r] + 1)
    BY <1>3, SweepRows
  <2>2. \A r \in DOMAIN batch[s] : batch[s][r] < MaxAttempts
    BY DEF CapInv
  <2>3. ASSUME NEW r \in DOMAIN outbox
        PROVE  /\ outbox'[r].attempts <= MaxAttempts
               /\ outbox'[r].status = "pending" => outbox'[r].attempts < MaxAttempts
               /\ outbox'[r].status = "failed" => outbox'[r].attempts = MaxAttempts
    <3>1. CASE outbox'[r] = outbox[r]
      BY <3>1 DEF CapInv, AttemptsCapped
    <3>2. CASE /\ r \in DOMAIN batch[s] /\ batch[s][r] \in Nat
               /\ outbox'[r] = Attempted(outbox[r], batch[s][r] + 1)
      <4> DEFINE a == batch[s][r] + 1
      <4>1. a \in Nat /\ a <= MaxAttempts /\ outbox[r] \in RowType /\ outbox'[r] = Attempted(outbox[r], a)
        BY <1>0, <2>2, <3>2
      <4> HIDE DEF a
      <4>2. /\ outbox'[r].attempts = a
            /\ outbox'[r].status = "pending" => a < MaxAttempts
            /\ outbox'[r].status = "failed" => a >= MaxAttempts
        BY <4>1, AttemptedRow
      <4> QED BY <1>0, <4>1, <4>2
    <3> QED BY <2>1, <3>1, <3>2
  <2>4. DOMAIN outbox' = DOMAIN outbox /\ batch' = [batch EXCEPT ![s] = NoBatch]
    BY <1>3, SweepRows DEF SweepCommit
  <2>5. AttemptsCapped'
    BY <2>3, <2>4 DEF AttemptsCapped
  <2> QED BY <1>0, <2>4, <2>5 DEF CapInv, NoBatch
<1>4. ASSUME NEW s \in Sweepers, SweepAbort(s) PROVE CapInv'
  BY <1>0, <1>4 DEF SweepAbort, CapInv, AttemptsCapped, NoBatch
<1>5. ASSUME NEW r \in 1 .. MaxRows, BackoffOver(r) PROVE CapInv'
  <2>1. UNCHANGED batch
    BY <1>5 DEF BackoffOver
  <2> QED BY <1>0, <1>5, <2>1, BackoffRows DEF CapInv, AttemptsCapped
<1>6. CASE UNCHANGED vars
  BY <1>6, <1>u DEF vars
<1> QED BY <1>1, <1>2, <1>3, <1>4, <1>5, <1>6 DEF Next, Dispatch

(* No row is attempted more often than maxAttempts says and it is given up *)
(* exactly there, however many sweeps overlap.                             *)
THEOREM Capped == Spec => []AttemptsCapped
<1>1. Init => CapInv
  BY OutboxAssumption DEF Init, CapInv, AttemptsCapped, NoBatch
<1>2. CapInv => AttemptsCapped
  BY DEF CapInv
<1> QED BY <1>1, <1>2, CapNext, TypeCorrect, PTL DEF Spec

-----------------------------------------------------------------------------
(* Rows and what caused them *)

(* A step that keeps the rows and their events keeps RowsOf. *)
LEMMA SameRows ==
    ASSUME DOMAIN outbox' = DOMAIN outbox, \A r \in DOMAIN outbox : outbox'[r].of = outbox[r].of
    PROVE  \A e : RowsOf(e)' = RowsOf(e)
BY DEF RowsOf

(* Enqueueing for e adds one row to those of e. *)
LEMMA EnqueueRows ==
    ASSUME NEW e \in Events, outbox \in Seq(RowType), EnqueueOutboxEvent(e)
    PROVE  /\ RowsOf(e)' = RowsOf(e) \cup {Len(outbox) + 1}
           /\ \A f : f # e => RowsOf(f)' = RowsOf(f)
           /\ Len(outbox) + 1 \notin DOMAIN outbox
<1>1. /\ DOMAIN outbox = 1 .. Len(outbox) /\ Len(outbox) \in Nat
      /\ DOMAIN outbox' = 1 .. Len(outbox) + 1
      /\ \A r \in DOMAIN outbox' : r \in DOMAIN outbox \/ r = Len(outbox) + 1
      /\ \A r \in DOMAIN outbox : outbox'[r] = outbox[r]
      /\ outbox'[Len(outbox) + 1] = [of |-> e, status |-> "pending", attempts |-> 0, next |-> "now"]
  BY EnqueueAppends
<1>2. /\ outbox'[Len(outbox) + 1].of = e /\ Len(outbox) + 1 \in DOMAIN outbox'
      /\ Len(outbox) + 1 \notin DOMAIN outbox /\ DOMAIN outbox \subseteq DOMAIN outbox'
  BY <1>1
<1> QED BY <1>1, <1>2 DEF RowsOf

(* What a step does to received, committed and the rows: receive adds an   *)
(* event with its row, enqueue a row, a change commits, or none of them.   *)
LEMMA StepKinds ==
    ASSUME TypeOK, [Next]_vars
    PROVE  \/ \E c \in Clients : \E w \in Webhooks : ReceiveCommit(c) /\ tx[c].of = w /\ w \in Events
           \/ \E c \in Clients : \E x \in Changes : Enqueue(c) /\ tx[c].of = x /\ x \in Events
           \/ \E c \in Clients : ChangeCommit(c)
           \/ \E s \in Sweepers : SweepCommit(s) /\ \A e : RowsOf(e)' = RowsOf(e)
           \/ /\ UNCHANGED <<received, committed, done>> /\ \A e : RowsOf(e)' = RowsOf(e)
              /\ \A c \in Clients : tx'[c].op = "enqueued" => tx[c] = tx'[c]
<1>0. outbox \in Seq(RowType) /\ tx \in [Clients -> TxType]
  BY DEF TypeOK
<1>u. ASSUME UNCHANGED outbox PROVE \A e : RowsOf(e)' = RowsOf(e)
  BY <1>u DEF RowsOf
<1>1. ASSUME NEW c \in Clients, Handler(c), ~ReceiveCommit(c), ~Enqueue(c), ~ChangeCommit(c)
      PROVE  /\ UNCHANGED <<received, committed, done, outbox>>
             /\ \A b \in Clients : tx'[b].op = "enqueued" => tx[b] = tx'[b]
  BY <1>0, <1>1, IdleType DEF Handler, ReceiveCheck, ChangeBegin, Rollback, End
<1>2. ASSUME NEW s \in Sweepers, SweepCommit(s) PROVE \A e : RowsOf(e)' = RowsOf(e)
  BY <1>2, SweepRows, SameRows
<1>3. ASSUME NEW r \in 1 .. MaxRows, BackoffOver(r)
      PROVE  UNCHANGED <<received, committed, done, tx>> /\ \A e : RowsOf(e)' = RowsOf(e)
  BY <1>0, <1>3, BackoffRows, SameRows DEF BackoffOver
<1>4. ASSUME NEW s \in Sweepers, Dispatch(s), ~SweepCommit(s)
      PROVE  UNCHANGED <<received, committed, done, tx, outbox>>
  BY <1>4 DEF Dispatch, SweepBegin, SweepAbort
<1>5. ASSUME NEW c \in Clients, ReceiveCommit(c) PROVE tx[c].of \in Webhooks /\ tx[c].of \in Events
  BY <1>5 DEF ReceiveCommit, TypeOK, Events
<1>6. ASSUME NEW c \in Clients, Enqueue(c) PROVE tx[c].of \in Changes /\ tx[c].of \in Events
  BY <1>6 DEF Enqueue, TypeOK, Events
<1>7. CASE \E c \in Clients : Handler(c)
  BY <1>1, <1>5, <1>6, <1>7, <1>u
<1>8. CASE \E s \in Sweepers : Dispatch(s)
  BY <1>2, <1>4, <1>8, <1>u
<1>9. CASE \E r \in 1 .. MaxRows : BackoffOver(r)
  BY <1>3, <1>9
<1>10. CASE UNCHANGED vars
  BY <1>10, <1>u DEF vars
<1> QED BY <1>7, <1>8, <1>9, <1>10 DEF Next

LEMMA OneRowNext == TypeOK /\ TypeOK' /\ OneRowPerWebhook /\ [Next]_vars => OneRowPerWebhook'
<1> SUFFICES ASSUME TypeOK, TypeOK', OneRowPerWebhook, [Next]_vars PROVE OneRowPerWebhook'
  OBVIOUS
<1> DEFINE One(w) == /\ w \in received => \E r : RowsOf(w) = {r}
                     /\ w \notin received => RowsOf(w) = {}
<1>0. /\ outbox \in Seq(RowType) /\ \A w \in Webhooks : One(w)
      /\ Webhooks \cap Changes = {}
  BY OutboxAssumption DEF TypeOK, OneRowPerWebhook
<1>a. ASSUME \A w \in Webhooks : One(w)' PROVE OneRowPerWebhook'
  <2>1. \A w, r : (RowsOf(w) = {r})' => (r \in DOMAIN outbox)'
    BY DEF RowsOf
  <2> QED BY <1>a, <2>1 DEF OneRowPerWebhook
<1>u. ASSUME UNCHANGED received, \A e : RowsOf(e)' = RowsOf(e) PROVE \A w \in Webhooks : One(w)'
  BY <1>0, <1>u
<1>1. ASSUME NEW c \in Clients, NEW w0 \in Webhooks, ReceiveCommit(c), tx[c].of = w0, w0 \in Events
      PROVE  \A w \in Webhooks : One(w)'
  <2>1. w0 \notin received /\ received' = received \cup {w0} /\ EnqueueOutboxEvent(w0)
    BY <1>1 DEF ReceiveCommit, NewEvent
  <2>2. w0 \in Webhooks /\ w0 \in Events
    BY <1>1
  <2>3. RowsOf(w0)' = RowsOf(w0) \cup {Len(outbox) + 1} /\ \A f : f # w0 => RowsOf(f)' = RowsOf(f)
    BY <1>0, <2>1, <2>2, EnqueueRows
  <2>4. RowsOf(w0)' = {Len(outbox) + 1}
    BY <1>0, <2>1, <2>2, <2>3
  <2> QED BY <1>0, <2>1, <2>3, <2>4
<1>2. ASSUME NEW c \in Clients, NEW x \in Changes, Enqueue(c), tx[c].of = x, x \in Events
      PROVE  \A w \in Webhooks : One(w)'
  <2>1. EnqueueOutboxEvent(x) /\ UNCHANGED received
    BY <1>2 DEF Enqueue
  <2>2. \A w \in Webhooks : RowsOf(w)' = RowsOf(w)
    BY <1>0, <1>2, <2>1, EnqueueRows
  <2> QED BY <1>0, <2>1, <2>2
<1>3. ASSUME NEW c \in Clients, ChangeCommit(c) PROVE \A w \in Webhooks : One(w)'
  BY <1>0, <1>3 DEF ChangeCommit, RowsOf
<1>4. ASSUME NEW s \in Sweepers, SweepCommit(s), \A e : RowsOf(e)' = RowsOf(e) PROVE \A w \in Webhooks : One(w)'
  BY <1>4, <1>u DEF SweepCommit
<1> HIDE DEF One
<1> QED BY <1>a, <1>u, <1>1, <1>2, <1>3, <1>4, StepKinds

(* However deliveries of one webhook race, it is accepted once and has     *)
(* exactly one row in the outbox.                                          *)
THEOREM OneRowEach == Spec => []OneRowPerWebhook
<1>1. Init => OneRowPerWebhook
  BY DEF Init, OneRowPerWebhook, RowsOf
<1> QED BY <1>1, OneRowNext, TypeCorrect, PTL DEF Spec

-----------------------------------------------------------------------------
(* A change may commit once it is enqueued, so the open handlers that have *)
(* enqueued are part of the invariant.                                     *)
AnnounceInv ==
    /\ CommittedIsAnnounced
    /\ \A c \in Clients : tx[c].op = "enqueued" => RowsOf(tx[c].of) # {}

LEMMA AnnounceNext == TypeOK /\ TypeOK' /\ AnnounceInv /\ [Next]_vars => AnnounceInv'
<1> SUFFICES ASSUME TypeOK, TypeOK', AnnounceInv, [Next]_vars PROVE AnnounceInv'
  OBVIOUS
<1>0. outbox \in Seq(RowType) /\ tx \in [Clients -> TxType]
  BY DEF TypeOK
<1>g. ASSUME NEW e \in Events, EnqueueOutboxEvent(e) PROVE RowsOf(e)' # {} /\ \A f : RowsOf(f) # {} => RowsOf(f)' # {}
  BY <1>0, <1>g, EnqueueRows
<1>1. ASSUME NEW c \in Clients, NEW w \in Events, ReceiveCommit(c), tx[c].of = w PROVE AnnounceInv'
  <2>1. /\ \A f : RowsOf(f) # {} => RowsOf(f)' # {}
        /\ UNCHANGED committed /\ tx' = [tx EXCEPT ![c] = Idle]
    BY <1>1, <1>g DEF ReceiveCommit, End
  <2> QED BY <1>0, <2>1, IdleType DEF AnnounceInv, CommittedIsAnnounced
<1>2. ASSUME NEW c \in Clients, NEW x \in Events, Enqueue(c), tx[c].of = x PROVE AnnounceInv'
  <2>1. /\ RowsOf(x)' # {} /\ \A f : RowsOf(f) # {} => RowsOf(f)' # {}
        /\ UNCHANGED committed /\ tx' = [tx EXCEPT ![c].op = "enqueued"]
    BY <1>2, <1>g DEF Enqueue
  <2>2. \A b \in Clients : tx'[b].of = tx[b].of /\ (b # c => tx'[b] = tx[b])
    BY <1>0, <2>1 DEF TxType
  <2> QED BY <1>2, <2>1, <2>2 DEF AnnounceInv, CommittedIsAnnounced
<1>3. ASSUME NEW c \in Clients, ChangeCommit(c) PROVE AnnounceInv'
  <2>1. /\ tx[c].op = "enqueued" /\ committed' = committed \cup {tx[c].of}
        /\ tx' = [tx EXCEPT ![c] = Idle] /\ \A e : RowsOf(e)' = RowsOf(e)
    BY <1>3 DEF ChangeCommit, End, RowsOf
  <2> QED BY <1>0, <2>1, IdleType DEF AnnounceInv, CommittedIsAnnounced
<1>4. ASSUME NEW s \in Sweepers, SweepCommit(s), \A e : RowsOf(e)' = RowsOf(e) PROVE AnnounceInv'
  BY <1>4 DEF SweepCommit, AnnounceInv, CommittedIsAnnounced
<1>5. ASSUME UNCHANGED committed, \A e : RowsOf(e)' = RowsOf(e),
             \A c \in Clients : tx'[c].op = "enqueued" => tx[c] = tx'[c]
      PROVE  AnnounceInv'
  BY <1>5 DEF AnnounceInv, CommittedIsAnnounced
<1> QED BY <1>1, <1>2, <1>3, <1>4, <1>5, StepKinds

(* A change that X.Office commits is never lost to the outbox, although    *)
(* the two are written to different databases.                             *)
THEOREM Announced == Spec => []CommittedIsAnnounced
<1>1. Init => AnnounceInv
  BY IdleType DEF Init, AnnounceInv, CommittedIsAnnounced
<1>2. AnnounceInv => CommittedIsAnnounced
  BY DEF AnnounceInv
<1> QED BY <1>1, <1>2, AnnounceNext, TypeCorrect, PTL DEF Spec

-----------------------------------------------------------------------------
(* Every step is a step of EventDelivery or leaves its state alone. *)
LEMMA DeliveryStep == TypeOK /\ TypeOK' /\ OneRowPerWebhook /\ [Next]_vars => [Delivery!Next]_(Delivery!vars)
<1> SUFFICES ASSUME TypeOK, TypeOK', OneRowPerWebhook, [Next]_vars PROVE [Delivery!Next]_(Delivery!vars)
  OBVIOUS
<1>0. /\ outbox \in Seq(RowType) /\ received \subseteq Webhooks /\ done \subseteq DOMAIN outbox
      /\ Webhooks \cap Changes = {}
  BY OutboxAssumption DEF TypeOK
<1>u. ASSUME UNCHANGED <<received, done>>, \A w \in received : RowsOf(w)' = RowsOf(w)
      PROVE  UNCHANGED Delivery!vars
  BY <1>u DEF Delivery!vars, SettledWebhooks
<1>1. ASSUME NEW c \in Clients, NEW w0 \in Webhooks, ReceiveCommit(c), tx[c].of = w0, w0 \in Events
      PROVE  Delivery!Next
  <2>1. w0 \notin received /\ received' = received \cup {w0} /\ EnqueueOutboxEvent(w0) /\ UNCHANGED done
    BY <1>1 DEF ReceiveCommit, NewEvent
  <2>2. w0 \in Webhooks /\ w0 \in Events
    BY <1>1
  <2>3. /\ RowsOf(w0)' = RowsOf(w0) \cup {Len(outbox) + 1} /\ \A f : f # w0 => RowsOf(f)' = RowsOf(f)
        /\ Len(outbox) + 1 \notin done
    BY <1>0, <2>1, <2>2, EnqueueRows
  <2>4. RowsOf(w0)' \cap done' = {}
    BY <2>1, <2>2, <2>3 DEF OneRowPerWebhook
  <2>5. UNCHANGED SettledWebhooks
    BY <2>1, <2>3, <2>4 DEF SettledWebhooks
  <2>6. Delivery!Accept(w0)
    BY <2>1, <2>5 DEF Delivery!Accept
  <2> QED BY <2>2, <2>6 DEF Delivery!Next
<1>2. ASSUME NEW c \in Clients, NEW x \in Changes, Enqueue(c), tx[c].of = x, x \in Events
      PROVE  UNCHANGED Delivery!vars
  <2>1. EnqueueOutboxEvent(x) /\ UNCHANGED <<received, done>>
    BY <1>2 DEF Enqueue
  <2>2. \A w \in received : RowsOf(w)' = RowsOf(w)
    BY <1>0, <1>2, <2>1, EnqueueRows
  <2> QED BY <1>u, <2>1, <2>2
<1>3. ASSUME NEW c \in Clients, ChangeCommit(c) PROVE UNCHANGED Delivery!vars
  BY <1>3, <1>u DEF ChangeCommit, RowsOf
<1>4. ASSUME NEW s \in Sweepers, SweepCommit(s), \A e : RowsOf(e)' = RowsOf(e)
      PROVE  [Delivery!Next]_(Delivery!vars)
  <2> DEFINE S == SettledWebhooks' \ SettledWebhooks
  <2>1. UNCHANGED received /\ done \subseteq done'
    BY <1>4 DEF SweepCommit
  <2>2. /\ SettledWebhooks \subseteq SettledWebhooks' /\ SettledWebhooks' \subseteq received
    BY <1>4, <2>1 DEF SettledWebhooks
  <2>3. S \subseteq received \ SettledWebhooks /\ SettledWebhooks' = SettledWebhooks \cup S /\ S \in SUBSET Webhooks
    BY <1>0, <2>2
  <2>4. CASE S = {}
    BY <2>1, <2>3, <2>4 DEF Delivery!vars
  <2>5. CASE S # {}
    <3> HIDE DEF S
    <3>1. Delivery!Settle(S)
      BY <2>1, <2>3, <2>5 DEF Delivery!Settle
    <3> QED BY <2>3, <3>1 DEF Delivery!Next
  <2> QED BY <2>4, <2>5
<1>5. ASSUME UNCHANGED <<received, done>>, \A e : RowsOf(e)' = RowsOf(e) PROVE UNCHANGED Delivery!vars
  BY <1>5, <1>u
<1> QED BY <1>1, <1>2, <1>3, <1>4, <1>5, StepKinds

(* The outbox implements the safety part of EventDelivery: no webhook is   *)
(* settled that was not accepted, none is settled twice or un-accepted.    *)
THEOREM ImplementsDelivery == Spec => Delivery!Init /\ [][Delivery!Next]_(Delivery!vars)
<1>1. Init => Delivery!Init
  BY DEF Init, Delivery!Init, SettledWebhooks
<1> QED BY <1>1, DeliveryStep, TypeCorrect, OneRowEach, PTL DEF Spec
=============================================================================
