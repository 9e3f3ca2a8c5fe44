-------------------------------- MODULE Leave --------------------------------
(***************************************************************************)
(* Leave requests of one person under one policy and the append-only       *)
(* balance ledger they are charged to (people/leave.service.ts,            *)
(* leave-balance.service.ts).                                              *)
(*                                                                         *)
(* A handler is one READ COMMITTED transaction tx[c].  It loads a request  *)
(* and tests it, writes it (which locks the row), reads the latest ledger  *)
(* row and appends the next one.  The tenant is its own system of record   *)
(* (leaveMode = XOFFICE) and the caller is authorised.                     *)
(***************************************************************************)
EXTENDS Integers, Sequences, FiniteSets

CONSTANTS
    Clients,        \* requests in flight at the same time
    Ids,            \* leave request rows
    Keys,           \* idempotency keys
    Windows,        \* [from, to, startDayPart, endDayPart], from and to in days
    Opening,        \* opening balance, in half days
    MaxLedger,      \* bound: ledger rows
    CheckBalance    \* the policy is neither UNPAID nor allows a negative balance

DayParts == {"FULL", "AM", "PM"}

ASSUME LeaveAssumption ==
    /\ Windows # {}
    /\ Windows \subseteq [from : Nat, to : Nat, startDayPart : DayParts, endDayPart : DayParts]
    /\ Keys # {}
    /\ Opening \in Nat /\ MaxLedger \in Nat /\ CheckBalance \in BOOLEAN

VARIABLES
    status,     \* LeaveRequest.status, "NONE" when there is no row
    window,     \* its dates
    key,        \* its idempotencyKey
    task,       \* its ApprovalTask
    ledger,     \* LeaveBalanceSnapshot rows in order of their sequence
    tx          \* open transactions

vars == <<status, window, key, task, ledger, tx>>

-----------------------------------------------------------------------------
(* people.helpers.ts, people.constants.ts *)

(* computeLeaveDuration for DAY policies, in half days. *)
Duration(w) ==
    LET days == w.to - w.from + 1
        halves == 2 * days
                    - (IF w.startDayPart # "FULL" THEN 1 ELSE 0)
                    - (IF w.endDayPart # "FULL" /\ (w.to # w.from \/ w.startDayPart = "FULL") THEN 1 ELSE 0)
    IN  IF halves < 1 THEN 1 ELSE halves

LEAVE_TRANSITIONS ==
    [ NONE              |-> {},
      DRAFT             |-> {"SUBMITTED", "CANCELLED"},
      SUBMITTED         |-> {"IN_REVIEW", "APPROVED", "REJECTED", "CHANGES_REQUESTED", "CANCELLED"},
      IN_REVIEW         |-> {"APPROVED", "REJECTED", "CHANGES_REQUESTED", "CANCELLED"},
      CHANGES_REQUESTED |-> {"SUBMITTED", "CANCELLED"},
      APPROVED          |-> {"CANCEL_REQUESTED"},
      CANCEL_REQUESTED  |-> {"CANCELLED", "APPROVED"},
      REJECTED          |-> {},
      CANCELLED         |-> {} ]

Statuses == DOMAIN LEAVE_TRANSITIONS
Closed == {"NONE", "REJECTED", "CANCELLED"}

-----------------------------------------------------------------------------
(* The ledger *)

Latest == ledger[Len(ledger)]
Available(row) == Opening - row.used - row.pending

(* What each decision moves between pending and used. *)
Deltas(op, to, d) ==
    CASE op = "create"  -> [pending |-> d, used |-> 0]
      [] op = "approve" -> [pending |-> -d, used |-> d]
      [] op = "reject"  -> [pending |-> -d, used |-> 0]
      [] op = "cancel" /\ to = "CANCELLED" -> [pending |-> -d, used |-> 0]
      [] op = "cancelApprove" -> [pending |-> 0, used |-> -d]
      [] OTHER -> [pending |-> 0, used |-> 0]

(* Mutant: a rejected request is not refunded. *)
AppendsForgetsReject(op, to) ==
    \/ op \in {"create", "approve", "cancelApprove"}
    \/ op = "cancel" /\ to = "CANCELLED"

Appends(op, to) ==
    \/ op \in {"create", "approve", "reject", "cancelApprove"}
    \/ op = "cancel" /\ to = "CANCELLED"

(* Mutant: the row before the latest one is taken for the latest. *)
AppendRowStale(id, delta, seen) ==
    /\ seen = Len(ledger)
    /\ LET before == ledger[IF seen > 1 THEN seen - 1 ELSE 1] IN
       ledger' = Append(ledger, [req |-> id, delta |-> delta,
                                 pending |-> before.pending + delta.pending,
                                 used |-> before.used + delta.used])

(* append: the next row is computed from the row that was read, at         *)
(* sequence seen, and takes sequence seen + 1 under a unique index.        *)
AppendRow(id, delta, seen) ==
    /\ seen = Len(ledger)
    /\ ledger' = Append(ledger, [req |-> id, delta |-> delta,
                                 pending |-> ledger[seen].pending + delta.pending,
                                 used |-> ledger[seen].used + delta.used])

-----------------------------------------------------------------------------
(* Handlers *)

Ops == {"approve", "reject", "requestChanges", "resubmit", "cancel", "cancelApprove"}

(* Where each handler takes a request it loaded in status s. *)
Target(op, s) ==
    CASE op = "approve" -> "APPROVED"
      [] op = "reject" -> "REJECTED"
      [] op = "requestChanges" -> "CHANGES_REQUESTED"
      [] op = "resubmit" -> "SUBMITTED"
      [] op = "cancel" -> IF s = "APPROVED" THEN "CANCEL_REQUESTED" ELSE "CANCELLED"
      [] op = "cancelApprove" -> "CANCELLED"

Idle == [op |-> "idle", stage |-> "none", id |-> CHOOSE i \in Ids : TRUE,
         win |-> CHOOSE w \in Windows : TRUE, key |-> CHOOSE k \in Keys : TRUE, to |-> "NONE", seen |-> 0]

Rows == {i \in Ids : status[i] # "NONE"}
Overlaps(v, w) == v.from <= w.to /\ w.from <= v.to

(* Mutant: the key of a closed request may be used again. *)
KeyStoredOpen(k) == \E i \in Rows : key[i] = k /\ status[i] \notin Closed

KeyStored(k) == \E i \in Rows : key[i] = k
End(c) == tx' = [tx EXCEPT ![c] = Idle]

(* Mutants: a request that waits for changes is not looked at; any         *)
(* positive balance is enough.                                             *)
NoOverlapWithForgetsChanges(w) ==
    \A j \in Ids : status[j] \notin Closed \cup {"CHANGES_REQUESTED"} => ~Overlaps(window[j], w)
EnoughBalanceAnyPositive(w) == CheckBalance => Available(Latest) > 0

NoOverlapWith(w) == \A j \in Ids : status[j] \notin Closed => ~Overlaps(window[j], w)
EnoughBalance(w) == CheckBalance => Available(Latest) >= Duration(w)
UniqueKey(k) == ~KeyStored(k)

(* create, up to its INSERT: a stored key is answered with its row; no     *)
(* overlap with an open or approved request, and enough balance.           *)
CreateCheck(c, i, w, k) ==
    /\ tx[c] = Idle
    /\ status[i] = "NONE" /\ \A b \in Clients : tx[b].op = "create" => tx[b].id # i
    /\ ~KeyStored(k)
    /\ NoOverlapWith(w)
    /\ w.from <= w.to
    /\ EnoughBalance(w)
    /\ tx' = [tx EXCEPT ![c] = [Idle EXCEPT !.op = "create", !.stage = "checked", !.id = i,
                                            !.win = w, !.key = k, !.to = "SUBMITTED"]]
    /\ UNCHANGED <<status, window, key, task, ledger>>

(* approve, reject, requestChanges, resubmit, cancel, cancelApprove: the   *)
(* request is loaded and the transition tested.                            *)
Load(c, i, op) ==
    /\ tx[c] = Idle
    /\ i \in Rows
    /\ op = "cancel" => status[i] \in {"DRAFT", "SUBMITTED", "IN_REVIEW", "CHANGES_REQUESTED", "APPROVED"}
    /\ Target(op, status[i]) \in LEAVE_TRANSITIONS[status[i]]
    /\ tx' = [tx EXCEPT ![c] = [Idle EXCEPT !.op = op, !.stage = "checked", !.id = i, !.win = window[i],
                                            !.key = key[i], !.to = Target(op, status[i])]]
    /\ UNCHANGED <<status, window, key, task, ledger>>

(* The request is written, which waits for another handler that wrote it   *)
(* and has not committed, and then the latest ledger row is read.          *)
ReadLatest(c) ==
    /\ tx[c].stage = "checked"
    /\ Appends(tx[c].op, tx[c].to)
    /\ Len(ledger) < MaxLedger
    /\ \A b \in Clients : ~(tx[b].stage = "appending" /\ tx[b].id = tx[c].id)
    /\ tx' = [tx EXCEPT ![c].stage = "appending", ![c].seen = Len(ledger)]
    /\ UNCHANGED <<status, window, key, task, ledger>>

CreateCommit(c) ==
    LET t == tx[c] IN
    /\ t.op = "create" /\ t.stage = "appending"
    /\ UniqueKey(t.key)
    /\ AppendRow(t.id, Deltas(t.op, t.to, Duration(t.win)), t.seen)
    /\ status' = [status EXCEPT ![t.id] = "SUBMITTED"]
    /\ window' = [window EXCEPT ![t.id] = t.win]
    /\ key' = [key EXCEPT ![t.id] = t.key]
    /\ task' = [task EXCEPT ![t.id] = "open"]
    /\ End(c)

(* Mutant: the task is not closed. *)
TaskAfterLeftOpen(op, old) == old

(* closeApprovalTask is called by approve and reject only. *)
TaskAfter(op, old) ==
    CASE op = "approve" -> "approved"
      [] op = "reject" -> "rejected"
      [] OTHER -> old

(* Handlers that append: UPDATE by id overwrites whatever status is there  *)
(* by now.                                                                 *)
DecideCommit(c) ==
    LET t == tx[c] IN
    /\ t.op \in Ops /\ t.stage = "appending"
    /\ AppendRow(t.id, Deltas(t.op, t.to, Duration(t.win)), t.seen)
    /\ status' = [status EXCEPT ![t.id] = t.to]
    /\ task' = [task EXCEPT ![t.id] = TaskAfter(t.op, @)]
    /\ End(c)
    /\ UNCHANGED <<window, key>>

(* requestChanges, resubmit, and the cancel of an approved request. *)
PlainCommit(c) ==
    LET t == tx[c] IN
    /\ t.op \in Ops /\ t.stage = "checked"
    /\ ~Appends(t.op, t.to)
    /\ \A b \in Clients : ~(tx[b].stage = "appending" /\ tx[b].id = t.id)
    /\ status' = [status EXCEPT ![t.id] = t.to]
    /\ End(c)
    /\ UNCHANGED <<window, key, task, ledger>>

(* A unique index, an error, the time limit of the transaction. *)
Rollback(c) ==
    /\ tx[c] # Idle
    /\ End(c)
    /\ UNCHANGED <<status, window, key, task, ledger>>

-----------------------------------------------------------------------------
(* The seeded ledger row is there, no request yet. *)
Init ==
    /\ status = [i \in Ids |-> "NONE"]
    /\ window = [i \in Ids |-> CHOOSE w \in Windows : TRUE]
    /\ key = [i \in Ids |-> CHOOSE k \in Keys : TRUE]
    /\ task = [i \in Ids |-> "none"]
    /\ \E i \in Ids : ledger = <<[req |-> i, delta |-> [pending |-> 0, used |-> 0], pending |-> 0, used |-> 0]>>
    /\ tx = [c \in Clients |-> Idle]

Next ==
    \E c \in Clients :
        \/ \E i \in Ids, w \in Windows, k \in Keys : CreateCheck(c, i, w, k)
        \/ \E i \in Ids, op \in Ops : Load(c, i, op)
        \/ ReadLatest(c)
        \/ CreateCommit(c)
        \/ DecideCommit(c)
        \/ PlainCommit(c)
        \/ Rollback(c)

Spec == Init /\ [][Next]_vars

-----------------------------------------------------------------------------
DeltaType == [pending : Int, used : Int]
RowType == [req : Ids, delta : DeltaType, pending : Int, used : Int]
TxType == [op : {"idle", "create"} \cup Ops, stage : {"none", "checked", "appending"}, id : Ids,
           win : Windows, key : Keys, to : Statuses, seen : Nat]

(* Rows and open transactions have the shapes of the schema. *)
TypeOK ==
    /\ status \in [Ids -> Statuses]
    /\ window \in [Ids -> Windows]
    /\ key \in [Ids -> Keys]
    /\ task \in [Ids -> {"none", "open", "approved", "rejected"}]
    /\ ledger \in Seq(RowType)
    /\ tx \in [Clients -> TxType]

(* One idempotency key makes at most one request, however creates race. *)
OneRequestPerKey == \A i, j \in Rows : key[i] = key[j] => i = j

(* No charge or refund is lost: every ledger row carries on from the row   *)
(* before it, although handlers compute it from a row they read earlier.   *)
NoLostCharge ==
    \A n \in 2 .. Len(ledger) :
        /\ ledger[n].pending = ledger[n - 1].pending + ledger[n].delta.pending
        /\ ledger[n].used = ledger[n - 1].used + ledger[n].delta.used

(* The half days, one by one, that the requests in statuses S take. *)
HalfDaysOf(i, w) == {i} \X (1 .. Duration(w))
HalfDays(S) == UNION {HalfDaysOf(i, window[i]) : i \in {j \in Ids : status[j] \in S}}

(* The available balance is what the requests that are neither rejected    *)
(* nor cancelled leave of the opening balance.                             *)
AvailableExact == Available(Latest) = Opening - Cardinality(HalfDays(Statuses \ Closed))

(* The balance is never overdrawn: create refuses what exceeds it. *)
NeverOverdrawn == CheckBalance => Available(Latest) >= 0

(* One person is never on leave twice at the same time (LEAVE_OVERLAP). *)
NoOverlap ==
    \A i, j \in Ids : i # j /\ status[i] \notin Closed /\ status[j] \notin Closed => ~Overlaps(window[i], window[j])

(* A request that waits for its approver has an open task, a decided one   *)
(* has none.                                                               *)
TaskOpenWhileWaiting ==
    \A i \in Ids : /\ status[i] \in {"SUBMITTED", "CHANGES_REQUESTED"} => task[i] = "open"
                   /\ status[i] \in {"APPROVED", "REJECTED", "CANCEL_REQUESTED"} => task[i] # "open"
=============================================================================
