------------------------------- MODULE Outbox -------------------------------
(***************************************************************************)
(* Inbound webhooks, the outbox table and its dispatcher                   *)
(* (webhook.service.ts, webhook.dispatcher.ts, common/outbox.ts), and the  *)
(* X.Office handlers that enqueue over HTTP (common/outbox-http.client.ts, *)
(* called by leave.service.ts).                                            *)
(*                                                                         *)
(* receive and a sweep of dispatch are one READ COMMITTED transaction      *)
(* each.  An X.Office handler has its own transaction in another database; *)
(* the row it enqueues is committed by the platform process on its own.    *)
(***************************************************************************)
EXTENDS Naturals, Sequences, FiniteSets

CONSTANTS
    Clients,        \* requests in flight at the same time
    Webhooks,       \* inbound events, by (source, externalId)
    Changes,        \* X.Office changes that announce themselves
    Sweepers,       \* runs of dispatch in flight: interval ticks, manual calls
    FailUntil,      \* FailUntil[e]: deliveries of e before this attempt fail
    MaxAttempts,    \* OutboxEvent.maxAttempts
    Limit,          \* rows one sweep takes
    MaxRows,        \* bound: outbox rows
    MaxAborts       \* bound: sweeps that fail

Events == Webhooks \cup Changes

ASSUME OutboxAssumption ==
    /\ Webhooks \cap Changes = {} /\ Webhooks # {}
    /\ FailUntil \in [Events -> Nat]
    /\ MaxAttempts \in Nat \ {0}
    /\ Limit \in Nat \ {0} /\ MaxRows \in Nat /\ MaxAborts \in Nat

VARIABLES
    received,   \* WebhookEvent rows (status processed)
    committed,  \* changes the X.Office database has committed
    outbox,     \* OutboxEvent rows in order of createdAt
    tx,         \* open handlers
    batch,      \* batch[s]: the rows sweep s has read, with their attempts
    aborts,     \* sweeps that failed so far
    done        \* history: rows a sweep has ever marked sent or failed

vars == <<received, committed, outbox, tx, batch, aborts, done>>

-----------------------------------------------------------------------------
(* Handlers *)

Idle == [op |-> "idle", of |-> CHOOSE w \in Webhooks : TRUE]
End(c) == tx' = [tx EXCEPT ![c] = Idle]

(* enqueueOutboxEvent *)
EnqueueOutboxEvent(e) ==
    /\ Len(outbox) < MaxRows
    /\ outbox' = Append(outbox, [of |-> e, status |-> "pending", attempts |-> 0, next |-> "now"])

(* receive, up to its INSERT: a known event is answered with its row. *)
ReceiveCheck(c, w) ==
    /\ tx[c] = Idle
    /\ w \notin received
    /\ tx' = [tx EXCEPT ![c] = [op |-> "receive", of |-> w]]
    /\ UNCHANGED <<received, committed, outbox, batch, aborts, done>>

(* Mutants: no unique index; a failed enqueue is swallowed. *)
NewEventAny(w) == TRUE
ReceiveCommitForgets(c) ==
    LET w == tx[c].of IN
    /\ tx[c].op = "receive"
    /\ w \notin received
    /\ received' = received \cup {w}
    /\ EnqueueOutboxEvent(w) \/ UNCHANGED outbox
    /\ End(c)
    /\ UNCHANGED <<committed, batch, aborts, done>>

(* @@unique([tenantId, source, externalId]) *)
NewEvent(w) == w \notin received

(* The event and its outbox row in one transaction. *)
ReceiveCommit(c) ==
    LET w == tx[c].of IN
    /\ tx[c].op = "receive"
    /\ NewEvent(w)
    /\ received' = received \cup {w}
    /\ EnqueueOutboxEvent(w)
    /\ End(c)
    /\ UNCHANGED <<committed, batch, aborts, done>>

(* An X.Office handler (leave create, approve) has written its row, which  *)
(* a second handler of the same change waits for.                          *)
ChangeBegin(c, x) ==
    /\ tx[c] = Idle
    /\ x \notin committed
    /\ \A b \in Clients : tx[b].of # x
    /\ tx' = [tx EXCEPT ![c] = [op |-> "change", of |-> x]]
    /\ UNCHANGED <<received, committed, outbox, batch, aborts, done>>

(* OutboxHttpClient.enqueue: POST /api/webhooks/outbox inserts and commits *)
(* in the platform process, before the caller commits.                     *)
Enqueue(c) ==
    /\ tx[c].op = "change"
    /\ EnqueueOutboxEvent(tx[c].of)
    /\ tx' = [tx EXCEPT ![c].op = "enqueued"]
    /\ UNCHANGED <<received, committed, batch, aborts, done>>

(* Mutant: a failed enqueue is swallowed. *)
ChangeCommitSwallows(c) ==
    /\ tx[c].op \in {"change", "enqueued"}
    /\ committed' = committed \cup {tx[c].of}
    /\ End(c)
    /\ UNCHANGED <<received, outbox, batch, aborts, done>>

ChangeCommit(c) ==
    /\ tx[c].op = "enqueued"
    /\ committed' = committed \cup {tx[c].of}
    /\ End(c)
    /\ UNCHANGED <<received, outbox, batch, aborts, done>>

(* An error, a failed or lost answer of the enqueue, the unique index, the *)
(* time limit: the handler's own transaction leaves nothing behind.        *)
Rollback(c) ==
    /\ tx[c] # Idle
    /\ End(c)
    /\ UNCHANGED <<received, committed, outbox, batch, aborts, done>>

-----------------------------------------------------------------------------
(* dispatch *)

NoBatch == [r \in {} |-> 0]
Pending(ignoreBackoff) ==
    {r \in DOMAIN outbox : outbox[r].status = "pending" /\ (ignoreBackoff \/ outbox[r].next = "now")}
Oldest(R) == {r \in R : Cardinality({q \in R : q < r}) < Limit}

(* A sweep reads its rows: the scheduler's only those whose nextAttemptAt  *)
(* has come, the manual one all that are pending.                          *)
SweepBegin(s, ignoreBackoff) ==
    LET R == Oldest(Pending(ignoreBackoff)) IN
    /\ batch[s] = NoBatch /\ R # {}
    /\ batch' = [batch EXCEPT ![s] = [r \in R |-> outbox[r].attempts]]
    /\ UNCHANGED <<received, committed, outbox, tx, aborts, done>>

(* Mutants: an off-by-one at the cap; the attempt is not stored. *)
AttemptedOnceMore(row, attempt) ==
    CASE attempt >= FailUntil[row.of] -> [row EXCEPT !.status = "sent", !.attempts = attempt]
      [] attempt < FailUntil[row.of] /\ attempt > MaxAttempts -> [row EXCEPT !.status = "failed", !.attempts = attempt]
      [] OTHER -> [row EXCEPT !.status = "pending", !.attempts = attempt, !.next = "later"]
AttemptedUncounted(row, attempt) ==
    CASE attempt >= FailUntil[row.of] -> [row EXCEPT !.status = "sent", !.attempts = attempt]
      [] attempt < FailUntil[row.of] /\ attempt >= MaxAttempts -> [row EXCEPT !.status = "failed", !.attempts = attempt]
      [] OTHER -> [row EXCEPT !.status = "pending", !.next = "later"]

(* What one attempt makes of a row. *)
Attempted(row, attempt) ==
    CASE attempt >= FailUntil[row.of] -> [row EXCEPT !.status = "sent", !.attempts = attempt]
      [] attempt < FailUntil[row.of] /\ attempt >= MaxAttempts -> [row EXCEPT !.status = "failed", !.attempts = attempt]
      [] OTHER -> [row EXCEPT !.status = "pending", !.attempts = attempt, !.next = "later"]

(* Every row is updated by id from the attempts read at the start, whatever *)
(* another sweep made of it since.                                          *)
SweepCommit(s) ==
    LET R == DOMAIN batch[s] IN
    /\ R # {}
    /\ outbox' = [r \in DOMAIN outbox |-> IF r \in R THEN Attempted(outbox[r], batch[s][r] + 1) ELSE outbox[r]]
    /\ done' = done \cup {r \in R : outbox'[r].status # "pending"}
    /\ batch' = [batch EXCEPT ![s] = NoBatch]
    /\ UNCHANGED <<received, committed, tx, aborts>>

(* The sweep throws, times out or its process dies: logged, nothing        *)
(* written; the next tick tries again.                                     *)
SweepAbort(s) ==
    /\ batch[s] # NoBatch
    /\ aborts < MaxAborts
    /\ aborts' = aborts + 1
    /\ batch' = [batch EXCEPT ![s] = NoBatch]
    /\ UNCHANGED <<received, committed, outbox, tx, done>>

(* The time nextAttemptAt comes. *)
BackoffOver(r) ==
    /\ r \in DOMAIN outbox
    /\ outbox[r].next = "later"
    /\ outbox' = [outbox EXCEPT ![r].next = "now"]
    /\ UNCHANGED <<received, committed, tx, batch, aborts, done>>

-----------------------------------------------------------------------------
Init ==
    /\ received = {} /\ committed = {} /\ outbox = <<>>
    /\ tx = [c \in Clients |-> Idle]
    /\ batch = [s \in Sweepers |-> NoBatch]
    /\ aborts = 0 /\ done = {}

Handler(c) ==
    \/ \E w \in Webhooks : ReceiveCheck(c, w)
    \/ ReceiveCommit(c)
    \/ \E x \in Changes : ChangeBegin(c, x)
    \/ Enqueue(c)
    \/ ChangeCommit(c)
    \/ Rollback(c)

Dispatch(s) ==
    \/ \E ignoreBackoff \in BOOLEAN : SweepBegin(s, ignoreBackoff)
    \/ SweepCommit(s)
    \/ SweepAbort(s)

Next ==
    \/ \E c \in Clients : Handler(c)
    \/ \E s \in Sweepers : Dispatch(s)
    \/ \E r \in 1 .. MaxRows : BackoffOver(r)

(* The interval fires for as long as the process lives, a sweep that does  *)
(* not fail ends, and time passes.                                         *)
Fairness ==
    /\ WF_vars(\E s \in Sweepers : SweepBegin(s, FALSE))
    /\ \A s \in Sweepers : WF_vars(SweepCommit(s))
    /\ \A r \in 1 .. MaxRows : WF_vars(BackoffOver(r))

Spec == Init /\ [][Next]_vars
FairSpec == Spec /\ Fairness

-----------------------------------------------------------------------------
TxType == [op : {"idle", "receive", "change", "enqueued"}, of : Events]
RowType == [of : Events, status : {"pending", "sent", "failed"}, attempts : Nat, next : {"now", "later"}]

(* Rows, handlers and sweeps have the shapes of the schema and the locals. *)
TypeOK ==
    /\ received \subseteq Webhooks
    /\ committed \subseteq Changes
    /\ outbox \in Seq(RowType)
    /\ tx \in [Clients -> TxType]
    /\ \A c \in Clients : /\ tx[c].op = "receive" => tx[c].of \in Webhooks
                          /\ tx[c].op \in {"change", "enqueued"} => tx[c].of \in Changes
    /\ DOMAIN batch = Sweepers
    /\ \A s \in Sweepers : DOMAIN batch[s] \subseteq DOMAIN outbox /\ batch[s] \in [DOMAIN batch[s] -> Nat]
    /\ aborts \in Nat
    /\ done \subseteq DOMAIN outbox

RowsOf(e) == {r \in DOMAIN outbox : outbox[r].of = e}

(* A webhook that was accepted has exactly one outbox row, one that was    *)
(* not has none, however deliveries of the same event race.                *)
OneRowPerWebhook ==
    \A w \in Webhooks :
        /\ w \in received => \E r \in DOMAIN outbox : RowsOf(w) = {r}
        /\ w \notin received => RowsOf(w) = {}

(* A change that X.Office committed is in the outbox. *)
CommittedIsAnnounced == \A x \in committed : RowsOf(x) # {}

(* Attempts are capped and a row is given up exactly at the cap, also when *)
(* sweeps work from attempts they read before another sweep.               *)
AttemptsCapped ==
    \A r \in DOMAIN outbox :
        /\ outbox[r].attempts <= MaxAttempts
        /\ outbox[r].status = "pending" => outbox[r].attempts < MaxAttempts
        /\ outbox[r].status = "failed" => outbox[r].attempts = MaxAttempts

Settled(r) == r \in DOMAIN outbox /\ outbox[r].status # "pending"

(* Every row is sent or failed in the end and stays so, although a late    *)
(* sweep may set a row that was sent back to pending.                      *)
EveryRowSettles ==
    \A r \in 1 .. MaxRows : (r \in DOMAIN outbox) ~> []Settled(r)

SettledWebhooks == {w \in received : RowsOf(w) \cap done # {}}

(* The outbox implements EventDelivery for the webhooks it accepts. *)
Delivery == INSTANCE EventDelivery WITH
    Events <- Webhooks,
    accepted <- received,
    settled <- SettledWebhooks
DeliverySpec == Delivery!Spec
=============================================================================
