------------------------------ MODULE Workflow ------------------------------
(***************************************************************************)
(* The workflow engine of X.Office (xoffice.service.ts): requests, their   *)
(* tokens, approval tasks, parked external actions, published definitions  *)
(* and the command log.                                                    *)
(*                                                                         *)
(* A handler is one READ COMMITTED transaction.  tx[c] is what the handler *)
(* of client c has read and computed; its rows appear when it commits.     *)
(* Rows it locks on the way (an UPDATE before its last read) are the ones  *)
(* enterExternalReference updates first.  The walk of advanceMulti touches *)
(* only the handler's own memory: each node it takes off the worklist is   *)
(* one step of tx[c].walk.                                                 *)
(***************************************************************************)
EXTENDS Naturals, Sequences, FiniteSets

CONSTANTS
    Clients,        \* requests in flight at the same time
    Instances,      \* workflow instance rows, one workflow
    Seeded,         \* the instances seedDatabase creates at start-up
    SeedNode,       \* currentNodeId of the seeded instances, a human stop
    Keys,           \* idempotency keys clients may send
    NoKey,          \* none was sent: resolveEnvelope makes a random one
    Nodes,          \* node ids of all definitions
    Definitions,    \* definitions that may be published
    SeedDefinition, \* the one shipped in seed-data
    Kind,           \* Kind[d][n]: what advanceMulti does at node n of d
    Outs,           \* Outs[d][n]: edges that leave n, [target, label], in document order
    Start,          \* the start node
    GuardLimit,     \* MAX_WALK * 4
    MaxVersions,    \* bound: versions published, the seeded one included
    MayRestart      \* whether the server process may restart

Kinds == {"stop", "end", "split", "join", "condition", "auto", "external",
          "subflow", "pass", "absent"}

ASSUME ConstantsAssumption ==
    /\ Instances # {} /\ Seeded \subseteq Instances /\ IsFiniteSet(Seeded)
    /\ SeedNode \in Nodes /\ Start \in Nodes
    /\ NoKey \notin Keys
    /\ SeedDefinition \in Definitions
    /\ Kind \in [Definitions -> [Nodes -> Kinds]] /\ Kind[SeedDefinition][SeedNode] = "stop"
    /\ GuardLimit \in Nat /\ MaxVersions \in Nat /\ MayRestart \in BOOLEAN

EdgeType == [target : Nodes, label : {"yes", "no", "none"}]

VARIABLES
    def,        \* Workflow.workingDefinition
    versions,   \* WorkflowVersion rows: [no, def]
    status,     \* WorkflowInstance.status, "none" when there is no row
    active,     \* WorkflowInstance.activeNodes, as a bag of node ids
    holds,      \* holds[i]: the condition nodes that i's variables make true
    tasks,      \* ApprovalTask rows
    exts,       \* ExternalExecution rows
    cmds,       \* ConnectorCommand rows of external actions
    calls,      \* calls[i][n]: service calls and child flows run for node n
    log,        \* CommandLog keys
    tx,         \* open transactions
    applied     \* history: commands committed under each key

rows == <<def, versions, status, active, holds, tasks, exts, cmds, calls, log>>
vars == <<rows, tx, applied>>

-----------------------------------------------------------------------------
(* The graph: nextEdge and the worklist walk of advanceMulti. *)

(* def.edges.filter(e => e.target === id).length *)
Incoming(d, m) ==
    Cardinality(UNION {{<<n, k>> : k \in {k \in DOMAIN Outs[d][n] : Outs[d][n][k].target = m}} : n \in Nodes})

FirstTarget(es) == IF es = <<>> THEN <<>> ELSE <<es[1].target>>
Targets(es) == [k \in DOMAIN es |-> es[k].target]

(* outs.find(label) ?? outs[otherwise] *)
FindLabel(es, l, otherwise) ==
    LET first(k) == es[k].label = l /\ \A j \in 1 .. k - 1 : es[j].label # l
    IN  IF \E k \in DOMAIN es : first(k)
        THEN <<es[CHOOSE k \in DOMAIN es : first(k)].target>>
        ELSE <<es[otherwise].target>>

(* nextEdge, as a sequence of no or one target. *)
NextTarget(d, n, h) ==
    LET es == Outs[d][n] IN
    IF es = <<>> \/ Kind[d][n] = "absent" THEN <<>>
    ELSE IF Kind[d][n] # "condition" THEN <<es[1].target>>
    ELSE IF n \in h THEN FindLabel(es, "yes", 1) ELSE FindLabel(es, "no", Len(es))

EmptyBag == [n \in Nodes |-> 0]
Put(b, n) == [b EXCEPT ![n] = @ + 1]
Take(b, n) == [b EXCEPT ![n] = IF @ = 0 THEN 0 ELSE @ - 1]

Walk(work, bag) ==
    [work |-> work, active |-> bag, stops |-> <<>>, parks |-> <<>>, runs |-> <<>>, steps |-> 0]

(* Mutant: an off-by-one in the count a join waits for. *)
JoinNeedsOneMore(d, n) == Incoming(d, n) + 1

(* Math.max(1, incoming): how many parked tokens fire a join. *)
JoinNeeds(d, n) == IF Incoming(d, n) = 0 THEN 1 ELSE Incoming(d, n)

(* One turn of the loop of advanceMulti at the head of the worklist. *)
WalkStep(d, h, w) ==
    LET n == Head(w.work)
        k == Kind[d][n]
        on(ts) == [w EXCEPT !.work = Tail(@) \o ts, !.steps = @ + 1]
        out == FirstTarget(Outs[d][n])
        parked == Put(w.active, n)
    IN  CASE k = "stop"      -> [on(<<>>) EXCEPT !.active = parked, !.stops = Append(@, n)]
          [] k = "split"     -> on(Targets(Outs[d][n]))
          [] k = "join"      -> IF parked[n] >= JoinNeeds(d, n)
                                THEN [on(out) EXCEPT !.active = [@ EXCEPT ![n] = 0]]
                                ELSE [on(<<>>) EXCEPT !.active = parked]
          [] k = "condition" -> on(NextTarget(d, n, h))
          [] k = "external"  -> [on(<<>>) EXCEPT !.active = parked, !.parks = Append(@, n)]
          [] k \in {"auto", "subflow"} -> [on(out) EXCEPT !.runs = Append(@, n)]
          [] k = "pass"      -> on(out)
          [] OTHER           -> on(<<>>)        \* end, or a node the definition lost

WalkDone(w) == w.work = <<>> \/ w.steps >= GuardLimit

-----------------------------------------------------------------------------
(* Definitions are finite documents. *)
ASSUME GraphAssumption ==
    /\ Outs \in [Definitions -> [Nodes -> Seq(EdgeType)]]
    /\ \A d \in Definitions, n \in Nodes : Incoming(d, n) \in Nat

-----------------------------------------------------------------------------
(* Transactions *)

NoTx == [op |-> "idle", inst |-> CHOOSE i \in Instances : TRUE, ref |-> 0, cmd |-> 0,
         key |-> NoKey, def |-> SeedDefinition, holds |-> {}, walk |-> Walk(<<>>, EmptyBag)]

Begin(c, t) == tx[c] = NoTx /\ tx' = [tx EXCEPT ![c] = t]
End(c) == tx' = [tx EXCEPT ![c] = NoTx]

Replayed(k) == k \in log
Record(k) ==
    /\ log' = IF k = NoKey THEN log ELSE log \cup {k}
    /\ applied' = IF k = NoKey THEN applied ELSE [applied EXCEPT ![k] = @ + 1]

(* materializeStops, createExternalExecutions: one row per stop, and an    *)
(* execution and a command per parked action.                              *)
Rows(i, ns, s) == [k \in DOMAIN ns |-> [inst |-> i, node |-> ns[k], status |-> s]]
MaterializeStops(q, i, w) == q \o Rows(i, w.stops, "open")
CreateExternals(q, i, w, s) == q \o Rows(i, w.parks, s)

(* executeServiceCalls, executeSubflows: one command or one child instance *)
(* for each crossing of the node.                                          *)
CountIn(ns, n) == Cardinality({k \in DOMAIN ns : ns[k] = n})

ExecuteCalls(i, w) == calls' = [calls EXCEPT ![i] = [n \in Nodes |-> @[n] + CountIn(w.runs, n)]]

(* Mutant: completed when the walk made nothing new to wait for. *)
SettleOnNoNewStop(i, w) ==
    /\ status' = [status EXCEPT ![i] = IF w.stops = <<>> /\ w.parks = <<>> THEN "completed" ELSE "running"]
    /\ active' = [active EXCEPT ![i] = w.active]
    /\ ExecuteCalls(i, w)

(* What createRequest, actOnTask and enterExternalReference write to the   *)
(* instance once the walk is over.                                         *)
Settle(i, w) ==
    /\ status' = [status EXCEPT ![i] = IF w.active = EmptyBag THEN "completed" ELSE "running"]
    /\ active' = [active EXCEPT ![i] = w.active]
    /\ ExecuteCalls(i, w)

(* createRequest *)
CreateBegin(c, i, k, h) ==
    /\ status[i] = "none"
    /\ \A c2 \in Clients : tx[c2].op = "create" => tx[c2].inst # i
    /\ ~Replayed(k)
    /\ Begin(c, [NoTx EXCEPT !.op = "create", !.inst = i, !.key = k, !.def = def, !.holds = h,
                             !.walk = Walk(NextTarget(def, Start, h), EmptyBag)])
    /\ UNCHANGED <<rows, applied>>

(* Mutant: the token of the approved task is not consumed. *)
ActBeginKeepsToken(c, t, k, approve) ==
    LET i == tasks[t].inst
        n == tasks[t].node
    IN  /\ tasks[t].status = "open"
        /\ ~Replayed(k)
        /\ Begin(c, [NoTx EXCEPT !.op = IF approve THEN "approve" ELSE "reject",
                                 !.inst = i, !.ref = t, !.key = k, !.def = def, !.holds = holds[i],
                                 !.walk = IF approve
                                          THEN Walk(NextTarget(def, n, holds[i]), active[i])
                                          ELSE @])
        /\ UNCHANGED <<rows, applied>>

(* actOnTask: the task and its instance are read together. *)
ActBegin(c, t, k, approve) ==
    LET i == tasks[t].inst
        n == tasks[t].node
    IN  /\ tasks[t].status = "open"
        /\ ~Replayed(k)
        /\ Begin(c, [NoTx EXCEPT !.op = IF approve THEN "approve" ELSE "reject",
                                 !.inst = i, !.ref = t, !.key = k, !.def = def, !.holds = holds[i],
                                 !.walk = IF approve
                                          THEN Walk(NextTarget(def, n, holds[i]), Take(active[i], n))
                                          ELSE @])
        /\ UNCHANGED <<rows, applied>>

(* Mutant: a completed execution is entered again. *)
ExtBeginAgain(c, e) ==
    /\ Begin(c, [NoTx EXCEPT !.op = "extRead", !.inst = exts[e].inst, !.ref = e])
    /\ UNCHANGED <<rows, applied>>

(* enterExternalReference: the execution is read; a completed one returns. *)
ExtBegin(c, e) ==
    /\ exts[e].status = "pending"
    /\ Begin(c, [NoTx EXCEPT !.op = "extRead", !.inst = exts[e].inst, !.ref = e])
    /\ UNCHANGED <<rows, applied>>

(* Its first UPDATE locks the execution row, so it waits for another       *)
(* handler of the same row.  The newest pending command of the node is     *)
(* looked up after that, in any instance.                                  *)
ExtLocked(e) == \E c \in Clients : tx[c].op \in {"extCmd", "ext"} /\ tx[c].ref = e
CmdLocked(k) == \E c \in Clients : tx[c].op = "ext" /\ tx[c].cmd = k

IsNewestPending(k, n) ==
    /\ cmds[k].node = n /\ cmds[k].status = "manual_pending"
    /\ \A j \in DOMAIN cmds : cmds[j].node = n /\ cmds[j].status = "manual_pending" => j <= k

NewestCommand(n) ==
    IF \E k \in DOMAIN cmds : IsNewestPending(k, n)
    THEN CHOOSE k \in DOMAIN cmds : IsNewestPending(k, n)
    ELSE 0

ExtLock(c) ==
    LET e == tx[c].ref IN
    /\ tx[c].op = "extRead"
    /\ ~ExtLocked(e)
    /\ tx' = [tx EXCEPT ![c].op = "extCmd", ![c].cmd = NewestCommand(exts[e].node)]
    /\ UNCHANGED <<rows, applied>>

(* The command is updated (another lock), then the instance is read and    *)
(* the token parked at the node, if it is still there, is consumed.        *)
ExtReadInstance(c) ==
    LET i == tx[c].inst
        n == exts[tx[c].ref].node
    IN  /\ tx[c].op = "extCmd"
        /\ tx[c].cmd # 0 => ~CmdLocked(tx[c].cmd)
        /\ tx' = [tx EXCEPT ![c].op = "ext", ![c].def = def, ![c].holds = holds[i],
                            ![c].walk = Walk(NextTarget(def, n, holds[i]), Take(active[i], n))]
        /\ UNCHANGED <<rows, applied>>

(* advanceMulti *)
AdvanceMulti(c) ==
    /\ tx[c].op \in {"create", "approve", "ext"}
    /\ ~WalkDone(tx[c].walk)
    /\ tx' = [tx EXCEPT ![c].walk = WalkStep(tx[c].def, tx[c].holds, @)]
    /\ UNCHANGED <<rows, applied>>

(* Commits.  recordCommand hits the unique index when the key is there. *)
CreateCommit(c) ==
    LET t == tx[c] IN
    /\ t.op = "create" /\ WalkDone(t.walk)
    /\ ~Replayed(t.key)
    /\ Settle(t.inst, t.walk)
    /\ holds' = [holds EXCEPT ![t.inst] = t.holds]
    /\ tasks' = MaterializeStops(tasks, t.inst, t.walk)
    /\ exts' = CreateExternals(exts, t.inst, t.walk, "pending")
    /\ cmds' = CreateExternals(cmds, t.inst, t.walk, "manual_pending")
    /\ Record(t.key)
    /\ End(c)
    /\ UNCHANGED <<def, versions>>

(* Mutant: the command log has no unique index. *)
ApproveCommitNotUnique(c) ==
    LET t == tx[c] IN
    /\ t.op = "approve" /\ WalkDone(t.walk)
    /\ Settle(t.inst, t.walk)
    /\ tasks' = MaterializeStops([tasks EXCEPT ![t.ref].status = "approved"], t.inst, t.walk)
    /\ exts' = CreateExternals(exts, t.inst, t.walk, "pending")
    /\ cmds' = CreateExternals(cmds, t.inst, t.walk, "manual_pending")
    /\ Record(t.key)
    /\ End(c)
    /\ UNCHANGED <<def, versions, holds>>

ApproveCommit(c) ==
    LET t == tx[c] IN
    /\ t.op = "approve" /\ WalkDone(t.walk)
    /\ ~Replayed(t.key)
    /\ Settle(t.inst, t.walk)
    /\ tasks' = MaterializeStops([tasks EXCEPT ![t.ref].status = "approved"], t.inst, t.walk)
    /\ exts' = CreateExternals(exts, t.inst, t.walk, "pending")
    /\ cmds' = CreateExternals(cmds, t.inst, t.walk, "manual_pending")
    /\ Record(t.key)
    /\ End(c)
    /\ UNCHANGED <<def, versions, holds>>

RejectCommit(c) ==
    LET t == tx[c] IN
    /\ t.op = "reject"
    /\ ~Replayed(t.key)
    /\ status' = [status EXCEPT ![t.inst] = "rejected"]
    /\ tasks' = [tasks EXCEPT ![t.ref].status = "rejected"]
    /\ Record(t.key)
    /\ End(c)
    /\ UNCHANGED <<def, versions, active, holds, exts, cmds, calls>>

ExtCommit(c) ==
    LET t == tx[c] IN
    /\ t.op = "ext" /\ WalkDone(t.walk)
    /\ Settle(t.inst, t.walk)
    /\ tasks' = MaterializeStops(tasks, t.inst, t.walk)
    /\ exts' = CreateExternals([exts EXCEPT ![t.ref].status = "completed"], t.inst, t.walk, "pending")
    /\ cmds' = CreateExternals(IF t.cmd = 0 THEN cmds ELSE [cmds EXCEPT ![t.cmd].status = "manual_completed"],
                                t.inst, t.walk, "manual_pending")
    /\ End(c)
    /\ UNCHANGED <<def, versions, holds, log, applied>>

(* publish: the next version number is read, the row created under the     *)
(* unique index on (workflowId, version), the working definition replaced, *)
(* for running instances too.                                              *)
LatestVersion == CHOOSE v \in versions : \A u \in versions : u.no <= v.no

PublishBegin(c, d) ==
    /\ LatestVersion.no < MaxVersions
    /\ Begin(c, [NoTx EXCEPT !.op = "publish", !.def = d, !.ref = LatestVersion.no + 1])
    /\ UNCHANGED <<rows, applied>>

(* Mutant: no unique index on the version number. *)
PublishCommitNotUnique(c) ==
    LET t == tx[c] IN
    /\ t.op = "publish"
    /\ versions' = versions \cup {[no |-> t.ref, def |-> t.def]}
    /\ def' = t.def
    /\ End(c)
    /\ UNCHANGED <<status, active, holds, tasks, exts, cmds, calls, log, applied>>

PublishCommit(c) ==
    LET t == tx[c] IN
    /\ t.op = "publish"
    /\ \A v \in versions : v.no # t.ref
    /\ versions' = versions \cup {[no |-> t.ref, def |-> t.def]}
    /\ def' = t.def
    /\ End(c)
    /\ UNCHANGED <<status, active, holds, tasks, exts, cmds, calls, log, applied>>

(* A unique index, an exception, the 30 s limit: the transaction leaves    *)
(* nothing behind.                                                         *)
Rollback(c) ==
    /\ tx[c] # NoTx
    /\ End(c)
    /\ UNCHANGED <<rows, applied>>

(* The process restarts: open transactions are lost and onModuleInit runs  *)
(* seedDatabase, which upserts the working definition and the seeded       *)
(* instances' status but neither activeNodes nor a task it made before.    *)
Restart ==
    /\ MayRestart
    /\ tx' = [c \in Clients |-> NoTx]
    /\ def' = SeedDefinition
    /\ status' = [i \in Instances |-> IF i \in Seeded THEN "running" ELSE status[i]]
    /\ UNCHANGED <<versions, active, holds, tasks, exts, cmds, calls, log, applied>>

-----------------------------------------------------------------------------
(* The database after the first start of the server. *)
Init ==
    /\ def = SeedDefinition
    /\ versions = {[no |-> 1, def |-> SeedDefinition]}
    /\ status = [i \in Instances |-> IF i \in Seeded THEN "running" ELSE "none"]
    /\ active = [i \in Instances |-> IF i \in Seeded THEN Put(EmptyBag, SeedNode) ELSE EmptyBag]
    /\ holds = [i \in Instances |-> {}]
    /\ \E seq \in [1..Cardinality(Seeded) -> Seeded] :
          /\ \A j, k \in DOMAIN seq : seq[j] = seq[k] => j = k
          /\ tasks = [k \in DOMAIN seq |-> [inst |-> seq[k], node |-> SeedNode, status |-> "open"]]
    /\ exts = <<>>
    /\ cmds = <<>>
    /\ calls = [i \in Instances |-> EmptyBag]
    /\ log = {}
    /\ tx = [c \in Clients |-> NoTx]
    /\ applied = [k \in Keys |-> 0]

Handler(c) ==
    \/ \E i \in Instances, k \in Keys \cup {NoKey}, h \in SUBSET {n \in Nodes : Kind[def][n] = "condition"} :
          CreateBegin(c, i, k, h)
    \/ \E t \in DOMAIN tasks, k \in Keys \cup {NoKey}, approve \in BOOLEAN : ActBegin(c, t, k, approve)
    \/ \E e \in DOMAIN exts : ExtBegin(c, e)
    \/ ExtLock(c)
    \/ ExtReadInstance(c)
    \/ AdvanceMulti(c)
    \/ CreateCommit(c)
    \/ ApproveCommit(c)
    \/ RejectCommit(c)
    \/ ExtCommit(c)
    \/ \E d \in Definitions : PublishBegin(c, d)
    \/ PublishCommit(c)
    \/ Rollback(c)

Next == Restart \/ \E c \in Clients : Handler(c)

Spec == Init /\ [][Next]_vars

-----------------------------------------------------------------------------
Bag == [Nodes -> Nat]

WalkType == [work : Seq(Nodes), active : Bag, stops : Seq(Nodes), parks : Seq(Nodes),
             runs : Seq(Nodes), steps : Nat]

RowType(statuses) == [inst : Instances, node : Nodes, status : statuses]

TxType == [op : {"idle", "create", "approve", "reject", "extRead", "extCmd", "ext", "publish"},
           inst : Instances, ref : Nat, cmd : Nat, key : Keys \cup {NoKey}, def : Definitions,
           holds : SUBSET Nodes, walk : WalkType]

(* Rows and open transactions have the shapes of the schema and of the     *)
(* handlers' locals.                                                       *)
TypeOK ==
    /\ def \in Definitions
    /\ versions \subseteq [no : Nat, def : Definitions]
    /\ status \in [Instances -> {"none", "running", "completed", "rejected"}]
    /\ active \in [Instances -> Bag]
    /\ holds \in [Instances -> SUBSET Nodes]
    /\ tasks \in Seq(RowType({"open", "approved", "rejected"}))
    /\ exts \in Seq(RowType({"pending", "completed"}))
    /\ cmds \in Seq(RowType({"manual_pending", "manual_completed"}))
    /\ calls \in [Instances -> Bag]
    /\ log \subseteq Keys
    /\ tx \in [Clients -> TxType]
    /\ applied \in [Keys -> Nat]

(* A command is carried out at most once per idempotency key, whatever     *)
(* handlers run at once: findIdempotent at the start of the handler and    *)
(* the unique index under recordCommand at its end.                        *)
KeyAppliedOnce == \A k \in Keys : applied[k] <= 1 /\ (applied[k] = 1 <=> k \in log)

(* The instance's status and its tokens, written together by every handler *)
(* that settles it, never disagree: a completed instance has no token, a   *)
(* running one has some.                                                   *)
StatusMatchesTokens ==
    \A i \in Instances : /\ status[i] = "completed" => active[i] = EmptyBag
                         /\ status[i] = "running" => active[i] # EmptyBag

(* A join never keeps as many tokens as it has incoming edges: the last    *)
(* one to arrive fires it, also when two handlers raced.                   *)
JoinNeverFull ==
    \A i \in Instances, n \in Nodes : Kind[def][n] = "join" => active[i][n] = 0 \/ active[i][n] < Incoming(def, n)

(* Two publishers never publish the same version number, and the working   *)
(* copy is the latest published version unless a restart has put the       *)
(* shipped definition back.                                                *)
WorkingIsLatest ==
    /\ \A u, v \in versions : u.no = v.no => u = v
    /\ def = LatestVersion.def \/ (MayRestart /\ def = SeedDefinition)

RowsOf(s, i, n, st) == {k \in DOMAIN s : s[k].inst = i /\ s[k].node = n /\ s[k].status = st}
NeverRejected(i) == \A k \in DOMAIN tasks : tasks[k].inst = i => tasks[k].status # "rejected"
Settled(i) == status[i] \in {"running", "completed"} /\ NeverRejected(i)

(* Of an instance nobody rejected, every token at a human stop has its     *)
(* open task and every token at an external action its pending execution,  *)
(* and the other way round.                                                *)
TokensHaveWork ==
    \A i \in Instances, n \in Nodes :
        Settled(i) =>
            /\ Kind[def][n] = "stop" => active[i][n] = Cardinality(RowsOf(tasks, i, n, "open"))
            /\ Kind[def][n] = "external" => active[i][n] = Cardinality(RowsOf(exts, i, n, "pending"))

(* An instance nobody rejected and that still runs waits for somebody: it  *)
(* has an open task or a pending external action.                          *)
NeverStuck ==
    \A i \in Instances :
        status[i] = "running" /\ NeverRejected(i) =>
            \E n \in Nodes : RowsOf(tasks, i, n, "open") \cup RowsOf(exts, i, n, "pending") # {}

(* No service call and no child flow runs twice for one instance (of a     *)
(* definition in which every node is crossed once).                        *)
RunsOnce == \A i \in Instances, n \in Nodes : calls[i][n] <= 1

(* Of each node, as many commands are completed as external actions: no    *)
(* entered reference leaves its command pending or completes two.          *)
CommandsKeepPace ==
    \A n \in Nodes :
        Cardinality({k \in DOMAIN exts : exts[k].node = n /\ exts[k].status = "completed"})
          = Cardinality({k \in DOMAIN cmds : cmds[k].node = n /\ cmds[k].status = "manual_completed"})
=============================================================================
