--------------------------- MODULE Workflow_proofs ---------------------------
(***************************************************************************)
(* What the workflow engine guarantees for every graph, every number of    *)
(* instances and every number of concurrent handlers.                      *)
(***************************************************************************)
EXTENDS WorkflowGraphs, SequenceTheorems, FiniteSetTheorems, TLAPS

-----------------------------------------------------------------------------
(* The operators of the walk. *)

LEMMA BagOps ==
    ASSUME NEW b \in Bag, NEW n \in Nodes
    PROVE  /\ EmptyBag \in Bag /\ Put(b, n) \in Bag /\ Take(b, n) \in Bag
           /\ [b EXCEPT ![n] = 0] \in Bag
           /\ Put(b, n)[n] = b[n] + 1
           /\ \A m \in Nodes : m # n => Put(b, n)[m] = b[m] /\ Take(b, n)[m] = b[m]
           /\ Take(b, n)[n] <= b[n]
BY DEF Bag, EmptyBag, Put, Take

LEMMA OutsType ==
    ASSUME NEW d \in Definitions, NEW n \in Nodes
    PROVE  /\ Outs[d][n] \in Seq(EdgeType)
           /\ FirstTarget(Outs[d][n]) \in Seq(Nodes)
           /\ Targets(Outs[d][n]) \in Seq(Nodes)
<1> DEFINE es == Outs[d][n]
<1>1. es \in Seq(EdgeType)
  BY GraphAssumption
<1>2. \A k \in DOMAIN es : es[k].target \in Nodes
  <2> HIDE DEF es
  <2>1. \A k \in DOMAIN es : es[k] \in EdgeType
    BY <1>1
  <2> QED BY <2>1 DEF EdgeType
<1>3. FirstTarget(es) \in Seq(Nodes)
  BY <1>1, <1>2 DEF FirstTarget
<1>4. Targets(es) \in Seq(Nodes)
  <2>1. DOMAIN es = 1 .. Len(es) /\ Len(es) \in Nat
    BY <1>1
  <2> QED BY <1>2, <2>1, IsASeq DEF Targets
<1> QED BY <1>1, <1>3, <1>4

LEMMA NextTargetType ==
    ASSUME NEW d \in Definitions, NEW n \in Nodes, NEW h
    PROVE  NextTarget(d, n, h) \in Seq(Nodes)
<1> DEFINE es == Outs[d][n]
<1>1. es \in Seq(EdgeType) /\ \A k \in DOMAIN es : es[k].target \in Nodes
  <2>1. es \in Seq(EdgeType)
    BY GraphAssumption
  <2> HIDE DEF es
  <2>2. \A k \in DOMAIN es : es[k] \in EdgeType
    BY <2>1
  <2> QED BY <2>1, <2>2 DEF EdgeType
<1>2. ASSUME NEW l, NEW o \in DOMAIN es PROVE FindLabel(es, l, o) \in Seq(Nodes)
  <2> DEFINE first(k) == es[k].label = l /\ \A j \in 1 .. k - 1 : es[j].label # l
  <2>1. CASE \E k \in DOMAIN es : first(k)
    <3>1. (CHOOSE k \in DOMAIN es : first(k)) \in DOMAIN es
      BY <2>1
    <3> HIDE DEF es
    <3> QED BY <1>1, <2>1, <3>1 DEF FindLabel
  <2>2. CASE ~ \E k \in DOMAIN es : first(k)
    <3> HIDE DEF es
    <3> QED BY <1>1, <1>2, <2>2 DEF FindLabel
  <2> QED BY <2>1, <2>2
<1>3. CASE es = <<>> \/ Kind[d][n] = "absent"
  BY <1>3 DEF NextTarget
<1>4. CASE es # <<>> /\ Kind[d][n] # "absent"
  <2>1. 1 \in DOMAIN es /\ Len(es) \in DOMAIN es
    BY <1>1, <1>4
  <2>2. FindLabel(es, "yes", 1) \in Seq(Nodes) /\ FindLabel(es, "no", Len(es)) \in Seq(Nodes)
    BY <1>2, <2>1
  <2>3. <<es[1].target>> \in Seq(Nodes)
    BY <1>1, <2>1
  <2> QED BY <1>4, <2>2, <2>3 DEF NextTarget
<1> QED BY <1>3, <1>4

LEMMA WalkTyped ==
    ASSUME NEW work \in Seq(Nodes), NEW b \in Bag
    PROVE  Walk(work, b) \in WalkType
BY DEF Walk, WalkType

LEMMA WalkStepType ==
    ASSUME NEW d \in Definitions, NEW h, NEW w \in WalkType, w.work # <<>>
    PROVE  WalkStep(d, h, w) \in WalkType
<1> DEFINE n == Head(w.work)
           on(ts) == [w EXCEPT !.work = Tail(@) \o ts, !.steps = @ + 1]
<1>1. n \in Nodes /\ Tail(w.work) \in Seq(Nodes)
  BY DEF WalkType
<1>2. ASSUME NEW ts \in Seq(Nodes) PROVE on(ts) \in WalkType /\ on(ts).active = w.active
  <2>1. Tail(w.work) \o ts \in Seq(Nodes)
    BY <1>1
  <2>2. w.steps + 1 \in Nat
    BY DEF WalkType
  <2> QED BY <2>1, <2>2 DEF WalkType
<1>3. ASSUME NEW v \in WalkType, NEW b \in Bag PROVE [v EXCEPT !.active = b] \in WalkType
  BY DEF WalkType
<1>4. ASSUME NEW v \in WalkType
      PROVE  /\ [v EXCEPT !.stops = Append(@, n)] \in WalkType
             /\ [v EXCEPT !.parks = Append(@, n)] \in WalkType
             /\ [v EXCEPT !.runs = Append(@, n)] \in WalkType
  <2>1. \A q \in Seq(Nodes) : Append(q, n) \in Seq(Nodes)
    BY <1>1
  <2> HIDE DEF n
  <2> QED BY <2>1 DEF WalkType
<1>5. Put(w.active, n) \in Bag /\ [w.active EXCEPT ![n] = 0] \in Bag
  BY <1>1, BagOps DEF WalkType
<1>6. /\ <<>> \in Seq(Nodes) /\ FirstTarget(Outs[d][n]) \in Seq(Nodes)
      /\ Targets(Outs[d][n]) \in Seq(Nodes) /\ NextTarget(d, n, h) \in Seq(Nodes)
  BY <1>1, OutsType, NextTargetType
<1> DEFINE k == Kind[d][n]
           parked == Put(w.active, n)
           rest == [on(<<>>) EXCEPT !.active = parked]
           go == on(FirstTarget(Outs[d][n]))
<1>7. /\ on(<<>>) \in WalkType /\ rest \in WalkType /\ go \in WalkType
      /\ on(Targets(Outs[d][n])) \in WalkType /\ on(NextTarget(d, n, h)) \in WalkType
  BY <1>2, <1>3, <1>5, <1>6
<1>8. [on(<<>>) EXCEPT !.active = parked, !.stops = Append(@, n)] \in WalkType
  <2>1. [rest EXCEPT !.stops = Append(@, n)] \in WalkType
    BY <1>4, <1>7
  <2> QED BY <2>1, <1>7 DEF WalkType
<1>9. [on(<<>>) EXCEPT !.active = parked, !.parks = Append(@, n)] \in WalkType
  <2>1. [rest EXCEPT !.parks = Append(@, n)] \in WalkType
    BY <1>4, <1>7
  <2> QED BY <2>1, <1>7 DEF WalkType
<1>10. [go EXCEPT !.active = [@ EXCEPT ![n] = 0]] \in WalkType
  <2>1. go.active = w.active
    BY <1>2, <1>6
  <2> QED BY <1>3, <1>5, <1>7, <2>1
<1>11. [go EXCEPT !.runs = Append(@, n)] \in WalkType
  BY <1>4, <1>7
<1> QED BY <1>7, <1>8, <1>9, <1>10, <1>11 DEF WalkStep

(* The rows a handler inserts, and the bookkeeping of what it ran. *)
LEMMA RowsType ==
    ASSUME NEW i \in Instances, NEW ns \in Seq(Nodes), NEW S, NEW st \in S
    PROVE  Rows(i, ns, st) \in Seq(RowType(S))
<1>1. DOMAIN ns = 1 .. Len(ns) /\ Len(ns) \in Nat
  OBVIOUS
<1>2. \A k \in 1 .. Len(ns) : [inst |-> i, node |-> ns[k], status |-> st] \in RowType(S)
  BY DEF RowType
<1> QED BY <1>1, <1>2, IsASeq DEF Rows

LEMMA AddRows ==
    ASSUME NEW S, NEW q \in Seq(RowType(S)), NEW i \in Instances, NEW ns \in Seq(Nodes), NEW st \in S
    PROVE  /\ q \o Rows(i, ns, st) \in Seq(RowType(S))
           /\ DOMAIN q \subseteq DOMAIN (q \o Rows(i, ns, st))
<1> DEFINE r == Rows(i, ns, st)
<1>1. r \in Seq(RowType(S))
  BY RowsType
<1> HIDE DEF r
<1>2. q \o r \in Seq(RowType(S)) /\ Len(q \o r) = Len(q) + Len(r) /\ Len(r) \in Nat /\ Len(q) \in Nat
  BY <1>1
<1>3. DOMAIN q = 1 .. Len(q) /\ DOMAIN (q \o r) = 1 .. Len(q \o r)
  BY <1>2
<1> QED BY <1>2, <1>3 DEF r

LEMMA StatusUpdate ==
    ASSUME NEW S, NEW q \in Seq(RowType(S)), NEW k \in DOMAIN q, NEW st \in S
    PROVE  /\ [q EXCEPT ![k].status = st] \in Seq(RowType(S))
           /\ DOMAIN [q EXCEPT ![k].status = st] = DOMAIN q
<1>1. q[k] \in RowType(S)
  OBVIOUS
<1>2. [q[k] EXCEPT !.status = st] \in RowType(S)
  BY <1>1 DEF RowType
<1> QED BY <1>2

LEMMA CountInType ==
    ASSUME NEW ns \in Seq(Nodes), NEW n \in Nodes
    PROVE  CountIn(ns, n) \in Nat
<1>1. IsFiniteSet(1 .. Len(ns))
  <2>1. Len(ns) \in Int /\ 1 \in Int
    OBVIOUS
  <2> QED BY <2>1, FS_Interval
<1>2. {k \in DOMAIN ns : ns[k] = n} \subseteq 1 .. Len(ns)
  OBVIOUS
<1> QED BY <1>1, <1>2, FS_Subset, FS_CardinalityType DEF CountIn

LEMMA SettleType ==
    ASSUME TypeOK, NEW i \in Instances, NEW w \in WalkType, Settle(i, w)
    PROVE  /\ status' \in [Instances -> {"none", "running", "completed", "rejected"}]
           /\ active' \in [Instances -> Bag]
           /\ calls' \in [Instances -> Bag]
<1>1. w.active \in Bag /\ w.runs \in Seq(Nodes)
  BY DEF WalkType
<1>2. [n \in Nodes |-> calls[i][n] + CountIn(w.runs, n)] \in Bag
  <2>1. \A n \in Nodes : calls[i][n] \in Nat /\ CountIn(w.runs, n) \in Nat
    BY <1>1, CountInType DEF TypeOK, Bag
  <2> QED BY <2>1 DEF Bag
<1> QED BY <1>1, <1>2 DEF Settle, ExecuteCalls, TypeOK

LEMMA NoTxType == NoTx \in TxType /\ EmptyBag \in Bag
<1> DEFINE i0 == CHOOSE i \in Instances : TRUE
           w0 == Walk(<<>>, EmptyBag)
<1>1. EmptyBag \in Bag
  BY DEF EmptyBag, Bag
<1>2. w0 \in WalkType
  <2>1. <<>> \in Seq(Nodes)
    OBVIOUS
  <2> QED BY <1>1, <2>1, WalkTyped
<1>3. i0 \in Instances /\ SeedDefinition \in Definitions
  BY ConstantsAssumption
<1>4. NoTx = [op |-> "idle", inst |-> i0, ref |-> 0, cmd |-> 0, key |-> NoKey,
              def |-> SeedDefinition, holds |-> {}, walk |-> w0]
  BY DEF NoTx
<1> HIDE DEF i0, w0
<1>5. NoTx \in TxType
  BY <1>2, <1>3, <1>4 DEF TxType
<1> QED BY <1>1, <1>5

(* Each field a handler fills in. *)
LEMMA TxFields ==
    ASSUME NEW c \in Clients, tx \in [Clients -> TxType]
    PROVE  /\ tx[c] \in TxType
           /\ tx[c].inst \in Instances /\ tx[c].walk \in WalkType /\ tx[c].def \in Definitions
           /\ tx[c].ref \in Nat /\ tx[c].cmd \in Nat /\ tx[c].key \in Keys \cup {NoKey}
           /\ tx[c].holds \subseteq Nodes
           /\ tx[c].walk.stops \in Seq(Nodes) /\ tx[c].walk.parks \in Seq(Nodes)
           /\ tx[c].walk.active \in Bag /\ tx[c].walk.work \in Seq(Nodes)
BY DEF TxType, WalkType

(* What an open transaction refers to is there: a handler's task,          *)
(* execution and command rows are never deleted under it.                  *)
RefOK(t) ==
    /\ t.op \in {"approve", "reject"} => t.ref \in DOMAIN tasks
    /\ t.op \in {"extRead", "extCmd", "ext"} => t.ref \in DOMAIN exts
    /\ t.cmd = 0 \/ t.cmd \in DOMAIN cmds

HasLatest == \E v \in versions : \A u \in versions : u.no <= v.no

(* TypeOK alone is not inductive: enterExternalReference and actOnTask use *)
(* rows they looked up earlier in the transaction.                         *)
TypeInv == TypeOK /\ (\A c \in Clients : RefOK(tx[c])) /\ HasLatest

RowsGrow ==
    /\ DOMAIN tasks \subseteq DOMAIN tasks'
    /\ DOMAIN exts \subseteq DOMAIN exts'
    /\ DOMAIN cmds \subseteq DOMAIN cmds'

LEMMA RefGrow ==
    ASSUME NEW t, RefOK(t), RowsGrow PROVE RefOK(t)'
BY DEF RefOK, RowsGrow

LEMMA NoTxRef == RefOK(NoTx)
BY DEF RefOK, NoTx

LEMMA EndOK ==
    ASSUME TypeInv, NEW c \in Clients, End(c), RowsGrow
    PROVE  (tx \in [Clients -> TxType] /\ \A b \in Clients : RefOK(tx[b]))'
<1>1. tx' = [tx EXCEPT ![c] = NoTx]
  BY DEF End
<1>2. (tx \in [Clients -> TxType])'
  BY <1>1, NoTxType DEF TypeInv, TypeOK
<1>3. ASSUME NEW b \in Clients PROVE RefOK(tx[b])'
  <2>1. CASE b = c
    <3>1. tx'[b] = NoTx
      BY <1>1, <2>1 DEF TypeInv, TypeOK
    <3> QED BY <3>1 DEF RefOK, NoTx
  <2>2. CASE b # c
    <3>1. tx'[b] = tx[b]
      BY <1>1, <2>2 DEF TypeInv, TypeOK
    <3>2. RefOK(tx[b])
      BY DEF TypeInv
    <3> QED BY <3>1, <3>2 DEF RefOK, RowsGrow
  <2> QED BY <2>1, <2>2
<1> QED BY <1>2, <1>3

(* A step that only changes the handler's own memory. *)
LEMMA OwnStep ==
    ASSUME TypeInv, NEW c \in Clients, NEW t \in TxType, RefOK(t),
           tx' = [tx EXCEPT ![c] = t], UNCHANGED <<rows, applied>>
    PROVE  TypeInv'
<1>1. TypeOK'
  BY DEF TypeInv, TypeOK, rows
<1>2. ASSUME NEW b \in Clients PROVE RefOK(tx[b])'
  <2>1. tx'[b] = t \/ tx'[b] = tx[b]
    BY DEF TypeInv, TypeOK
  <2>2. RefOK(tx[b])
    BY DEF TypeInv
  <2> QED BY <2>1, <2>2 DEF RefOK, rows
<1>3. HasLatest'
  BY DEF TypeInv, HasLatest, rows
<1> QED BY <1>1, <1>2, <1>3 DEF TypeInv

LEMMA RecordType ==
    ASSUME TypeOK, NEW k \in Keys \cup {NoKey}, Record(k)
    PROVE  (log \subseteq Keys)' /\ (applied \in [Keys -> Nat])'
BY DEF TypeOK, Record

LEMMA TypeNext == TypeInv /\ [Next]_vars => TypeInv'
<1> SUFFICES ASSUME TypeInv, [Next]_vars PROVE TypeInv'
  OBVIOUS
<1>0. TypeOK
  BY DEF TypeInv
<1>1. ASSUME NEW c \in Clients, NEW i \in Instances, NEW k \in Keys \cup {NoKey},
             NEW h \in SUBSET Nodes, CreateBegin(c, i, k, h)
      PROVE  TypeInv'
  <2> DEFINE t == [NoTx EXCEPT !.op = "create", !.inst = i, !.key = k, !.def = def, !.holds = h,
                               !.walk = Walk(NextTarget(def, Start, h), EmptyBag)]
  <2>1. Walk(NextTarget(def, Start, h), EmptyBag) \in WalkType
    BY <1>0, NextTargetType, WalkTyped, NoTxType, ConstantsAssumption DEF TypeOK
  <2>2. t \in TxType
    BY <1>0, <2>1, NoTxType DEF TxType, TypeOK
  <2>3. RefOK(t)
    <3>1. t.op = "create" /\ t.cmd = 0
      BY NoTxType DEF TxType, NoTx
    <3> HIDE DEF t
    <3> QED BY <3>1 DEF RefOK
  <2> QED BY <1>1, <2>2, <2>3, OwnStep DEF CreateBegin, Begin
<1>2. ASSUME NEW c \in Clients, NEW j \in DOMAIN tasks, NEW k \in Keys \cup {NoKey},
             NEW approve \in BOOLEAN, ActBegin(c, j, k, approve)
      PROVE  TypeInv'
  <2> DEFINE i == tasks[j].inst
             n == tasks[j].node
             w == Walk(NextTarget(def, n, holds[i]), Take(active[i], n))
             t == [NoTx EXCEPT !.op = IF approve THEN "approve" ELSE "reject",
                               !.inst = i, !.ref = j, !.key = k, !.def = def, !.holds = holds[i],
                               !.walk = IF approve THEN w ELSE @]
  <2>1. tasks[j] \in RowType({"open", "approved", "rejected"}) /\ j \in Nat
    BY <1>0 DEF TypeOK
  <2>2. i \in Instances /\ n \in Nodes
    BY <2>1 DEF RowType
  <2>3. w \in WalkType
    BY <1>0, <2>2, NextTargetType, WalkTyped, BagOps DEF TypeOK
  <2> HIDE DEF w, i, n
  <2>4. t \in TxType
    BY <1>0, <2>1, <2>2, <2>3, NoTxType DEF TxType, TypeOK
  <2>5. RefOK(t)
    <3>1. t.op \in {"approve", "reject"} /\ t.cmd = 0 /\ t.ref = j
      BY NoTxType DEF TxType, NoTx
    <3> HIDE DEF t
    <3> QED BY <3>1 DEF RefOK
  <2> QED BY <1>2, <2>4, <2>5, OwnStep DEF ActBegin, Begin, w, i, n
<1>3. ASSUME NEW c \in Clients, NEW e \in DOMAIN exts, ExtBegin(c, e) PROVE TypeInv'
  <2> DEFINE t == [NoTx EXCEPT !.op = "extRead", !.inst = exts[e].inst, !.ref = e]
  <2>1. exts[e] \in RowType({"pending", "completed"}) /\ e \in Nat
    BY <1>0 DEF TypeOK
  <2>2. t \in TxType
    BY <2>1, NoTxType DEF TxType, RowType
  <2>3. RefOK(t)
    <3>1. t.op = "extRead" /\ t.cmd = 0 /\ t.ref = e
      BY NoTxType DEF TxType, NoTx
    <3> HIDE DEF t
    <3> QED BY <3>1 DEF RefOK
  <2> QED BY <1>3, <2>2, <2>3, OwnStep DEF ExtBegin, Begin
<1>4. ASSUME NEW c \in Clients, ExtLock(c) PROVE TypeInv'
  <2> DEFINE k == NewestCommand(exts[tx[c].ref].node)
             t == [tx[c] EXCEPT !.op = "extCmd", !.cmd = k]
  <2>0. tx[c] \in TxType /\ RefOK(tx[c]) /\ tx[c].op = "extRead"
    BY <1>4, <1>0 DEF TypeOK, TypeInv, ExtLock
  <2>1. k \in Nat /\ (k = 0 \/ k \in DOMAIN cmds)
    <3> SUFFICES ASSUME NEW n PROVE NewestCommand(n) = 0 \/ NewestCommand(n) \in DOMAIN cmds
      BY <1>0 DEF TypeOK
    <3> QED BY DEF NewestCommand
  <2> HIDE DEF k
  <2>2. t \in TxType
    BY <2>0, <2>1 DEF TxType
  <2>3. tx' = [tx EXCEPT ![c] = t]
    BY <1>0, <1>4 DEF ExtLock, TypeOK, TxType, k
  <2>4. RefOK(t)
    BY <2>0, <2>1 DEF TxType, RefOK
  <2> QED BY <1>4, <2>2, <2>3, <2>4, OwnStep DEF ExtLock
<1>5. ASSUME NEW c \in Clients, ExtReadInstance(c) PROVE TypeInv'
  <2> DEFINE i == tx[c].inst
             n == exts[tx[c].ref].node
             w == Walk(NextTarget(def, n, holds[i]), Take(active[i], n))
             t == [tx[c] EXCEPT !.op = "ext", !.def = def, !.holds = holds[i], !.walk = w]
  <2>0. tx[c] \in TxType /\ RefOK(tx[c]) /\ tx[c].op = "extCmd"
    BY <1>5, <1>0 DEF TypeOK, TypeInv, ExtReadInstance
  <2>1. exts[tx[c].ref] \in RowType({"pending", "completed"})
    BY <1>0, <2>0 DEF TypeOK, RefOK
  <2>2. i \in Instances /\ n \in Nodes
    BY <2>0, <2>1 DEF RowType, TxType
  <2>3. w \in WalkType
    BY <1>0, <2>2, NextTargetType, WalkTyped, BagOps DEF TypeOK
  <2>4. tx' = [tx EXCEPT ![c] = t]
    BY <1>0, <1>5 DEF ExtReadInstance, TypeOK, TxType
  <2> HIDE DEF w, i, n
  <2>5. t \in TxType
    BY <1>0, <2>0, <2>2, <2>3 DEF TxType, TypeOK
  <2>6. RefOK(t)
    BY <2>0 DEF TxType, RefOK
  <2> QED BY <1>5, <2>4, <2>5, <2>6, OwnStep DEF ExtReadInstance
<1>6. ASSUME NEW c \in Clients, AdvanceMulti(c) PROVE TypeInv'
  <2> DEFINE w == WalkStep(tx[c].def, tx[c].holds, tx[c].walk)
             t == [tx[c] EXCEPT !.walk = w]
  <2>0. tx[c] \in TxType /\ RefOK(tx[c])
    BY <1>0 DEF TypeOK, TypeInv
  <2>1. tx[c].walk \in WalkType /\ tx[c].walk.work # <<>> /\ tx[c].def \in Definitions
    BY <1>6, <2>0 DEF AdvanceMulti, WalkDone, TxType
  <2>2. w \in WalkType
    BY <2>1, WalkStepType
  <2>3. tx' = [tx EXCEPT ![c] = t]
    BY <1>0, <1>6 DEF AdvanceMulti, TypeOK, TxType
  <2> HIDE DEF w
  <2>4. t \in TxType
    BY <2>0, <2>2 DEF TxType
  <2>5. RefOK(t)
    BY <2>0 DEF TxType, RefOK
  <2> QED BY <1>6, <2>3, <2>4, <2>5, OwnStep DEF AdvanceMulti
<1>7. ASSUME NEW c \in Clients, CreateCommit(c) PROVE TypeInv'
  <2> DEFINE t == tx[c]
  <2>0. /\ Settle(t.inst, t.walk) /\ Record(t.key) /\ End(c) /\ UNCHANGED <<def, versions>>
        /\ holds' = [holds EXCEPT ![t.inst] = t.holds]
        /\ tasks' = tasks \o Rows(t.inst, t.walk.stops, "open")
        /\ exts' = exts \o Rows(t.inst, t.walk.parks, "pending")
        /\ cmds' = cmds \o Rows(t.inst, t.walk.parks, "manual_pending")
    BY <1>7 DEF CreateCommit, MaterializeStops, CreateExternals
  <2>1. /\ t.inst \in Instances /\ t.walk \in WalkType /\ t.key \in Keys \cup {NoKey}
        /\ t.holds \subseteq Nodes /\ t.walk.stops \in Seq(Nodes) /\ t.walk.parks \in Seq(Nodes)
    BY <1>0, TxFields DEF TypeOK
  <2>2. /\ (tasks \in Seq(RowType({"open", "approved", "rejected"})))'
        /\ (exts \in Seq(RowType({"pending", "completed"})))'
        /\ (cmds \in Seq(RowType({"manual_pending", "manual_completed"})))'
        /\ RowsGrow
    <3> HIDE DEF t
    <3>0. /\ tasks \in Seq(RowType({"open", "approved", "rejected"}))
          /\ exts \in Seq(RowType({"pending", "completed"}))
          /\ cmds \in Seq(RowType({"manual_pending", "manual_completed"}))
      BY <1>0 DEF TypeOK
    <3>1. (tasks \in Seq(RowType({"open", "approved", "rejected"})))' /\ DOMAIN tasks \subseteq DOMAIN tasks'
      BY <2>0, <2>1, <3>0, AddRows
    <3>2. (exts \in Seq(RowType({"pending", "completed"})))' /\ DOMAIN exts \subseteq DOMAIN exts'
      BY <2>0, <2>1, <3>0, AddRows
    <3>3. /\ (cmds \in Seq(RowType({"manual_pending", "manual_completed"})))'
          /\ DOMAIN cmds \subseteq DOMAIN cmds'
      BY <2>0, <2>1, <3>0, AddRows
    <3> QED BY <3>1, <3>2, <3>3 DEF RowsGrow
  <2>3. (holds \in [Instances -> SUBSET Nodes])'
    BY <1>0, <2>0, <2>1 DEF TypeOK
  <2> HIDE DEF t
  <2> QED BY <1>0, <2>0, <2>1, <2>2, <2>3, SettleType, RecordType, EndOK DEF TypeInv, TypeOK, HasLatest
<1>8. ASSUME NEW c \in Clients, ApproveCommit(c) PROVE TypeInv'
  <2> DEFINE t == tx[c]
             ts == [tasks EXCEPT ![t.ref].status = "approved"]
  <2>0. /\ Settle(t.inst, t.walk) /\ Record(t.key) /\ End(c) /\ UNCHANGED <<def, versions, holds>>
        /\ t.op = "approve"
        /\ tasks' = ts \o Rows(t.inst, t.walk.stops, "open")
        /\ exts' = exts \o Rows(t.inst, t.walk.parks, "pending")
        /\ cmds' = cmds \o Rows(t.inst, t.walk.parks, "manual_pending")
    BY <1>8 DEF ApproveCommit, MaterializeStops, CreateExternals
  <2>1. /\ t.inst \in Instances /\ t.walk \in WalkType /\ t.key \in Keys \cup {NoKey}
        /\ t.walk.stops \in Seq(Nodes) /\ t.walk.parks \in Seq(Nodes)
    BY <1>0, TxFields DEF TypeOK
  <2>2. t.ref \in DOMAIN tasks
    BY <2>0 DEF TypeInv, RefOK
  <2>3. ts \in Seq(RowType({"open", "approved", "rejected"})) /\ DOMAIN ts = DOMAIN tasks
    BY <1>0, <2>2, StatusUpdate DEF TypeOK
  <2> HIDE DEF t, ts
  <2>4. /\ (tasks \in Seq(RowType({"open", "approved", "rejected"})))'
        /\ DOMAIN tasks \subseteq DOMAIN tasks'
    BY <2>0, <2>1, <2>3, AddRows
  <2>5. /\ (exts \in Seq(RowType({"pending", "completed"})))'
        /\ (cmds \in Seq(RowType({"manual_pending", "manual_completed"})))'
        /\ RowsGrow
    <3>1. exts \in Seq(RowType({"pending", "completed"})) /\ cmds \in Seq(RowType({"manual_pending", "manual_completed"}))
      BY <1>0 DEF TypeOK
    <3>2. (exts \in Seq(RowType({"pending", "completed"})))' /\ DOMAIN exts \subseteq DOMAIN exts'
      BY <2>0, <2>1, <3>1, AddRows
    <3>3. /\ (cmds \in Seq(RowType({"manual_pending", "manual_completed"})))'
          /\ DOMAIN cmds \subseteq DOMAIN cmds'
      BY <2>0, <2>1, <3>1, AddRows
    <3> QED BY <2>4, <3>2, <3>3 DEF RowsGrow
  <2> QED BY <1>0, <2>0, <2>1, <2>4, <2>5, SettleType, RecordType, EndOK DEF TypeInv, TypeOK, HasLatest
<1>9. ASSUME NEW c \in Clients, RejectCommit(c) PROVE TypeInv'
  <2> DEFINE t == tx[c]
  <2>0. /\ Record(t.key) /\ End(c) /\ UNCHANGED <<def, versions, active, holds, exts, cmds, calls>>
        /\ t.op = "reject"
        /\ status' = [status EXCEPT ![t.inst] = "rejected"]
        /\ tasks' = [tasks EXCEPT ![t.ref].status = "rejected"]
    BY <1>9 DEF RejectCommit
  <2>1. t.inst \in Instances /\ t.key \in Keys \cup {NoKey}
    BY <1>0, TxFields DEF TypeOK
  <2>2. t.ref \in DOMAIN tasks
    BY <2>0 DEF TypeInv, RefOK
  <2>3. (tasks \in Seq(RowType({"open", "approved", "rejected"})))' /\ DOMAIN tasks' = DOMAIN tasks
    BY <1>0, <2>0, <2>2, StatusUpdate DEF TypeOK
  <2>4. RowsGrow
    BY <2>0, <2>3 DEF RowsGrow
  <2>5. (status \in [Instances -> {"none", "running", "completed", "rejected"}])'
    BY <1>0, <2>0, <2>1 DEF TypeOK
  <2> HIDE DEF t
  <2> QED BY <1>0, <2>0, <2>1, <2>3, <2>4, <2>5, RecordType, EndOK DEF TypeInv, TypeOK, HasLatest
<1>10. ASSUME NEW c \in Clients, ExtCommit(c) PROVE TypeInv'
  <2> DEFINE t == tx[c]
             es == [exts EXCEPT ![t.ref].status = "completed"]
             cs == IF t.cmd = 0 THEN cmds ELSE [cmds EXCEPT ![t.cmd].status = "manual_completed"]
  <2>0. /\ Settle(t.inst, t.walk) /\ End(c) /\ UNCHANGED <<def, versions, holds, log, applied>>
        /\ t.op = "ext"
        /\ tasks' = tasks \o Rows(t.inst, t.walk.stops, "open")
        /\ exts' = es \o Rows(t.inst, t.walk.parks, "pending")
        /\ cmds' = cs \o Rows(t.inst, t.walk.parks, "manual_pending")
    BY <1>10 DEF ExtCommit, MaterializeStops, CreateExternals
  <2>1. /\ t.inst \in Instances /\ t.walk \in WalkType
        /\ t.walk.stops \in Seq(Nodes) /\ t.walk.parks \in Seq(Nodes)
    BY <1>0, TxFields DEF TypeOK
  <2>2. t.ref \in DOMAIN exts /\ (t.cmd = 0 \/ t.cmd \in DOMAIN cmds)
    BY <2>0 DEF TypeInv, RefOK
  <2>3. es \in Seq(RowType({"pending", "completed"})) /\ DOMAIN es = DOMAIN exts
    BY <1>0, <2>2, StatusUpdate DEF TypeOK
  <2>4. cs \in Seq(RowType({"manual_pending", "manual_completed"})) /\ DOMAIN cs = DOMAIN cmds
    <3>1. CASE t.cmd = 0
      BY <1>0, <3>1 DEF TypeOK
    <3>2. CASE t.cmd # 0
      BY <1>0, <2>2, <3>2, StatusUpdate DEF TypeOK
    <3> QED BY <3>1, <3>2
  <2> HIDE DEF t, es, cs
  <2>5. (exts \in Seq(RowType({"pending", "completed"})))' /\ DOMAIN exts \subseteq DOMAIN exts'
    BY <2>0, <2>1, <2>3, AddRows
  <2>6. /\ (cmds \in Seq(RowType({"manual_pending", "manual_completed"})))'
        /\ DOMAIN cmds \subseteq DOMAIN cmds'
    BY <2>0, <2>1, <2>4, AddRows
  <2>7. (tasks \in Seq(RowType({"open", "approved", "rejected"})))' /\ RowsGrow
    <3>1. tasks \in Seq(RowType({"open", "approved", "rejected"}))
      BY <1>0 DEF TypeOK
    <3>2. (tasks \in Seq(RowType({"open", "approved", "rejected"})))' /\ DOMAIN tasks \subseteq DOMAIN tasks'
      BY <2>0, <2>1, <3>1, AddRows
    <3> QED BY <2>5, <2>6, <3>2 DEF RowsGrow
  <2> QED BY <1>0, <2>0, <2>1, <2>5, <2>6, <2>7, SettleType, EndOK DEF TypeInv, TypeOK, HasLatest
<1>11. ASSUME NEW c \in Clients, NEW d \in Definitions, PublishBegin(c, d) PROVE TypeInv'
  <2> DEFINE r == LatestVersion.no + 1
             t == [NoTx EXCEPT !.op = "publish", !.def = d, !.ref = r]
  <2>1. LatestVersion \in versions
    BY DEF LatestVersion, TypeInv, HasLatest
  <2>2. r \in Nat
    BY <1>0, <2>1 DEF TypeOK
  <2> HIDE DEF r
  <2>3. t \in TxType
    BY <2>2, NoTxType DEF TxType
  <2>4. RefOK(t)
    <3>1. t.op = "publish" /\ t.cmd = 0
      BY NoTxType DEF TxType, NoTx
    <3> HIDE DEF t
    <3> QED BY <3>1 DEF RefOK
  <2> QED BY <1>11, <2>3, <2>4, OwnStep DEF PublishBegin, Begin, r
<1>12. ASSUME NEW c \in Clients, PublishCommit(c) PROVE TypeInv'
  <2> DEFINE t == tx[c]
             v == [no |-> t.ref, def |-> t.def]
  <2>0. /\ versions' = versions \cup {v} /\ def' = t.def /\ End(c)
        /\ UNCHANGED <<status, active, holds, tasks, exts, cmds, calls, log, applied>>
    BY <1>12 DEF PublishCommit
  <2>1. t.ref \in Nat /\ t.def \in Definitions
    BY <1>0, TxFields DEF TypeOK
  <2>2. v \in [no : Nat, def : Definitions] /\ v.no \in Nat
    BY <2>1
  <2>3. RowsGrow
    BY <2>0 DEF RowsGrow
  <2> HIDE DEF t, v
  <2>4. HasLatest'
    <3>1. PICK u \in versions : \A x \in versions : x.no <= u.no
      BY DEF TypeInv, HasLatest
    <3>2. \A x \in versions : x.no \in Nat
      BY <1>0 DEF TypeOK
    <3>3. CASE u.no <= v.no
      <4>1. \A x \in versions' : x.no <= v.no
        BY <2>0, <2>2, <3>1, <3>2, <3>3
      <4> QED BY <2>0, <4>1 DEF HasLatest
    <3>4. CASE v.no <= u.no
      <4>1. \A x \in versions' : x.no <= u.no
        BY <2>0, <3>1, <3>4
      <4> QED BY <2>0, <3>1, <4>1 DEF HasLatest
    <3> QED BY <2>2, <3>2, <3>3, <3>4
  <2> QED BY <1>0, <2>0, <2>1, <2>2, <2>3, <2>4, EndOK DEF TypeInv, TypeOK
<1>13. ASSUME NEW c \in Clients, Rollback(c) PROVE TypeInv'
  BY <1>13, NoTxType, NoTxRef, OwnStep DEF Rollback, End
<1>14. ASSUME Restart PROVE TypeInv'
  <2>1. TypeOK'
    BY <1>0, <1>14, NoTxType, ConstantsAssumption DEF Restart, TypeOK
  <2>2. ASSUME NEW c \in Clients PROVE RefOK(tx[c])'
    <3>1. tx'[c] = NoTx
      BY <1>14 DEF Restart
    <3> QED BY <3>1 DEF RefOK, NoTx
  <2> QED BY <1>14, <2>1, <2>2 DEF Restart, TypeInv, HasLatest
<1>15. ASSUME UNCHANGED vars PROVE TypeInv'
  BY <1>0, <1>15 DEF vars, rows, TypeInv, TypeOK, RefOK, HasLatest
<1>16. CASE Next
  <2>1. ASSUME NEW c \in Clients, Handler(c) PROVE TypeInv'
    <3>1. ASSUME NEW i \in Instances, NEW k \in Keys \cup {NoKey},
                 NEW h \in SUBSET {n \in Nodes : Kind[def][n] = "condition"}, CreateBegin(c, i, k, h)
          PROVE  TypeInv'
      <4>1. h \in SUBSET Nodes
        OBVIOUS
      <4> QED BY <1>1, <3>1, <4>1
    <3> QED BY <2>1, <3>1, <1>2, <1>3, <1>4, <1>5, <1>6, <1>7, <1>8, <1>9, <1>10, <1>11, <1>12, <1>13
           DEF Handler
  <2> QED BY <1>14, <1>16, <2>1 DEF Next
<1> QED BY <1>15, <1>16

LEMMA TypeInit == Init => TypeInv
<1> SUFFICES ASSUME Init PROVE TypeInv
  OBVIOUS
<1>1. Cardinality(Seeded) \in Nat
  BY ConstantsAssumption, FS_CardinalityType
<1>2. tasks \in Seq(RowType({"open", "approved", "rejected"}))
  <2> DEFINE m == Cardinality(Seeded)
  <2> HIDE DEF m
  <2>1. PICK seq \in [1 .. m -> Seeded] :
           tasks = [k \in DOMAIN seq |-> [inst |-> seq[k], node |-> SeedNode, status |-> "open"]]
    BY DEF Init, m
  <2>2. m \in Nat
    BY <1>1 DEF m
  <2>3. \A k \in 1 .. m : [inst |-> seq[k], node |-> SeedNode, status |-> "open"]
                             \in RowType({"open", "approved", "rejected"})
    BY ConstantsAssumption DEF RowType
  <2> QED BY <2>1, <2>2, <2>3, IsASeq
<1>3. active \in [Instances -> Bag] /\ calls \in [Instances -> Bag]
  BY NoTxType, BagOps, ConstantsAssumption DEF Init
<1>4. TypeOK
  <2>1. versions \subseteq [no : Nat, def : Definitions] /\ def \in Definitions
    BY ConstantsAssumption DEF Init
  <2>2. exts \in Seq(RowType({"pending", "completed"})) /\ cmds \in Seq(RowType({"manual_pending", "manual_completed"}))
    BY DEF Init
  <2>3. tx \in [Clients -> TxType]
    BY NoTxType DEF Init
  <2> QED BY <1>2, <1>3, <2>1, <2>2, <2>3, ConstantsAssumption DEF Init, TypeOK
<1>5. ASSUME NEW c \in Clients PROVE RefOK(tx[c])
  BY NoTxRef DEF Init
<1>6. HasLatest
  BY DEF Init, HasLatest
<1> QED BY <1>4, <1>5, <1>6 DEF TypeInv

(* Every reachable state is well typed: the walk of advanceMulti keeps the *)
(* tokens a bag of nodes whatever the graph, and each handler writes rows  *)
(* of the schema's shape.                                                  *)
THEOREM TypeCorrect == Spec => []TypeOK
<1>1. TypeInv => TypeOK
  BY DEF TypeInv
<1> QED BY <1>1, TypeInit, TypeNext, PTL DEF Spec

-----------------------------------------------------------------------------
(* A command commits at most once under its idempotency key, for any       *)
(* number of handlers racing with the same key, of retries after a         *)
(* rollback and of restarts: findIdempotent turns late ones away and the   *)
(* unique index under recordCommand the ones that read before it.          *)
THEOREM KeyOnce == Spec => []KeyAppliedOnce
<1>1. Init => KeyAppliedOnce
  BY DEF Init, KeyAppliedOnce
<1>2. TypeInv /\ KeyAppliedOnce /\ [Next]_vars => KeyAppliedOnce'
  <2> SUFFICES ASSUME TypeInv, KeyAppliedOnce, [Next]_vars PROVE KeyAppliedOnce'
    OBVIOUS
  <2>0. applied \in [Keys -> Nat] /\ log \subseteq Keys
    BY DEF TypeInv, TypeOK
  <2>1. CASE UNCHANGED <<log, applied>>
    BY <2>1 DEF KeyAppliedOnce
  <2>2. ASSUME NEW k \in Keys \cup {NoKey}, ~Replayed(k), Record(k) PROVE KeyAppliedOnce'
    <3>1. CASE k = NoKey
      BY <2>2, <3>1 DEF Record, KeyAppliedOnce
    <3>2. CASE k \in Keys
      <4>0. k # NoKey
        BY <3>2, ConstantsAssumption
      <4>1. log' = log \cup {k} /\ applied' = [applied EXCEPT ![k] = @ + 1]
        BY <2>2, <4>0 DEF Record
      <4>2. applied[k] = 0
        BY <2>0, <2>2, <3>2 DEF Replayed, KeyAppliedOnce
      <4> QED BY <2>0, <3>2, <4>1, <4>2 DEF KeyAppliedOnce
    <3> QED BY <2>2, <3>1, <3>2
  <2>3. ASSUME NEW c \in Clients, CreateCommit(c) \/ ApproveCommit(c) \/ RejectCommit(c)
        PROVE  KeyAppliedOnce'
    <3>1. tx[c].key \in Keys \cup {NoKey}
      BY TxFields DEF TypeInv, TypeOK
    <3>2. ~Replayed(tx[c].key) /\ Record(tx[c].key)
      BY <2>3 DEF CreateCommit, ApproveCommit, RejectCommit
    <3> QED BY <2>2, <3>1, <3>2
  <2>4. CASE Restart
    BY <2>1, <2>4 DEF Restart
  <2>5. ASSUME NEW c \in Clients, Handler(c) PROVE KeyAppliedOnce'
    BY <2>1, <2>3, <2>5 DEF Handler, rows, CreateBegin, ActBegin, ExtBegin, ExtLock, ExtReadInstance,
       AdvanceMulti, ExtCommit, PublishBegin, PublishCommit, Rollback
  <2>6. CASE UNCHANGED vars
    BY <2>1, <2>6 DEF vars, rows
  <2> QED BY <2>4, <2>5, <2>6 DEF Next
<1> QED BY <1>1, <1>2, TypeInit, TypeNext, PTL DEF Spec

(* However approvals, rejections and external references interleave, the   *)
(* status of an instance and its tokens agree, as long as start-up seeding *)
(* does not rewrite the status of an instance.                             *)
THEOREM StatusAgrees ==
    ASSUME Seeded = {} \/ ~MayRestart
    PROVE  Spec => []StatusMatchesTokens
<1>1. Init => StatusMatchesTokens
  <2> SUFFICES ASSUME Init, NEW i \in Instances
               PROVE  /\ status[i] = "completed" => active[i] = EmptyBag
                      /\ status[i] = "running" => active[i] # EmptyBag
    BY DEF StatusMatchesTokens
  <2>1. CASE i \in Seeded
    <3>1. active[i] = Put(EmptyBag, SeedNode) /\ status[i] = "running"
      BY <2>1 DEF Init
    <3>2. active[i][SeedNode] = 1 /\ EmptyBag[SeedNode] = 0
      BY <3>1, ConstantsAssumption DEF Put, EmptyBag
    <3> QED BY <3>1, <3>2
  <2>2. CASE i \notin Seeded
    BY <2>2 DEF Init
  <2> QED BY <2>1, <2>2
<1>2. TypeInv /\ StatusMatchesTokens /\ [Next]_vars => StatusMatchesTokens'
  <2> SUFFICES ASSUME TypeInv, StatusMatchesTokens, [Next]_vars PROVE StatusMatchesTokens'
    OBVIOUS
  <2>0. status \in [Instances -> {"none", "running", "completed", "rejected"}] /\ active \in [Instances -> Bag]
    BY DEF TypeInv, TypeOK
  <2>1. CASE UNCHANGED <<status, active>>
    BY <2>1 DEF StatusMatchesTokens
  <2>2. ASSUME NEW c \in Clients, Settle(tx[c].inst, tx[c].walk) PROVE StatusMatchesTokens'
    <3> DEFINE a == tx[c].walk.active
               j == tx[c].inst
    <3>1. /\ status' = [status EXCEPT ![j] = IF a = EmptyBag THEN "completed" ELSE "running"]
          /\ active' = [active EXCEPT ![j] = a]
      BY <2>2 DEF Settle
    <3> HIDE DEF a, j
    <3> QED BY <2>0, <3>1 DEF StatusMatchesTokens
  <2>3. ASSUME NEW c \in Clients, RejectCommit(c) PROVE StatusMatchesTokens'
    BY <2>0, <2>3 DEF RejectCommit, StatusMatchesTokens
  <2>4. CASE Restart
    <3>1. Seeded = {}
      BY <2>4 DEF Restart
    <3>2. UNCHANGED <<status, active>>
      BY <2>0, <2>4, <3>1 DEF Restart
    <3> QED BY <2>1, <3>2
  <2>5. ASSUME NEW c \in Clients, Handler(c) PROVE StatusMatchesTokens'
    BY <2>1, <2>2, <2>3, <2>5 DEF Handler, rows, CreateBegin, ActBegin, ExtBegin, ExtLock,
       ExtReadInstance, AdvanceMulti, CreateCommit, ApproveCommit, ExtCommit, PublishBegin,
       PublishCommit, Rollback
  <2>6. CASE UNCHANGED vars
    BY <2>1, <2>6 DEF vars, rows
  <2> QED BY <2>4, <2>5, <2>6 DEF Next
<1> QED BY <1>1, <1>2, TypeInit, TypeNext, PTL DEF Spec

-----------------------------------------------------------------------------
(* Joins. *)

JoinOK(b) == \A n \in Nodes : Kind[SeedDefinition][n] = "join"
                                 => b[n] = 0 \/ b[n] < Incoming(SeedDefinition, n)

(* One turn of the walk leaves no join full: the token that would fill it  *)
(* fires it.                                                               *)
LEMMA WalkStepJoin ==
    ASSUME NEW h, NEW w \in WalkType, w.work # <<>>, JoinOK(w.active)
    PROVE  JoinOK(WalkStep(SeedDefinition, h, w).active)
<1> DEFINE d == SeedDefinition
           n == Head(w.work)
           k == Kind[d][n]
           on(ts) == [w EXCEPT !.work = Tail(@) \o ts, !.steps = @ + 1]
           out == FirstTarget(Outs[d][n])
           parked == Put(w.active, n)
           v == WalkStep(d, h, w)
<1>1. n \in Nodes /\ w.active \in Bag /\ d \in Definitions
  BY ConstantsAssumption DEF WalkType
<1>2. ASSUME NEW ts PROVE on(ts).active = w.active
  BY DEF WalkType
<1>3. CASE k \in {"stop", "external"}
  <2>1. v.active = parked
    BY <1>3 DEF WalkStep, WalkType
  <2>2. k # "join"
    BY <1>3
  <2>3. \A m \in Nodes : m # n => parked[m] = w.active[m]
    BY <1>1, BagOps
  <2> HIDE DEF parked
  <2> QED BY <2>1, <2>2, <2>3 DEF JoinOK
<1>4. CASE k = "join" /\ parked[n] >= JoinNeeds(d, n)
  <2>1. v.active = [w.active EXCEPT ![n] = 0]
    BY <1>4 DEF WalkStep, WalkType
  <2> QED BY <1>1, <2>1 DEF JoinOK, Bag
<1>5. CASE k = "join" /\ ~(parked[n] >= JoinNeeds(d, n))
  <2>1. v.active = parked
    BY <1>5 DEF WalkStep, WalkType
  <2>2. parked[n] \in Nat /\ parked[n] >= 1 /\ Incoming(d, n) \in Nat
    <3>1. parked[n] = w.active[n] + 1
      BY <1>1, BagOps
    <3>2. w.active[n] \in Nat
      BY <1>1 DEF Bag
    <3>3. Incoming(d, n) \in Nat
      BY <1>1, GraphAssumption
    <3> QED BY <3>1, <3>2, <3>3
  <2>3. parked[n] < Incoming(d, n)
    BY <1>5, <2>2 DEF JoinNeeds
  <2>4. \A m \in Nodes : m # n => parked[m] = w.active[m]
    BY <1>1, BagOps
  <2> HIDE DEF parked
  <2> QED BY <2>1, <2>3, <2>4 DEF JoinOK
<1>6. CASE k \notin {"stop", "external", "join"}
  <2>1. v.active = w.active
    BY <1>2, <1>6 DEF WalkStep, WalkType
  <2> QED BY <2>1
<1> QED BY <1>3, <1>4, <1>5, <1>6

LEMMA TakeJoin ==
    ASSUME NEW b \in Bag, NEW n \in Nodes, JoinOK(b) PROVE JoinOK(Take(b, n))
<1>1. \A m \in Nodes : Take(b, n)[m] \in Nat /\ Take(b, n)[m] <= b[m] /\ b[m] \in Nat
  BY DEF Take, Bag
<1>2. \A m \in Nodes : Incoming(SeedDefinition, m) \in Nat
  BY GraphAssumption, ConstantsAssumption
<1> QED BY <1>1, <1>2 DEF JoinOK

JoinInv == (\A i \in Instances : JoinOK(active[i])) /\ (\A c \in Clients : JoinOK(tx[c].walk.active))

LEMMA EmptyJoin == JoinOK(EmptyBag) /\ JoinOK(NoTx.walk.active)
<1>1. JoinOK(EmptyBag)
  BY DEF JoinOK, EmptyBag
<1>2. NoTx.walk.active = EmptyBag
  BY DEF NoTx, Walk
<1> QED BY <1>1, <1>2

LEMMA JoinAlways ==
    ASSUME Definitions = {SeedDefinition}
    PROVE  Spec => []JoinInv
<1>1. Init => JoinInv
  <2> SUFFICES ASSUME Init PROVE JoinInv
    OBVIOUS
  <2>1. ASSUME NEW i \in Instances PROVE JoinOK(active[i])
    <3>1. CASE i \in Seeded
      <4>1. active[i] = Put(EmptyBag, SeedNode)
        BY <3>1 DEF Init
      <4>2. \A m \in Nodes : m # SeedNode => active[i][m] = 0
        BY <4>1 DEF Put, EmptyBag
      <4>3. Kind[SeedDefinition][SeedNode] # "join"
        BY ConstantsAssumption
      <4> QED BY <4>2, <4>3 DEF JoinOK
    <3>2. CASE i \notin Seeded
      BY <3>2, EmptyJoin DEF Init
    <3> QED BY <3>1, <3>2
  <2>2. \A c \in Clients : JoinOK(tx[c].walk.active)
    BY EmptyJoin DEF Init
  <2> QED BY <2>1, <2>2 DEF JoinInv
<1>2. TypeInv /\ JoinInv /\ [Next]_vars => JoinInv'
  <2> SUFFICES ASSUME TypeInv, JoinInv, [Next]_vars PROVE JoinInv'
    OBVIOUS
  <2>0. TypeOK
    BY DEF TypeInv
  <2>a. ASSUME NEW c \in Clients, NEW t, tx' = [tx EXCEPT ![c] = t], JoinOK(t.walk.active), active' = active
        PROVE  JoinInv'
    <3>1. ASSUME NEW b \in Clients PROVE JoinOK(tx'[b].walk.active)
      <4>1. tx'[b] = t \/ tx'[b] = tx[b]
        BY <2>0, <2>a DEF TypeOK
      <4> QED BY <2>a, <4>1 DEF JoinInv
    <3> QED BY <2>a, <3>1 DEF JoinInv
  <2>b. ASSUME NEW c \in Clients, End(c), Settle(tx[c].inst, tx[c].walk) PROVE JoinInv'
    <3>1. active' = [active EXCEPT ![tx[c].inst] = tx[c].walk.active] /\ tx' = [tx EXCEPT ![c] = NoTx]
      BY <2>b DEF End, Settle
    <3>2. ASSUME NEW b \in Clients PROVE JoinOK(tx'[b].walk.active)
      <4>1. tx'[b] = NoTx \/ tx'[b] = tx[b]
        BY <2>0, <3>1 DEF TypeOK
      <4> QED BY <4>1, EmptyJoin DEF JoinInv
    <3>3. ASSUME NEW i \in Instances PROVE JoinOK(active'[i])
      <4>1. active'[i] = tx[c].walk.active \/ active'[i] = active[i]
        BY <2>0, <3>1 DEF TypeOK
      <4> QED BY <4>1 DEF JoinInv
    <3> QED BY <3>2, <3>3 DEF JoinInv
  <2>1. ASSUME NEW c \in Clients, NEW i \in Instances, NEW k, NEW h, CreateBegin(c, i, k, h) PROVE JoinInv'
    <3> DEFINE t == [NoTx EXCEPT !.op = "create", !.inst = i, !.key = k, !.def = def, !.holds = h,
                                 !.walk = Walk(NextTarget(def, Start, h), EmptyBag)]
    <3>1. tx' = [tx EXCEPT ![c] = t] /\ active' = active
      BY <2>1 DEF CreateBegin, Begin, rows
    <3>2. t.walk.active = EmptyBag
      BY NoTxType DEF TxType, Walk
    <3> HIDE DEF t
    <3> QED BY <2>a, <3>1, <3>2, EmptyJoin
  <2>2. ASSUME NEW c \in Clients, NEW j \in DOMAIN tasks, NEW k, NEW approve, ActBegin(c, j, k, approve)
        PROVE  JoinInv'
    <3> DEFINE i == tasks[j].inst
               n == tasks[j].node
               w == Walk(NextTarget(def, n, holds[i]), Take(active[i], n))
               t == [NoTx EXCEPT !.op = IF approve THEN "approve" ELSE "reject",
                                 !.inst = i, !.ref = j, !.key = k, !.def = def, !.holds = holds[i],
                                 !.walk = IF approve THEN w ELSE @]
    <3>0. i \in Instances /\ n \in Nodes
      <4>1. tasks[j] \in RowType({"open", "approved", "rejected"})
        BY <2>0 DEF TypeOK
      <4> QED BY <4>1 DEF RowType
    <3>1. tx' = [tx EXCEPT ![c] = t] /\ active' = active
      BY <2>2 DEF ActBegin, Begin, rows
    <3>2. w.active = Take(active[i], n)
      BY DEF Walk
    <3>3. JoinOK(w.active)
      BY <2>0, <3>0, <3>2, TakeJoin DEF JoinInv, TypeOK
    <3> HIDE DEF w, i, n
    <3>4. t.walk = w \/ t.walk = NoTx.walk
      BY NoTxType DEF TxType
    <3> HIDE DEF t
    <3> QED BY <2>a, <3>1, <3>3, <3>4, EmptyJoin
  <2>3. ASSUME NEW c \in Clients, NEW e, ExtBegin(c, e) PROVE JoinInv'
    <3> DEFINE t == [NoTx EXCEPT !.op = "extRead", !.inst = exts[e].inst, !.ref = e]
    <3>1. tx' = [tx EXCEPT ![c] = t] /\ active' = active
      BY <2>3 DEF ExtBegin, Begin, rows
    <3>2. t.walk = NoTx.walk
      BY NoTxType DEF TxType
    <3> HIDE DEF t
    <3> QED BY <2>a, <3>1, <3>2, EmptyJoin
  <2>4. ASSUME NEW c \in Clients, ExtLock(c) PROVE JoinInv'
    <3> DEFINE t == [tx[c] EXCEPT !.op = "extCmd", !.cmd = NewestCommand(exts[tx[c].ref].node)]
    <3>1. tx' = [tx EXCEPT ![c] = t] /\ active' = active
      BY <2>0, <2>4 DEF ExtLock, TypeOK, TxType, rows
    <3>2. t.walk = tx[c].walk
      BY <2>0 DEF TypeOK, TxType
    <3> HIDE DEF t
    <3> QED BY <2>a, <3>1, <3>2 DEF JoinInv
  <2>5. ASSUME NEW c \in Clients, ExtReadInstance(c) PROVE JoinInv'
    <3> DEFINE i == tx[c].inst
               n == exts[tx[c].ref].node
               w == Walk(NextTarget(def, n, holds[i]), Take(active[i], n))
               t == [tx[c] EXCEPT !.op = "ext", !.def = def, !.holds = holds[i], !.walk = w]
    <3>0. i \in Instances /\ n \in Nodes
      <4>1. tx[c].ref \in DOMAIN exts
        BY <2>5 DEF TypeInv, RefOK, ExtReadInstance
      <4>2. exts[tx[c].ref] \in RowType({"pending", "completed"})
        BY <2>0, <4>1 DEF TypeOK
      <4> QED BY <2>0, <4>2, TxFields DEF TypeOK, RowType
    <3>1. tx' = [tx EXCEPT ![c] = t] /\ active' = active
      BY <2>0, <2>5 DEF ExtReadInstance, TypeOK, TxType, rows
    <3>2. w.active = Take(active[i], n)
      BY DEF Walk
    <3>3. JoinOK(w.active)
      BY <2>0, <3>0, <3>2, TakeJoin DEF JoinInv, TypeOK
    <3> HIDE DEF w, i, n
    <3>4. t.walk = w
      BY <2>0 DEF TypeOK, TxType
    <3> HIDE DEF t
    <3> QED BY <2>a, <3>1, <3>3, <3>4
  <2>6. ASSUME NEW c \in Clients, AdvanceMulti(c) PROVE JoinInv'
    <3> DEFINE w == WalkStep(tx[c].def, tx[c].holds, tx[c].walk)
               t == [tx[c] EXCEPT !.walk = w]
    <3>0. tx[c].walk \in WalkType /\ tx[c].walk.work # <<>> /\ tx[c].def = SeedDefinition
      <4>1. tx[c].walk \in WalkType /\ tx[c].def \in Definitions
        BY <2>0, TxFields DEF TypeOK
      <4> QED BY <2>6, <4>1 DEF AdvanceMulti, WalkDone
    <3>1. tx' = [tx EXCEPT ![c] = t] /\ active' = active
      BY <2>0, <2>6 DEF AdvanceMulti, TypeOK, TxType, rows
    <3>2. JoinOK(w.active)
      BY <3>0, WalkStepJoin DEF JoinInv
    <3> HIDE DEF w
    <3>3. t.walk = w
      BY <2>0 DEF TypeOK, TxType
    <3> HIDE DEF t
    <3> QED BY <2>a, <3>1, <3>2, <3>3
  <2>7. ASSUME NEW c \in Clients, CreateCommit(c) \/ ApproveCommit(c) \/ ExtCommit(c) PROVE JoinInv'
    BY <2>7, <2>b DEF CreateCommit, ApproveCommit, ExtCommit
  <2>8. ASSUME NEW c \in Clients, RejectCommit(c) \/ PublishCommit(c) \/ Rollback(c) PROVE JoinInv'
    <3>1. End(c) /\ active' = active
      BY <2>8 DEF RejectCommit, PublishCommit, Rollback, rows
    <3> QED BY <2>a, <3>1, EmptyJoin DEF End
  <2>9. ASSUME NEW c \in Clients, NEW d, PublishBegin(c, d) PROVE JoinInv'
    <3> DEFINE t == [NoTx EXCEPT !.op = "publish", !.def = d, !.ref = LatestVersion.no + 1]
    <3>1. tx' = [tx EXCEPT ![c] = t] /\ active' = active
      BY <2>9 DEF PublishBegin, Begin, rows
    <3>2. t.walk = NoTx.walk
      BY NoTxType DEF TxType
    <3> HIDE DEF t
    <3> QED BY <2>a, <3>1, <3>2, EmptyJoin
  <2>10. ASSUME Restart PROVE JoinInv'
    BY <2>10, EmptyJoin DEF Restart, JoinInv
  <2>11. ASSUME UNCHANGED vars PROVE JoinInv'
    BY <2>11 DEF vars, rows, JoinInv
  <2>12. ASSUME NEW c \in Clients, Handler(c) PROVE JoinInv'
    BY <2>12, <2>1, <2>2, <2>3, <2>4, <2>5, <2>6, <2>7, <2>8, <2>9 DEF Handler
  <2> QED BY <2>10, <2>11, <2>12 DEF Next
<1> QED BY <1>1, <1>2, TypeInit, TypeNext, PTL DEF Spec

(* While every published version has the same graph, no interleaving of    *)
(* handlers, not even two that overwrite each other's tokens, leaves a     *)
(* join holding as many tokens as it has incoming edges.                   *)
THEOREM JoinsFire ==
    ASSUME Definitions = {SeedDefinition}
    PROVE  Spec => []JoinNeverFull
<1>1. TypeInv /\ JoinInv => JoinNeverFull
  BY DEF TypeInv, TypeOK, JoinInv, JoinOK, JoinNeverFull
<1>2. Spec => []JoinInv
  BY JoinAlways
<1> QED BY <1>1, <1>2, TypeInit, TypeNext, PTL DEF Spec

-----------------------------------------------------------------------------
(* Publishing. *)

(* Version numbers have no gaps, and a publisher that read the latest one  *)
(* some time ago aims at most one above today's.                           *)
VersionInv ==
    /\ \A u, v \in versions : u.no = v.no => u = v
    /\ def = LatestVersion.def \/ (MayRestart /\ def = SeedDefinition)
    /\ \A n \in 1 .. LatestVersion.no : \E v \in versions : v.no = n
    /\ \A c \in Clients : tx[c].op = "publish" => tx[c].ref \in 1 .. LatestVersion.no + 1

LEMMA LatestFacts ==
    ASSUME TypeInv
    PROVE  /\ LatestVersion \in versions /\ LatestVersion.no \in Nat
           /\ \A u \in versions : u.no <= LatestVersion.no /\ u.no \in Nat
<1>1. LatestVersion \in versions /\ \A u \in versions : u.no <= LatestVersion.no
  BY DEF TypeInv, HasLatest, LatestVersion
<1> QED BY <1>1 DEF TypeInv, TypeOK

(* The working copy is the latest published version or, after a restart,   *)
(* the shipped one, and no version number is used twice, however many      *)
(* publishers race: the loser meets the unique index on (workflowId,       *)
(* version).                                                               *)
THEOREM PublishedIsWorking == Spec => []WorkingIsLatest
<1>1. Init => VersionInv
  <2> SUFFICES ASSUME Init PROVE VersionInv
    OBVIOUS
  <2> DEFINE v == [no |-> 1, def |-> SeedDefinition]
  <2>1. versions = {v}
    BY DEF Init
  <2>2. LatestVersion = v
    BY <2>1 DEF LatestVersion
  <2>3. \A c \in Clients : tx[c].op = "idle"
    BY DEF Init, NoTx
  <2> QED BY <2>1, <2>2, <2>3 DEF VersionInv, Init
<1>2. TypeInv /\ VersionInv /\ [Next]_vars => VersionInv'
  <2> SUFFICES ASSUME TypeInv, VersionInv, [Next]_vars PROVE VersionInv'
    OBVIOUS
  <2>0. TypeOK
    BY DEF TypeInv
  <2>a. ASSUME UNCHANGED <<def, versions>>,
               \A c \in Clients : tx'[c].op = "publish" => tx'[c].ref \in 1 .. LatestVersion.no + 1
        PROVE  VersionInv'
    <3>1. LatestVersion' = LatestVersion
      BY <2>a DEF LatestVersion
    <3> QED BY <2>a, <3>1 DEF VersionInv
  <2>b. ASSUME NEW c \in Clients, NEW t, tx' = [tx EXCEPT ![c] = t], UNCHANGED <<def, versions>>,
               t.op = "publish" => t.ref \in 1 .. LatestVersion.no + 1
        PROVE  VersionInv'
    <3>1. ASSUME NEW b \in Clients, tx'[b].op = "publish" PROVE tx'[b].ref \in 1 .. LatestVersion.no + 1
      <4>1. tx'[b] = t \/ tx'[b] = tx[b]
        BY <2>0, <2>b DEF TypeOK
      <4> QED BY <2>b, <3>1, <4>1 DEF VersionInv
    <3> QED BY <2>a, <2>b, <3>1
  <2>c. ASSUME NEW c \in Clients, NEW op, op # "publish", NEW t, t.op = op,
               tx' = [tx EXCEPT ![c] = t], UNCHANGED <<def, versions>>
        PROVE  VersionInv'
    BY <2>b, <2>c
  <2>1. ASSUME NEW c \in Clients, NEW i, NEW k, NEW h, CreateBegin(c, i, k, h) PROVE VersionInv'
    <3> DEFINE t == [NoTx EXCEPT !.op = "create", !.inst = i, !.key = k, !.def = def, !.holds = h,
                                 !.walk = Walk(NextTarget(def, Start, h), EmptyBag)]
    <3>1. t.op = "create"
      BY NoTxType DEF TxType
    <3>2. tx' = [tx EXCEPT ![c] = t] /\ UNCHANGED <<def, versions>>
      BY <2>1 DEF CreateBegin, Begin, rows
    <3> HIDE DEF t
    <3> QED BY <2>c, <3>1, <3>2
  <2>2. ASSUME NEW c \in Clients, NEW j, NEW k, NEW approve \in BOOLEAN, ActBegin(c, j, k, approve)
        PROVE  VersionInv'
    <3> DEFINE i == tasks[j].inst
               n == tasks[j].node
               w == Walk(NextTarget(def, n, holds[i]), Take(active[i], n))
               t == [NoTx EXCEPT !.op = IF approve THEN "approve" ELSE "reject",
                                 !.inst = i, !.ref = j, !.key = k, !.def = def, !.holds = holds[i],
                                 !.walk = IF approve THEN w ELSE @]
    <3>1. tx' = [tx EXCEPT ![c] = t] /\ UNCHANGED <<def, versions>>
      BY <2>2 DEF ActBegin, Begin, rows
    <3> HIDE DEF w, i, n
    <3>2. t.op # "publish"
      BY NoTxType DEF TxType
    <3> HIDE DEF t
    <3> QED BY <2>c, <3>1, <3>2
  <2>3. ASSUME NEW c \in Clients, NEW e, ExtBegin(c, e) PROVE VersionInv'
    <3> DEFINE t == [NoTx EXCEPT !.op = "extRead", !.inst = exts[e].inst, !.ref = e]
    <3>1. tx' = [tx EXCEPT ![c] = t] /\ UNCHANGED <<def, versions>>
      BY <2>3 DEF ExtBegin, Begin, rows
    <3>2. t.op = "extRead"
      BY NoTxType DEF TxType
    <3> HIDE DEF t
    <3> QED BY <2>c, <3>1, <3>2
  <2>4. ASSUME NEW c \in Clients, ExtLock(c) PROVE VersionInv'
    <3> DEFINE t == [tx[c] EXCEPT !.op = "extCmd", !.cmd = NewestCommand(exts[tx[c].ref].node)]
    <3>1. tx' = [tx EXCEPT ![c] = t] /\ UNCHANGED <<def, versions>>
      BY <2>0, <2>4 DEF ExtLock, TypeOK, TxType, rows
    <3>2. t.op = "extCmd"
      BY <2>0 DEF TypeOK, TxType
    <3> HIDE DEF t
    <3> QED BY <2>c, <3>1, <3>2
  <2>5. ASSUME NEW c \in Clients, ExtReadInstance(c) PROVE VersionInv'
    <3> DEFINE i == tx[c].inst
               n == exts[tx[c].ref].node
               w == Walk(NextTarget(def, n, holds[i]), Take(active[i], n))
               t == [tx[c] EXCEPT !.op = "ext", !.def = def, !.holds = holds[i], !.walk = w]
    <3>1. tx' = [tx EXCEPT ![c] = t] /\ UNCHANGED <<def, versions>>
      BY <2>0, <2>5 DEF ExtReadInstance, TypeOK, TxType, rows
    <3> HIDE DEF w, i, n
    <3>2. t.op = "ext"
      BY <2>0 DEF TypeOK, TxType
    <3> HIDE DEF t
    <3> QED BY <2>c, <3>1, <3>2
  <2>6. ASSUME NEW c \in Clients, AdvanceMulti(c) PROVE VersionInv'
    <3> DEFINE w == WalkStep(tx[c].def, tx[c].holds, tx[c].walk)
               t == [tx[c] EXCEPT !.walk = w]
    <3>1. tx' = [tx EXCEPT ![c] = t] /\ UNCHANGED <<def, versions>>
      BY <2>0, <2>6 DEF AdvanceMulti, TypeOK, TxType, rows
    <3> HIDE DEF w
    <3>2. t.op # "publish"
      BY <2>0, <2>6 DEF TypeOK, TxType, AdvanceMulti
    <3> HIDE DEF t
    <3> QED BY <2>c, <3>1, <3>2
  <2>7. ASSUME NEW c \in Clients,
               CreateCommit(c) \/ ApproveCommit(c) \/ RejectCommit(c) \/ ExtCommit(c) \/ Rollback(c)
        PROVE  VersionInv'
    <3>1. tx' = [tx EXCEPT ![c] = NoTx] /\ UNCHANGED <<def, versions>>
      BY <2>7 DEF CreateCommit, ApproveCommit, RejectCommit, ExtCommit, Rollback, End, rows
    <3>2. NoTx.op = "idle"
      BY DEF NoTx
    <3> QED BY <2>c, <3>1, <3>2
  <2>8. ASSUME NEW c \in Clients, NEW d, PublishBegin(c, d) PROVE VersionInv'
    <3> DEFINE r == LatestVersion.no + 1
               t == [NoTx EXCEPT !.op = "publish", !.def = d, !.ref = r]
    <3>1. tx' = [tx EXCEPT ![c] = t] /\ UNCHANGED <<def, versions>>
      BY <2>8 DEF PublishBegin, Begin, rows
    <3>2. t.ref = r
      BY NoTxType DEF TxType
    <3>3. r \in 1 .. LatestVersion.no + 1
      BY LatestFacts
    <3> HIDE DEF t, r
    <3> QED BY <2>b, <3>1, <3>2, <3>3
  <2>9. ASSUME NEW c \in Clients, PublishCommit(c) PROVE VersionInv'
    <3> DEFINE v == [no |-> tx[c].ref, def |-> tx[c].def]
               m == LatestVersion.no
    <3>1. /\ \A u \in versions : u.no # v.no
          /\ versions' = versions \cup {v} /\ def' = v.def
          /\ tx' = [tx EXCEPT ![c] = NoTx]
          /\ v.no \in 1 .. m + 1
      BY <2>9 DEF PublishCommit, End, VersionInv
    <3>2. m \in Nat /\ \A u \in versions : u.no <= m /\ u.no \in Nat
      BY LatestFacts
    <3> HIDE DEF v
    <3>3. v.no = m + 1
      <4>1. v.no \notin 1 .. m
        BY <3>1 DEF VersionInv
      <4> QED BY <3>1, <3>2, <4>1
    <3>4. LatestVersion' = v
      <4>1. \A u \in versions' : u.no <= v.no
        BY <3>1, <3>2, <3>3
      <4>2. \A w \in versions' : (\A u \in versions' : u.no <= w.no) => w = v
        <5> SUFFICES ASSUME NEW w \in versions', w # v, v.no <= w.no PROVE FALSE
          BY <3>1
        <5> QED BY <3>1, <3>2, <3>3
      <4> HIDE DEF m
      <4> QED BY <3>1, <4>1, <4>2 DEF LatestVersion
    <3>5. \A u, w \in versions' : u.no = w.no => u = w
      BY <3>1 DEF VersionInv
    <3>6. \A n \in 1 .. v.no : \E w \in versions' : w.no = n
      <4> SUFFICES ASSUME NEW n \in 1 .. v.no PROVE \E w \in versions' : w.no = n
        OBVIOUS
      <4>1. CASE n = m + 1
        BY <3>1, <3>3, <4>1
      <4>2. CASE n \in 1 .. m
        BY <3>1, <4>2 DEF VersionInv
      <4> QED BY <3>2, <3>3, <4>1, <4>2
    <3>7. ASSUME NEW b \in Clients, tx'[b].op = "publish" PROVE tx'[b].ref \in 1 .. v.no + 1
      <4>1. tx'[b] = NoTx \/ tx'[b] = tx[b]
        BY <2>0, <3>1 DEF TypeOK
      <4>2. tx'[b] = tx[b]
        BY <3>7, <4>1 DEF NoTx
      <4>3. tx[b].ref \in 1 .. m + 1
        BY <3>7, <4>2 DEF VersionInv
      <4> QED BY <3>2, <3>3, <4>2, <4>3
    <3> QED BY <3>1, <3>4, <3>5, <3>6, <3>7 DEF VersionInv
  <2>10. ASSUME UNCHANGED vars PROVE VersionInv'
    BY <2>10, <2>a DEF vars, rows, VersionInv
  <2>11. ASSUME NEW c \in Clients, Handler(c) PROVE VersionInv'
    BY <2>11, <2>1, <2>2, <2>3, <2>4, <2>5, <2>6, <2>7, <2>8, <2>9 DEF Handler
  <2>12. ASSUME Restart PROVE VersionInv'
    <3>1. \A c \in Clients : tx'[c].op = "idle"
      BY <2>12 DEF Restart, NoTx
    <3>2. versions' = versions /\ LatestVersion' = LatestVersion
      BY <2>12 DEF Restart, LatestVersion
    <3>3. MayRestart /\ def' = SeedDefinition
      BY <2>12 DEF Restart
    <3> QED BY <3>1, <3>2, <3>3 DEF VersionInv
  <2> QED BY <2>10, <2>11, <2>12 DEF Next
<1>3. VersionInv => WorkingIsLatest
  BY DEF VersionInv, WorkingIsLatest
<1> QED BY <1>1, <1>2, <1>3, TypeInit, TypeNext, PTL DEF Spec

-----------------------------------------------------------------------------
(* One handler at a time.  Concurrent handlers of an instance overwrite    *)
(* each other's tokens; these theorems are about handlers that do not      *)
(* overlap, crashed ones and restarts included.                            *)
OneAtATime == \A c, d \in Clients : c = d

(* What a node is in the shipped definition. *)
K(n) == Kind[SeedDefinition][n]

(* Publishing may redraw the edges but not change what a node is. *)
SameKinds == \A d \in Definitions, n \in Nodes : Kind[d][n] = K(n)

(* The tokens a of instance i are those of its open tasks among T, those   *)
(* of its pending executions among E, and x.                               *)
Tokens(a, i, T, E, x) ==
    \A n \in Nodes :
        /\ K(n) = "stop" => a[n] = Cardinality(RowsOf(T, i, n, "open")) + x[n]
        /\ K(n) = "external" => a[n] = Cardinality(RowsOf(E, i, n, "pending")) + x[n]

(* A walk that began with the tokens b has added one for each stop and     *)
(* each parked action it reached.                                          *)
WalkFrom(w, b) ==
    /\ \A n \in Nodes :
        /\ K(n) = "stop" => w.active[n] = b[n] + CountIn(w.stops, n)
        /\ K(n) = "external" => w.active[n] = b[n] + CountIn(w.parks, n)
    /\ \A k \in DOMAIN w.stops : K(w.stops[k]) = "stop"
    /\ \A k \in DOMAIN w.parks : K(w.parks[k]) = "external"

(* Tokens rest at human stops, external actions and joins only. *)
Rests(b) == \A n \in Nodes : b[n] = 0 \/ K(n) \in {"stop", "external", "join"}

Clean(T, i) == \A k \in DOMAIN T : T[k].inst = i => T[k].status # "rejected"
NoRows(T, i) == \A k \in DOMAIN T : T[k].inst # i
AtKind(T, kd) == \A k \in DOMAIN T : K(T[k].node) = kd

(* Only a rejection leaves tokens without a row. *)
Accounted(a, i, T, E) ==
    \E x \in Bag : Tokens(a, i, T, E, x) /\ (Clean(T, i) => x = EmptyBag)

(* What the one open handler has read is still so. *)
FreshTx(t) ==
    /\ t.op = "create" => status[t.inst] = "none" /\ WalkFrom(t.walk, EmptyBag)
    /\ t.op \in {"approve", "reject"} => tasks[t.ref].status = "open" /\ tasks[t.ref].inst = t.inst
    /\ t.op = "approve" => WalkFrom(t.walk, Take(active[t.inst], tasks[t.ref].node))
    /\ t.op \in {"extRead", "extCmd", "ext"} => exts[t.ref].status = "pending" /\ exts[t.ref].inst = t.inst
    /\ t.op = "ext" => WalkFrom(t.walk, Take(active[t.inst], exts[t.ref].node))
    /\ Rests(t.walk.active)

(* The tables st, a, T and E are right about every instance but those in X. *)
TablesBut(X, st, a, T, E) ==
    /\ AtKind(T, "stop") /\ AtKind(E, "external")
    /\ \A i \in Instances : Rests(a[i])
    /\ \A i \in Instances \ X : st[i] = "none" => a[i] = EmptyBag /\ NoRows(T, i) /\ NoRows(E, i)
    /\ \A i \in Instances \ X : Accounted(a[i], i, T, E)

(* Every token that rests has its row, and every open row its token,       *)
(* unless a rejection left the instance's other rows open.                 *)
TokenInv ==
    /\ TablesBut({}, status, active, tasks, exts)
    /\ \A c \in Clients : FreshTx(tx[c])

At(s, n, st) == {k \in DOMAIN s : s[k].node = n /\ s[k].status = st}

(* The executions E and the commands C, made together, are completed in    *)
(* equal numbers at each node.                                             *)
InPace(E, C) ==
    /\ DOMAIN E = DOMAIN C
    /\ \A k \in DOMAIN E : E[k].node = C[k].node
    /\ \A n \in Nodes : Cardinality(At(E, n, "completed")) = Cardinality(At(C, n, "manual_completed"))

(* The open handler's execution is still pending, and so is the command it *)
(* is going to complete with it.                                           *)
PaceTx(t) ==
    /\ t.op \in {"extRead", "extCmd", "ext"} => exts[t.ref].status = "pending"
    /\ t.op \in {"extCmd", "ext"} => t.cmd # 0 /\ t.cmd \in At(cmds, exts[t.ref].node, "manual_pending")

PaceInv == InPace(exts, cmds) /\ \A c \in Clients : PaceTx(tx[c])

-----------------------------------------------------------------------------
(* Counting rows *)

LEMMA RowsFinite ==
    ASSUME NEW S, NEW q \in Seq(RowType(S)), NEW i, NEW n, NEW st
    PROVE  /\ IsFiniteSet(RowsOf(q, i, n, st)) /\ Cardinality(RowsOf(q, i, n, st)) \in Nat
           /\ IsFiniteSet(At(q, n, st)) /\ Cardinality(At(q, n, st)) \in Nat
<1>1. IsFiniteSet(1 .. Len(q)) /\ DOMAIN q = 1 .. Len(q)
  <2>1. Len(q) \in Int /\ 1 \in Int /\ DOMAIN q = 1 .. Len(q)
    OBVIOUS
  <2> QED BY <2>1, FS_Interval
<1>2. RowsOf(q, i, n, st) \subseteq 1 .. Len(q) /\ At(q, n, st) \subseteq 1 .. Len(q)
  BY <1>1 DEF RowsOf, At
<1> QED BY <1>1, <1>2, FS_Subset, FS_CardinalityType

(* The rows after an INSERT of one row for each of ns. *)
LEMMA Inserted ==
    ASSUME NEW S, NEW q \in Seq(RowType(S)), NEW i \in Instances, NEW ns \in Seq(Nodes), NEW st \in S
    PROVE  LET r == q \o Rows(i, ns, st) IN
           /\ DOMAIN r = 1 .. Len(q) + Len(ns) /\ DOMAIN q = 1 .. Len(q) /\ DOMAIN ns = 1 .. Len(ns)
           /\ Len(q) \in Nat /\ Len(ns) \in Nat
           /\ \A k \in DOMAIN q : r[k] = q[k]
           /\ \A k \in DOMAIN ns : r[Len(q) + k] = [inst |-> i, node |-> ns[k], status |-> st]
<1>1. PICK x : x = Rows(i, ns, st)
  OBVIOUS
<1>2. x \in Seq(RowType(S)) /\ Len(ns) \in Nat /\ DOMAIN ns = 1 .. Len(ns)
  BY <1>1, RowsType
<1>3. DOMAIN x = DOMAIN ns /\ \A k \in DOMAIN ns : x[k] = [inst |-> i, node |-> ns[k], status |-> st]
  BY <1>1 DEF Rows
<1>4. Len(x) = Len(ns)
  BY <1>2, <1>3
<1>5. /\ Len(q \o x) = Len(q) + Len(x) /\ Len(q) \in Nat /\ DOMAIN q = 1 .. Len(q)
      /\ DOMAIN (q \o x) = 1 .. Len(q \o x)
  BY <1>2
<1>6. \A k \in 1 .. Len(q) : (q \o x)[k] = q[k]
  BY <1>2
<1>7. \A k \in 1 .. Len(x) : (q \o x)[Len(q) + k] = x[k]
  BY <1>2
<1> QED
  BY <1>1, <1>2, <1>3, <1>4, <1>5, <1>6, <1>7

LEMMA InsertedRows ==
    ASSUME NEW S, NEW q \in Seq(RowType(S)), NEW i \in Instances, NEW ns \in Seq(Nodes), NEW st \in S,
           NEW j, NEW n \in Nodes, NEW s2
    PROVE  LET r == q \o Rows(i, ns, st) IN
           /\ (j # i \/ s2 # st) => RowsOf(r, j, n, s2) = RowsOf(q, j, n, s2)
           /\ Cardinality(RowsOf(r, i, n, st)) = Cardinality(RowsOf(q, i, n, st)) + CountIn(ns, n)
<1>1. PICK r : r = q \o Rows(i, ns, st)
  OBVIOUS
<1>2. /\ DOMAIN r = 1 .. Len(q) + Len(ns) /\ DOMAIN q = 1 .. Len(q) /\ DOMAIN ns = 1 .. Len(ns)
      /\ Len(q) \in Nat /\ Len(ns) \in Nat
      /\ \A k \in DOMAIN q : r[k] = q[k]
      /\ \A k \in DOMAIN ns : r[Len(q) + k] = [inst |-> i, node |-> ns[k], status |-> st]
  BY <1>1, Inserted
<1>3. ASSUME NEW k \in DOMAIN r
      PROVE  \/ k \in DOMAIN q /\ r[k] = q[k]
             \/ k \notin DOMAIN q /\ k - Len(q) \in DOMAIN ns /\ r[k].inst = i /\ r[k].node = ns[k - Len(q)] /\ r[k].status = st
  <2>1. CASE k <= Len(q)
    BY <1>2, <1>3, <2>1
  <2>2. CASE ~(k <= Len(q))
    <3>1. k \notin DOMAIN q /\ k - Len(q) \in DOMAIN ns /\ k = Len(q) + (k - Len(q))
      BY <1>2, <1>3, <2>2
    <3>2. r[k] = [inst |-> i, node |-> ns[k - Len(q)], status |-> st]
      BY <1>2, <3>1
    <3> QED
      BY <3>1, <3>2
  <2> QED
    BY <2>1, <2>2
<1>4. DOMAIN q \subseteq DOMAIN r
  BY <1>2
<1>5. (j # i \/ s2 # st) => RowsOf(r, j, n, s2) = RowsOf(q, j, n, s2)
  BY <1>3, <1>4 DEF RowsOf
<1>7. Cardinality(RowsOf(r, i, n, st)) = Cardinality(RowsOf(q, i, n, st)) + CountIn(ns, n)
  <2>1. PICK A : A = {k \in DOMAIN ns : ns[k] = n}
    OBVIOUS
  <2>2. PICK B : B = {k \in DOMAIN r : k \notin DOMAIN q /\ r[k].node = n}
    OBVIOUS
  <2>3. IsFiniteSet(A) /\ Cardinality(A) = CountIn(ns, n) /\ CountIn(ns, n) \in Nat
    <3>1. IsFiniteSet(1 .. Len(ns))
      BY <1>2, FS_Interval
    <3> QED
      BY <1>2, <2>1, <3>1, FS_Subset, CountInType DEF CountIn
  <2>4. PICK f : f = [k \in A |-> Len(q) + k]
    OBVIOUS
  <2>5. f \in Bijection(A, B)
    <3>1. ASSUME NEW k \in A PROVE Len(q) + k \in B
      <4>1. k \in 1 .. Len(ns) /\ ns[k] = n
        BY <1>2, <2>1, <3>1
      <4>2. Len(q) + k \in DOMAIN r /\ Len(q) + k \notin DOMAIN q
        BY <1>2, <4>1
      <4>3. r[Len(q) + k] = [inst |-> i, node |-> ns[k], status |-> st]
        BY <1>2, <4>1
      <4>4. r[Len(q) + k].node = n
        BY <4>1, <4>3
      <4> QED
        BY <2>2, <4>2, <4>4
    <3>2. ASSUME NEW k \in B PROVE k - Len(q) \in A /\ k = Len(q) + (k - Len(q))
      BY <1>2, <1>3, <2>1, <2>2, <3>2
    <3>3. f \in [A -> B] /\ \A k \in A : f[k] = Len(q) + k
      BY <2>4, <3>1
    <3>4. \A k, m \in A : f[k] = f[m] => k = m
      BY <1>2, <2>1, <3>3
    <3>5. \A k \in B : \E m \in A : f[m] = k
      BY <3>2, <3>3
    <3> QED
      BY <3>3, <3>4, <3>5 DEF Bijection, Injection, Surjection, IsInjective
  <2>6. IsFiniteSet(B) /\ Cardinality(B) = Cardinality(A)
    BY <2>3, <2>5, FS_Bijection DEF ExistsBijection
  <2>7. RowsOf(r, i, n, st) = RowsOf(q, i, n, st) \cup B /\ RowsOf(q, i, n, st) \cap B = {}
    BY <1>3, <1>4, <2>2 DEF RowsOf
  <2>8. IsFiniteSet(RowsOf(q, i, n, st)) /\ Cardinality(RowsOf(q, i, n, st)) \in Nat
    BY RowsFinite
  <2>9. Cardinality(RowsOf(q, i, n, st) \cup B) = Cardinality(RowsOf(q, i, n, st)) + Cardinality(B) - 0
    BY <2>6, <2>7, <2>8, FS_Union, FS_EmptySet
  <2> QED
    BY <2>3, <2>6, <2>7, <2>8, <2>9
<1> QED
  BY <1>1, <1>5, <1>7

LEMMA CountAppend ==
    ASSUME NEW ns \in Seq(Nodes), NEW m \in Nodes, NEW n \in Nodes
    PROVE  CountIn(Append(ns, m), n) = IF n = m THEN CountIn(ns, n) + 1 ELSE CountIn(ns, n)
<1>1. PICK r : r = Append(ns, m)
  OBVIOUS
<1>2. /\ Len(ns) \in Nat /\ DOMAIN ns = 1 .. Len(ns) /\ DOMAIN r = 1 .. Len(ns) + 1
      /\ r[Len(ns) + 1] = m /\ \A k \in 1 .. Len(ns) : r[k] = ns[k]
  BY <1>1
<1>3. PICK A : A = {k \in DOMAIN ns : ns[k] = n}
  OBVIOUS
<1>4. IsFiniteSet(A) /\ Len(ns) + 1 \notin A
  <2>1. IsFiniteSet(1 .. Len(ns))
    BY <1>2, FS_Interval
  <2> QED
    BY <1>2, <1>3, <2>1, FS_Subset
<1>5. {k \in DOMAIN r : r[k] = n} = IF n = m THEN A \cup {Len(ns) + 1} ELSE A
  BY <1>2, <1>3
<1>6. Cardinality(A \cup {Len(ns) + 1}) = Cardinality(A) + 1
  BY <1>4, FS_AddElement
<1> QED
  BY <1>1, <1>3, <1>5, <1>6 DEF CountIn

LEMMA CountNone ==
    ASSUME NEW n
    PROVE  CountIn(<<>>, n) = 0
<1>1. {k \in DOMAIN <<>> : <<>>[k] = n} = {}
  OBVIOUS
<1> QED
  BY <1>1, FS_EmptySet DEF CountIn

-----------------------------------------------------------------------------
(* The walk *)

(* What one turn of the loop does to the tokens, the stops and the parked  *)
(* actions.                                                                *)
LEMMA StepEffect ==
    ASSUME SameKinds, NEW d \in Definitions, NEW h, NEW w \in WalkType, w.work # <<>>
    PROVE  \E n \in Nodes : LET v == WalkStep(d, h, w) IN
           \/ K(n) = "stop" /\ v.active = Put(w.active, n) /\ v.stops = Append(w.stops, n) /\ v.parks = w.parks
           \/ K(n) = "external" /\ v.active = Put(w.active, n) /\ v.stops = w.stops /\ v.parks = Append(w.parks, n)
           \/ /\ K(n) = "join" /\ v.stops = w.stops /\ v.parks = w.parks
              /\ v.active \in {Put(w.active, n), [w.active EXCEPT ![n] = 0]}
           \/ v.active = w.active /\ v.stops = w.stops /\ v.parks = w.parks
<1> DEFINE n == Head(w.work)
           k == Kind[d][n]
           parked == Put(w.active, n)
           v == WalkStep(d, h, w)
<1>1. n \in Nodes
  BY DEF WalkType
<1>2. k = K(n)
  BY <1>1 DEF SameKinds
<1>3. CASE k = "stop"
  <2>1. v.active = parked /\ v.stops = Append(w.stops, n) /\ v.parks = w.parks
    BY <1>3 DEF WalkStep, WalkType
  <2> QED BY <1>1, <1>2, <1>3, <2>1
<1>4. CASE k = "external"
  <2>1. v.active = parked /\ v.stops = w.stops /\ v.parks = Append(w.parks, n)
    BY <1>4 DEF WalkStep, WalkType
  <2> QED BY <1>1, <1>2, <1>4, <2>1
<1>5. CASE k = "join"
  <2>1. v.active \in {parked, [w.active EXCEPT ![n] = 0]} /\ v.stops = w.stops /\ v.parks = w.parks
    BY <1>5 DEF WalkStep, WalkType
  <2> QED BY <1>1, <1>2, <1>5, <2>1
<1>6. CASE k \notin {"stop", "external", "join"}
  <2>1. v.active = w.active /\ v.stops = w.stops /\ v.parks = w.parks
    BY <1>6 DEF WalkStep, WalkType
  <2> QED BY <1>1, <2>1
<1> QED
  BY <1>3, <1>4, <1>5, <1>6

(* What a step of the walk changes in the tokens. *)
LEMMA BagAt ==
    ASSUME NEW b \in Bag, NEW n \in Nodes
    PROVE  /\ Put(b, n)[n] = b[n] + 1
           /\ \A m \in Nodes : b[m] \in Nat
           /\ \A m \in Nodes : m # n => Put(b, n)[m] = b[m] /\ [b EXCEPT ![n] = 0][m] = b[m]
BY DEF Bag, Put

LEMMA WalkStepFrom ==
    ASSUME SameKinds, NEW d \in Definitions, NEW h, NEW w \in WalkType, w.work # <<>>,
           NEW b \in Bag, WalkFrom(w, b)
    PROVE  WalkFrom(WalkStep(d, h, w), b)
<1>1. PICK v : v = WalkStep(d, h, w)
  OBVIOUS
<1>2. PICK n \in Nodes :
           \/ K(n) = "stop" /\ v.active = Put(w.active, n) /\ v.stops = Append(w.stops, n) /\ v.parks = w.parks
           \/ K(n) = "external" /\ v.active = Put(w.active, n) /\ v.stops = w.stops /\ v.parks = Append(w.parks, n)
           \/ /\ K(n) = "join" /\ v.stops = w.stops /\ v.parks = w.parks
              /\ v.active \in {Put(w.active, n), [w.active EXCEPT ![n] = 0]}
           \/ v.active = w.active /\ v.stops = w.stops /\ v.parks = w.parks
  BY <1>1, StepEffect
<1>3. /\ w.active \in Bag /\ w.stops \in Seq(Nodes) /\ w.parks \in Seq(Nodes)
      /\ \A m \in Nodes : b[m] \in Nat /\ w.active[m] \in Nat
  BY DEF WalkType, Bag
<1>4. \A m \in Nodes : CountIn(w.stops, m) \in Nat /\ CountIn(w.parks, m) \in Nat
  BY <1>3, CountInType
<1>5. /\ Put(w.active, n)[n] = w.active[n] + 1
      /\ \A m \in Nodes : m # n => Put(w.active, n)[m] = w.active[m] /\ [w.active EXCEPT ![n] = 0][m] = w.active[m]
  BY <1>3, BagAt
<1>6. ASSUME NEW s \in Seq(Nodes), NEW kd, \A k \in DOMAIN s : K(s[k]) = kd, K(n) = kd
      PROVE  \A k \in DOMAIN Append(s, n) : K(Append(s, n)[k]) = kd
  <2>1. ASSUME NEW k \in DOMAIN Append(s, n) PROVE K(Append(s, n)[k]) = kd
    <3>1. Append(s, n)[k] = n \/ (k \in DOMAIN s /\ Append(s, n)[k] = s[k])
      OBVIOUS
    <3> QED
      BY <1>6, <3>1
  <2> QED
    BY <2>1
<1>7. CASE K(n) = "stop" /\ v.active = Put(w.active, n) /\ v.stops = Append(w.stops, n) /\ v.parks = w.parks
  <2>1. \A m \in Nodes : CountIn(v.stops, m) = IF m = n THEN CountIn(w.stops, m) + 1 ELSE CountIn(w.stops, m)
    BY <1>3, <1>7, CountAppend
  <2>2. \A k \in DOMAIN v.stops : K(v.stops[k]) = "stop"
    BY <1>3, <1>6, <1>7 DEF WalkFrom
  <2>3. ASSUME NEW m \in Nodes PROVE /\ K(m) = "stop" => v.active[m] = b[m] + CountIn(v.stops, m)
                                     /\ K(m) = "external" => v.active[m] = b[m] + CountIn(v.parks, m)
    <3>1. /\ K(m) = "stop" => w.active[m] = b[m] + CountIn(w.stops, m)
          /\ K(m) = "external" => w.active[m] = b[m] + CountIn(w.parks, m)
      BY DEF WalkFrom
    <3>2. CASE m = n
      <4>1. v.active[m] = w.active[m] + 1 /\ CountIn(v.stops, m) = CountIn(w.stops, m) + 1
        BY <1>5, <1>7, <2>1, <3>2
      <4>2. w.active[m] = b[m] + CountIn(w.stops, m) /\ K(m) = "stop"
        BY <1>7, <3>1, <3>2
      <4>3. b[m] \in Nat /\ CountIn(w.stops, m) \in Nat
        BY <1>3, <1>4
      <4>4. v.active[m] = b[m] + CountIn(v.stops, m)
        BY ONLY <4>1, <4>2, <4>3
      <4> QED
        BY <4>2, <4>4
    <3>3. CASE m # n
      BY <1>5, <1>7, <2>1, <3>1, <3>3
    <3> QED
      BY <3>2, <3>3
  <2> QED
    BY <1>1, <1>7, <2>2, <2>3 DEF WalkFrom
<1>8. CASE K(n) = "external" /\ v.active = Put(w.active, n) /\ v.stops = w.stops /\ v.parks = Append(w.parks, n)
  <2>1. \A m \in Nodes : CountIn(v.parks, m) = IF m = n THEN CountIn(w.parks, m) + 1 ELSE CountIn(w.parks, m)
    BY <1>3, <1>8, CountAppend
  <2>2. \A k \in DOMAIN v.parks : K(v.parks[k]) = "external"
    BY <1>3, <1>6, <1>8 DEF WalkFrom
  <2>3. ASSUME NEW m \in Nodes PROVE /\ K(m) = "stop" => v.active[m] = b[m] + CountIn(v.stops, m)
                                     /\ K(m) = "external" => v.active[m] = b[m] + CountIn(v.parks, m)
    <3>1. /\ K(m) = "stop" => w.active[m] = b[m] + CountIn(w.stops, m)
          /\ K(m) = "external" => w.active[m] = b[m] + CountIn(w.parks, m)
      BY DEF WalkFrom
    <3>2. CASE m = n
      <4>1. v.active[m] = w.active[m] + 1 /\ CountIn(v.parks, m) = CountIn(w.parks, m) + 1
        BY <1>5, <1>8, <2>1, <3>2
      <4>2. w.active[m] = b[m] + CountIn(w.parks, m) /\ K(m) = "external"
        BY <1>8, <3>1, <3>2
      <4>3. b[m] \in Nat /\ CountIn(w.parks, m) \in Nat
        BY <1>3, <1>4
      <4>4. v.active[m] = b[m] + CountIn(v.parks, m)
        BY ONLY <4>1, <4>2, <4>3
      <4> QED
        BY <4>2, <4>4
    <3>3. CASE m # n
      BY <1>5, <1>8, <2>1, <3>1, <3>3
    <3> QED
      BY <3>2, <3>3
  <2> QED
    BY <1>1, <1>8, <2>2, <2>3 DEF WalkFrom
<1>9. CASE /\ K(n) = "join" /\ v.stops = w.stops /\ v.parks = w.parks
           /\ v.active \in {Put(w.active, n), [w.active EXCEPT ![n] = 0]}
  <2>1. \A m \in Nodes : K(m) \in {"stop", "external"} => v.active[m] = w.active[m]
    BY <1>5, <1>9
  <2> QED
    BY <1>1, <1>9, <2>1 DEF WalkFrom
<1>10. CASE v.active = w.active /\ v.stops = w.stops /\ v.parks = w.parks
  BY <1>1, <1>10 DEF WalkFrom
<1> QED
  BY <1>2, <1>7, <1>8, <1>9, <1>10

LEMMA WalkStepRests ==
    ASSUME SameKinds, NEW d \in Definitions, NEW h, NEW w \in WalkType, w.work # <<>>, Rests(w.active)
    PROVE  Rests(WalkStep(d, h, w).active)
<1>1. PICK v : v = WalkStep(d, h, w)
  OBVIOUS
<1>2. PICK n \in Nodes :
           \/ K(n) \in {"stop", "external", "join"} /\ v.active \in {Put(w.active, n), [w.active EXCEPT ![n] = 0]}
           \/ v.active = w.active
  BY <1>1, StepEffect
<1>3. \A m \in Nodes : m # n => Put(w.active, n)[m] = w.active[m] /\ [w.active EXCEPT ![n] = 0][m] = w.active[m]
  <2>1. w.active \in Bag
    BY DEF WalkType
  <2> QED
    BY <2>1, BagAt
<1>4. \A m \in Nodes : m = n \/ v.active[m] = w.active[m]
  BY <1>2, <1>3
<1> QED
  BY <1>1, <1>2, <1>4 DEF Rests

(* A walk begins with nothing reached. *)
LEMMA WalkBegins ==
    ASSUME NEW work, NEW b \in Bag
    PROVE  WalkFrom(Walk(work, b), b) /\ Walk(work, b).active = b
<1>1. PICK w : w = Walk(work, b)
  OBVIOUS
<1>2. w.active = b /\ w.stops = <<>> /\ w.parks = <<>>
  BY <1>1 DEF Walk
<1>3. \A n \in Nodes : b[n] \in Nat /\ CountIn(<<>>, n) = 0
  BY CountNone DEF Bag
<1>4. WalkFrom(w, b)
  BY <1>2, <1>3 DEF WalkFrom
<1> QED
  BY <1>1, <1>2, <1>4

LEMMA TakeRests ==
    ASSUME NEW b \in Bag, NEW n \in Nodes, Rests(b)
    PROVE  Rests(Take(b, n))
<1>1. \A m \in Nodes : b[m] = 0 => Take(b, n)[m] = 0
  BY DEF Take, Bag
<1> QED
  BY <1>1 DEF Rests

LEMMA NothingRests ==
    Rests(EmptyBag) /\ Rests(NoTx.walk.active)
<1>1. NoTx.walk.active = EmptyBag
  BY DEF NoTx, Walk
<1> QED
  BY <1>1 DEF Rests, EmptyBag

-----------------------------------------------------------------------------
(* Tokens and rows *)

TaskStatus == {"open", "approved", "rejected"}
ExtStatus == {"pending", "completed"}

(* The rows a handler inserts for the stops and the parked actions of its  *)
(* walk are the ones its tokens wait for.                                  *)
LEMMA SettledTokens ==
    ASSUME NEW i \in Instances, NEW T \in Seq(RowType(TaskStatus)), NEW E \in Seq(RowType(ExtStatus)),
           NEW w \in WalkType, NEW b \in Bag, WalkFrom(w, b), NEW x \in Bag, Tokens(b, i, T, E, x)
    PROVE  Tokens(w.active, i, T \o Rows(i, w.stops, "open"), E \o Rows(i, w.parks, "pending"), x)
<1>1. w.stops \in Seq(Nodes) /\ w.parks \in Seq(Nodes) /\ "open" \in TaskStatus /\ "pending" \in ExtStatus
  BY DEF WalkType, TaskStatus, ExtStatus
<1>2. PICK T2 : T2 = T \o Rows(i, w.stops, "open")
  OBVIOUS
<1>3. PICK E2 : E2 = E \o Rows(i, w.parks, "pending")
  OBVIOUS
<1>4. ASSUME NEW n \in Nodes
      PROVE  /\ K(n) = "stop" => w.active[n] = Cardinality(RowsOf(T2, i, n, "open")) + x[n]
             /\ K(n) = "external" => w.active[n] = Cardinality(RowsOf(E2, i, n, "pending")) + x[n]
  <2>1. Cardinality(RowsOf(T2, i, n, "open")) = Cardinality(RowsOf(T, i, n, "open")) + CountIn(w.stops, n)
    BY <1>1, <1>2, InsertedRows
  <2>2. Cardinality(RowsOf(E2, i, n, "pending")) = Cardinality(RowsOf(E, i, n, "pending")) + CountIn(w.parks, n)
    BY <1>1, <1>3, InsertedRows
  <2>3. /\ K(n) = "stop" => w.active[n] = b[n] + CountIn(w.stops, n)
        /\ K(n) = "external" => w.active[n] = b[n] + CountIn(w.parks, n)
    BY DEF WalkFrom
  <2>4. /\ K(n) = "stop" => b[n] = Cardinality(RowsOf(T, i, n, "open")) + x[n]
        /\ K(n) = "external" => b[n] = Cardinality(RowsOf(E, i, n, "pending")) + x[n]
    BY DEF Tokens
  <2>5. /\ Cardinality(RowsOf(T, i, n, "open")) \in Nat /\ Cardinality(RowsOf(E, i, n, "pending")) \in Nat
        /\ CountIn(w.stops, n) \in Nat /\ CountIn(w.parks, n) \in Nat /\ x[n] \in Nat
    BY <1>1, RowsFinite, CountInType DEF Bag
  <2> QED
    BY <2>1, <2>2, <2>3, <2>4, <2>5
<1>5. Tokens(w.active, i, T2, E2, x)
  BY <1>4 DEF Tokens
<1> QED
  BY <1>2, <1>3, <1>5

(* What the inserted rows leave alone. *)
LEMMA InsertKeeps ==
    ASSUME NEW S, NEW q \in Seq(RowType(S)), NEW i \in Instances, NEW ns \in Seq(Nodes), NEW st \in S
    PROVE  LET r == q \o Rows(i, ns, st) IN
           /\ \A j : Clean(r, j) => Clean(q, j)
           /\ \A j : j # i /\ NoRows(q, j) => NoRows(r, j)
           /\ \A j, s2 : \A n \in Nodes : j # i => RowsOf(r, j, n, s2) = RowsOf(q, j, n, s2)
           /\ \A kd : AtKind(q, kd) /\ (\A k \in DOMAIN ns : K(ns[k]) = kd) => AtKind(r, kd)
<1>1. PICK r : r = q \o Rows(i, ns, st)
  OBVIOUS
<1>2. /\ DOMAIN r = 1 .. Len(q) + Len(ns) /\ DOMAIN q = 1 .. Len(q) /\ DOMAIN ns = 1 .. Len(ns)
      /\ Len(q) \in Nat /\ Len(ns) \in Nat
      /\ \A k \in DOMAIN q : r[k] = q[k]
      /\ \A k \in DOMAIN ns : r[Len(q) + k] = [inst |-> i, node |-> ns[k], status |-> st]
  BY <1>1, Inserted
<1>3. ASSUME NEW k \in DOMAIN r
      PROVE  \/ k \in DOMAIN q /\ r[k] = q[k]
             \/ k - Len(q) \in DOMAIN ns /\ r[k].inst = i /\ r[k].node = ns[k - Len(q)]
  <2>1. CASE k <= Len(q)
    BY <1>2, <1>3, <2>1
  <2>2. CASE ~(k <= Len(q))
    <3>1. k - Len(q) \in DOMAIN ns /\ k = Len(q) + (k - Len(q))
      BY <1>2, <1>3, <2>2
    <3>2. r[k] = [inst |-> i, node |-> ns[k - Len(q)], status |-> st]
      BY <1>2, <3>1
    <3> QED
      BY <3>1, <3>2
  <2> QED
    BY <2>1, <2>2
<1>4. DOMAIN q \subseteq DOMAIN r
  BY <1>2
<1>5. \A j : Clean(r, j) => Clean(q, j)
  BY <1>2, <1>4 DEF Clean
<1>6. \A j : j # i /\ NoRows(q, j) => NoRows(r, j)
  BY <1>3 DEF NoRows
<1>7. \A j, s2 : \A n \in Nodes : j # i => RowsOf(r, j, n, s2) = RowsOf(q, j, n, s2)
  BY <1>1, InsertedRows
<1>8. \A kd : AtKind(q, kd) /\ (\A k \in DOMAIN ns : K(ns[k]) = kd) => AtKind(r, kd)
  BY <1>3 DEF AtKind
<1> QED
  BY <1>1, <1>5, <1>6, <1>7, <1>8

Closed(q, k, s2) == [q EXCEPT ![k].status = s2]

(* What an update of a row's status leaves alone. *)
LEMMA UpdateKeeps ==
    ASSUME NEW S, NEW q \in Seq(RowType(S)), NEW k \in DOMAIN q, NEW s2 \in S, NEW st \in S, q[k].status = st, s2 # st
    PROVE  LET r == Closed(q, k, s2) IN
           /\ st # "rejected" => \A j : Clean(r, j) => Clean(q, j)
           /\ s2 = "rejected" => ~Clean(r, q[k].inst)
           /\ \A j : NoRows(q, j) => NoRows(r, j)
           /\ \A j : \A n \in Nodes : j # q[k].inst => RowsOf(r, j, n, st) = RowsOf(q, j, n, st)
           /\ \A kd : AtKind(q, kd) => AtKind(r, kd)
<1>1. PICK r : r = Closed(q, k, s2)
  OBVIOUS
<1>2. q[k] \in RowType(S)
  OBVIOUS
<1>3. DOMAIN r = DOMAIN q /\ r[k] = [q[k] EXCEPT !.status = s2] /\ \A j \in DOMAIN q : j # k => r[j] = q[j]
  BY <1>1 DEF Closed
<1>4. r[k].inst = q[k].inst /\ r[k].node = q[k].node /\ r[k].status = s2
  BY <1>2, <1>3 DEF RowType
<1>e. \A j \in DOMAIN q : r[j].inst = q[j].inst /\ r[j].node = q[j].node /\ (j # k => r[j].status = q[j].status)
  BY <1>3, <1>4
<1>5. st # "rejected" => \A j : Clean(r, j) => Clean(q, j)
  BY <1>3, <1>4 DEF Clean
<1>6. s2 = "rejected" => ~Clean(r, q[k].inst)
  BY <1>3, <1>4 DEF Clean
<1>7. \A j : NoRows(q, j) => NoRows(r, j)
  BY <1>3, <1>e DEF NoRows
<1>8. \A j : \A n \in Nodes : j # q[k].inst => RowsOf(r, j, n, st) = RowsOf(q, j, n, st)
  <2>1. ASSUME NEW j, NEW n \in Nodes, j # q[k].inst PROVE RowsOf(r, j, n, st) = RowsOf(q, j, n, st)
    BY <1>3, <1>e, <2>1 DEF RowsOf
  <2> QED
    BY <2>1
<1>9. \A kd : AtKind(q, kd) => AtKind(r, kd)
  BY <1>3, <1>e DEF AtKind
<1> QED
  BY <1>1, <1>5, <1>6, <1>7, <1>8, <1>9

(* The row that is closed is one fewer to wait for. *)
LEMMA ClosedRow ==
    ASSUME NEW S, NEW q \in Seq(RowType(S)), NEW k \in DOMAIN q, NEW s2 \in S, NEW st \in S, s2 # st,
           NEW i, NEW n \in Nodes
    PROVE  RowsOf(Closed(q, k, s2), i, n, st) = RowsOf(q, i, n, st) \ {k}
<1>0. PICK r : r = Closed(q, k, s2)
  OBVIOUS
<1>1. q[k] \in RowType(S)
  OBVIOUS
<1>2. DOMAIN r = DOMAIN q /\ r[k] = [q[k] EXCEPT !.status = s2] /\ \A j \in DOMAIN q : j # k => r[j] = q[j]
  BY <1>0 DEF Closed
<1>3. r[k].status = s2
  BY <1>1, <1>2 DEF RowType
<1> QED
  BY <1>0, <1>2, <1>3 DEF RowsOf

(* A token taken from a node of which there is one. *)
LEMMA TakeAt ==
    ASSUME NEW b \in Bag, NEW n \in Nodes
    PROVE  /\ b[n] # 0 => Take(b, n)[n] = b[n] - 1
           /\ \A m \in Nodes : m # n => Take(b, n)[m] = b[m]
           /\ Take(b, n) \in Bag
BY DEF Bag, Take

(* Approving an open task takes its token and closes its row. *)
LEMMA TakeTask ==
    ASSUME NEW i \in Instances, NEW T \in Seq(RowType(TaskStatus)), NEW E,
           NEW b \in Bag, NEW x \in Bag, Tokens(b, i, T, E, x), AtKind(T, "stop"),
           NEW r \in DOMAIN T, T[r].status = "open", T[r].inst = i
    PROVE  Tokens(Take(b, T[r].node), i, Closed(T, r, "approved"), E, x)
<1>1. PICK n : n = T[r].node
  OBVIOUS
<1>2. n \in Nodes /\ K(n) = "stop"
  <2>1. T[r] \in RowType(TaskStatus)
    OBVIOUS
  <2> QED
    BY <1>1, <2>1 DEF RowType, AtKind
<1>3. PICK T2 : T2 = Closed(T, r, "approved")
  OBVIOUS
<1>4. "approved" \in TaskStatus /\ "open" \in TaskStatus
  BY DEF TaskStatus
<1>5. ASSUME NEW m \in Nodes PROVE RowsOf(T2, i, m, "open") = RowsOf(T, i, m, "open") \ {r}
  <2>1. "approved" # "open"
    OBVIOUS
  <2> QED
    BY <1>3, <1>4, <2>1, ClosedRow
<1>6. ASSUME NEW m \in Nodes, K(m) = "stop" PROVE Take(b, n)[m] = Cardinality(RowsOf(T2, i, m, "open")) + x[m]
  <2>1. b[m] = Cardinality(RowsOf(T, i, m, "open")) + x[m] /\ x[m] \in Nat
    BY <1>6 DEF Tokens, Bag
  <2>2. IsFiniteSet(RowsOf(T, i, m, "open")) /\ Cardinality(RowsOf(T, i, m, "open")) \in Nat
    BY RowsFinite
  <2>3. CASE m = n
    <3>1. r \in RowsOf(T, i, m, "open")
      BY <1>1, <2>3 DEF RowsOf
    <3>2. Cardinality(RowsOf(T2, i, m, "open")) = Cardinality(RowsOf(T, i, m, "open")) - 1
      BY <1>5, <2>2, <3>1, FS_RemoveElement
    <3>3. Cardinality(RowsOf(T, i, m, "open")) # 0
      BY <2>2, <3>1, FS_EmptySet
    <3>4. b[n] # 0 /\ b[n] \in Nat
      BY <2>1, <2>2, <2>3, <3>3
    <3> QED
      <4>1. Take(b, n)[n] = b[n] - 1
        BY <1>2, <3>4, TakeAt
      <4> QED
        BY <2>1, <2>2, <2>3, <3>2, <4>1
  <2>4. CASE m # n
    <3>1. RowsOf(T2, i, m, "open") = RowsOf(T, i, m, "open")
      BY <1>1, <1>5, <2>4 DEF RowsOf
    <3> QED
      BY <1>2, <2>1, <2>4, <3>1, TakeAt
  <2> QED
    BY <2>3, <2>4
<1>7. ASSUME NEW m \in Nodes, K(m) = "external" PROVE Take(b, n)[m] = Cardinality(RowsOf(E, i, m, "pending")) + x[m]
  <2>1. m # n
    BY <1>2, <1>7
  <2> QED
    BY <1>2, <1>7, <2>1, TakeAt DEF Tokens
<1>8. Tokens(Take(b, n), i, T2, E, x)
  BY <1>6, <1>7 DEF Tokens
<1> QED
  BY <1>1, <1>3, <1>8

(* Completing a pending execution takes its token and closes its row. *)
LEMMA TakeExt ==
    ASSUME NEW i \in Instances, NEW T, NEW E \in Seq(RowType(ExtStatus)),
           NEW b \in Bag, NEW x \in Bag, Tokens(b, i, T, E, x), AtKind(E, "external"),
           NEW r \in DOMAIN E, E[r].status = "pending", E[r].inst = i
    PROVE  Tokens(Take(b, E[r].node), i, T, Closed(E, r, "completed"), x)
<1>1. PICK n : n = E[r].node
  OBVIOUS
<1>2. n \in Nodes /\ K(n) = "external"
  <2>1. E[r] \in RowType(ExtStatus)
    OBVIOUS
  <2> QED
    BY <1>1, <2>1 DEF RowType, AtKind
<1>3. PICK E2 : E2 = Closed(E, r, "completed")
  OBVIOUS
<1>4. "completed" \in ExtStatus /\ "pending" \in ExtStatus
  BY DEF ExtStatus
<1>5. ASSUME NEW m \in Nodes PROVE RowsOf(E2, i, m, "pending") = RowsOf(E, i, m, "pending") \ {r}
  <2>1. "completed" # "pending"
    OBVIOUS
  <2> QED
    BY <1>3, <1>4, <2>1, ClosedRow
<1>6. ASSUME NEW m \in Nodes, K(m) = "external" PROVE Take(b, n)[m] = Cardinality(RowsOf(E2, i, m, "pending")) + x[m]
  <2>1. b[m] = Cardinality(RowsOf(E, i, m, "pending")) + x[m] /\ x[m] \in Nat
    BY <1>6 DEF Tokens, Bag
  <2>2. IsFiniteSet(RowsOf(E, i, m, "pending")) /\ Cardinality(RowsOf(E, i, m, "pending")) \in Nat
    BY RowsFinite
  <2>3. CASE m = n
    <3>1. r \in RowsOf(E, i, m, "pending")
      BY <1>1, <2>3 DEF RowsOf
    <3>2. Cardinality(RowsOf(E2, i, m, "pending")) = Cardinality(RowsOf(E, i, m, "pending")) - 1
      BY <1>5, <2>2, <3>1, FS_RemoveElement
    <3>3. Cardinality(RowsOf(E, i, m, "pending")) # 0
      BY <2>2, <3>1, FS_EmptySet
    <3>4. b[n] # 0 /\ b[n] \in Nat
      BY <2>1, <2>2, <2>3, <3>3
    <3> QED
      <4>1. Take(b, n)[n] = b[n] - 1
        BY <1>2, <3>4, TakeAt
      <4> QED
        BY <2>1, <2>2, <2>3, <3>2, <4>1
  <2>4. CASE m # n
    <3>1. RowsOf(E2, i, m, "pending") = RowsOf(E, i, m, "pending")
      BY <1>1, <1>5, <2>4 DEF RowsOf
    <3> QED
      BY <1>2, <2>1, <2>4, <3>1, TakeAt
  <2> QED
    BY <2>3, <2>4
<1>7. ASSUME NEW m \in Nodes, K(m) = "stop" PROVE Take(b, n)[m] = Cardinality(RowsOf(T, i, m, "open")) + x[m]
  <2>1. m # n
    BY <1>2, <1>7
  <2> QED
    BY <1>2, <1>7, <2>1, TakeAt DEF Tokens
<1>8. Tokens(Take(b, n), i, T, E2, x)
  BY <1>6, <1>7 DEF Tokens
<1> QED
  BY <1>1, <1>3, <1>8

(* Rejecting an open task leaves its token. *)
LEMMA RejectTask ==
    ASSUME NEW i \in Instances, NEW T \in Seq(RowType(TaskStatus)), NEW E,
           NEW b, NEW x \in Bag, Tokens(b, i, T, E, x), AtKind(T, "stop"),
           NEW r \in DOMAIN T, T[r].status = "open", T[r].inst = i
    PROVE  /\ Tokens(b, i, Closed(T, r, "rejected"), E, Put(x, T[r].node))
           /\ Put(x, T[r].node) \in Bag
<1>1. PICK n : n = T[r].node
  OBVIOUS
<1>2. n \in Nodes /\ K(n) = "stop"
  <2>1. T[r] \in RowType(TaskStatus)
    OBVIOUS
  <2> QED
    BY <1>1, <2>1 DEF RowType, AtKind
<1>3. PICK T2 : T2 = Closed(T, r, "rejected")
  OBVIOUS
<1>4. "rejected" \in TaskStatus /\ "open" \in TaskStatus /\ "rejected" # "open"
  BY DEF TaskStatus
<1>5. ASSUME NEW m \in Nodes PROVE RowsOf(T2, i, m, "open") = RowsOf(T, i, m, "open") \ {r}
  BY <1>3, <1>4, ClosedRow
<1>6. PICK y : y = Put(x, n)
  OBVIOUS
<1>7. y[n] = x[n] + 1 /\ y \in Bag /\ x[n] \in Nat /\ \A m \in Nodes : m # n => y[m] = x[m]
  <2>1. x[n] \in Nat /\ x \in Bag
    BY <1>2 DEF Bag
  <2> QED
    BY <1>2, <1>6, <2>1 DEF Bag, Put
<1>8. ASSUME NEW m \in Nodes, K(m) = "stop" PROVE b[m] = Cardinality(RowsOf(T2, i, m, "open")) + y[m]
  <2>1. b[m] = Cardinality(RowsOf(T, i, m, "open")) + x[m]
    BY <1>8 DEF Tokens
  <2>2. IsFiniteSet(RowsOf(T, i, m, "open")) /\ Cardinality(RowsOf(T, i, m, "open")) \in Nat
    BY RowsFinite
  <2>3. CASE m = n
    <3>1. r \in RowsOf(T, i, m, "open")
      BY <1>1, <2>3 DEF RowsOf
    <3>2. Cardinality(RowsOf(T2, i, m, "open")) = Cardinality(RowsOf(T, i, m, "open")) - 1
      BY <1>5, <2>2, <3>1, FS_RemoveElement
    <3> QED
      BY <1>7, <2>1, <2>2, <2>3, <3>2
  <2>4. CASE m # n
    <3>1. RowsOf(T2, i, m, "open") = RowsOf(T, i, m, "open")
      BY <1>1, <1>5, <2>4 DEF RowsOf
    <3> QED
      BY <1>7, <2>1, <2>4, <3>1
  <2> QED
    BY <2>3, <2>4
<1>9. ASSUME NEW m \in Nodes, K(m) = "external" PROVE b[m] = Cardinality(RowsOf(E, i, m, "pending")) + y[m]
  BY <1>2, <1>7, <1>9 DEF Tokens
<1>10. Tokens(b, i, T2, E, y)
  BY <1>8, <1>9 DEF Tokens
<1> QED
  BY <1>1, <1>3, <1>6, <1>7, <1>10

-----------------------------------------------------------------------------
(* The tables as a handler changes them *)

LEMMA CloseTask ==
    ASSUME NEW X, NEW st, NEW a, NEW T \in Seq(RowType(TaskStatus)), NEW E, TablesBut(X, st, a, T, E),
           NEW r \in DOMAIN T, T[r].inst \in X, T[r].status = "open", NEW s2 \in TaskStatus, s2 # "open"
    PROVE  TablesBut(X, st, a, Closed(T, r, s2), E)
<1>1. PICK T2 : T2 = Closed(T, r, s2)
  OBVIOUS
<1>2. /\ \A j : Clean(T2, j) => Clean(T, j)
      /\ \A j : NoRows(T, j) => NoRows(T2, j)
      /\ \A kd : AtKind(T, kd) => AtKind(T2, kd)
  <2>1. "open" \in TaskStatus /\ "open" # "rejected"
    BY DEF TaskStatus
  <2> QED
    BY <1>1, <2>1, UpdateKeeps
<1>3. ASSUME NEW j \in Instances \ X, NEW n \in Nodes PROVE RowsOf(T2, j, n, "open") = RowsOf(T, j, n, "open")
  <2>1. RowsOf(T2, j, n, "open") = RowsOf(T, j, n, "open") \ {r}
    <3>1. "open" \in TaskStatus
      BY DEF TaskStatus
    <3> QED
      BY <1>1, <3>1, ClosedRow
  <2>2. r \notin RowsOf(T, j, n, "open")
    BY DEF RowsOf
  <2> QED
    BY <2>1, <2>2
<1>4. ASSUME NEW j \in Instances \ X PROVE Accounted(a[j], j, T2, E)
  <2>1. PICK x \in Bag : Tokens(a[j], j, T, E, x) /\ (Clean(T, j) => x = EmptyBag)
    BY DEF TablesBut, Accounted
  <2>2. Tokens(a[j], j, T2, E, x)
    BY <1>3, <2>1 DEF Tokens
  <2> QED
    BY <1>2, <2>1, <2>2 DEF Accounted
<1>5. TablesBut(X, st, a, T2, E)
  BY <1>2, <1>4 DEF TablesBut
<1> QED
  BY <1>1, <1>5

LEMMA CloseExt ==
    ASSUME NEW X, NEW st, NEW a, NEW T, NEW E \in Seq(RowType(ExtStatus)), TablesBut(X, st, a, T, E),
           NEW r \in DOMAIN E, E[r].inst \in X, E[r].status = "pending"
    PROVE  TablesBut(X, st, a, T, Closed(E, r, "completed"))
<1>1. PICK E2 : E2 = Closed(E, r, "completed")
  OBVIOUS
<1>0. "pending" \in ExtStatus /\ "completed" \in ExtStatus /\ "completed" # "pending"
  BY DEF ExtStatus
<1>2. /\ \A j : NoRows(E, j) => NoRows(E2, j)
      /\ \A kd : AtKind(E, kd) => AtKind(E2, kd)
  BY <1>0, <1>1, UpdateKeeps
<1>3. ASSUME NEW j \in Instances \ X, NEW n \in Nodes PROVE RowsOf(E2, j, n, "pending") = RowsOf(E, j, n, "pending")
  <2>1. RowsOf(E2, j, n, "pending") = RowsOf(E, j, n, "pending") \ {r}
    BY <1>0, <1>1, ClosedRow
  <2>2. r \notin RowsOf(E, j, n, "pending")
    BY DEF RowsOf
  <2> QED
    BY <2>1, <2>2
<1>4. ASSUME NEW j \in Instances \ X PROVE Accounted(a[j], j, T, E2)
  <2>1. PICK x \in Bag : Tokens(a[j], j, T, E, x) /\ (Clean(T, j) => x = EmptyBag)
    BY DEF TablesBut, Accounted
  <2>2. Tokens(a[j], j, T, E2, x)
    BY <1>3, <2>1 DEF Tokens
  <2> QED
    BY <2>1, <2>2 DEF Accounted
<1>5. TablesBut(X, st, a, T, E2)
  BY <1>2, <1>4 DEF TablesBut
<1> QED
  BY <1>1, <1>5

(* What createRequest, actOnTask and enterExternalReference write once the *)
(* walk is over.                                                           *)
LEMMA SettleTables ==
    ASSUME NEW i \in Instances, NEW st \in [Instances -> {"none", "running", "completed", "rejected"}],
           NEW a \in [Instances -> Bag],
           NEW T \in Seq(RowType(TaskStatus)), NEW E \in Seq(RowType(ExtStatus)), TablesBut({i}, st, a, T, E),
           NEW w \in WalkType, NEW b \in Bag, WalkFrom(w, b), Rests(w.active),
           Accounted(b, i, T, E), NEW x, x # "none"
    PROVE  TablesBut({}, [st EXCEPT ![i] = x], [a EXCEPT ![i] = w.active],
                     T \o Rows(i, w.stops, "open"), E \o Rows(i, w.parks, "pending"))
<1>1. PICK T2 : T2 = T \o Rows(i, w.stops, "open")
  OBVIOUS
<1>2. PICK E2 : E2 = E \o Rows(i, w.parks, "pending")
  OBVIOUS
<1>3. PICK st2 : st2 = [st EXCEPT ![i] = x]
  OBVIOUS
<1>4. PICK a2 : a2 = [a EXCEPT ![i] = w.active]
  OBVIOUS
<1>5. /\ st2[i] = x /\ a2[i] = w.active
      /\ \A j \in Instances : j # i => st2[j] = st[j] /\ a2[j] = a[j]
  BY <1>3, <1>4
<1>6. /\ w.stops \in Seq(Nodes) /\ w.parks \in Seq(Nodes) /\ "open" \in TaskStatus /\ "pending" \in ExtStatus
      /\ \A k \in DOMAIN w.stops : K(w.stops[k]) = "stop"
      /\ \A k \in DOMAIN w.parks : K(w.parks[k]) = "external"
  BY DEF WalkType, TaskStatus, ExtStatus, WalkFrom
<1>7. /\ \A j : Clean(T2, j) => Clean(T, j)
      /\ \A j : j # i /\ NoRows(T, j) => NoRows(T2, j)
      /\ \A j, s2 : \A n \in Nodes : j # i => RowsOf(T2, j, n, s2) = RowsOf(T, j, n, s2)
      /\ AtKind(T, "stop") => AtKind(T2, "stop")
  BY <1>1, <1>6, InsertKeeps
<1>8. /\ \A j : j # i /\ NoRows(E, j) => NoRows(E2, j)
      /\ \A j, s2 : \A n \in Nodes : j # i => RowsOf(E2, j, n, s2) = RowsOf(E, j, n, s2)
      /\ AtKind(E, "external") => AtKind(E2, "external")
  BY <1>2, <1>6, InsertKeeps
<1>9. AtKind(T2, "stop") /\ AtKind(E2, "external") /\ \A j \in Instances : Rests(a2[j])
  BY <1>5, <1>7, <1>8 DEF TablesBut
<1>10. ASSUME NEW j \in Instances, st2[j] = "none" PROVE a2[j] = EmptyBag /\ NoRows(T2, j) /\ NoRows(E2, j)
  <2>1. j # i /\ st[j] = "none" /\ a2[j] = a[j]
    BY <1>5, <1>10
  <2> QED
    BY <1>7, <1>8, <2>1 DEF TablesBut
<1>11. ASSUME NEW j \in Instances PROVE Accounted(a2[j], j, T2, E2)
  <2>1. CASE j = i
    <3>1. PICK y \in Bag : Tokens(b, i, T, E, y) /\ (Clean(T, i) => y = EmptyBag)
      BY DEF Accounted
    <3>2. Tokens(w.active, i, T2, E2, y)
      BY <1>1, <1>2, <3>1, SettledTokens
    <3> QED
      BY <1>5, <1>7, <2>1, <3>1, <3>2 DEF Accounted
  <2>2. CASE j # i
    <3>1. Accounted(a[j], j, T, E) /\ a2[j] = a[j]
      BY <1>5, <2>2 DEF TablesBut
    <3>2. PICK y \in Bag : Tokens(a[j], j, T, E, y) /\ (Clean(T, j) => y = EmptyBag)
      BY <3>1 DEF Accounted
    <3>3. Tokens(a[j], j, T2, E2, y)
      BY <1>7, <1>8, <2>2, <3>2 DEF Tokens
    <3> QED
      BY <1>7, <3>1, <3>2, <3>3 DEF Accounted
  <2> QED
    BY <2>1, <2>2
<1>12. TablesBut({}, st2, a2, T2, E2)
  BY <1>9, <1>10, <1>11 DEF TablesBut
<1> QED
  BY <1>1, <1>2, <1>3, <1>4, <1>12

-----------------------------------------------------------------------------
(* The seeded instances have one token and one open task each. *)
LEMMA TokenInit == Init => TokenInv
<1> SUFFICES ASSUME Init PROVE TokenInv
  OBVIOUS
<1>1. PICK m : m = Cardinality(Seeded)
  OBVIOUS
<1>2. m \in Nat /\ Cardinality(1 .. m) = m /\ IsFiniteSet(1 .. m)
  <2>1. m \in Nat
    BY <1>1, ConstantsAssumption, FS_CardinalityType
  <2> QED
    BY <2>1, FS_Interval
<1>3. PICK seq \in [1 .. m -> Seeded] :
         /\ \A j, k \in DOMAIN seq : seq[j] = seq[k] => j = k
         /\ tasks = [k \in DOMAIN seq |-> [inst |-> seq[k], node |-> SeedNode, status |-> "open"]]
  BY <1>1 DEF Init
<1>4. seq \in Surjection(1 .. m, Seeded)
  <2>1. seq \in Injection(1 .. m, Seeded)
    BY <1>3 DEF Injection, IsInjective
  <2> QED
    BY <1>1, <1>2, <2>1, FS_Injection, ConstantsAssumption
<1>5. \A i \in Seeded : \E k \in 1 .. m : seq[k] = i
  BY <1>4 DEF Surjection
<1>6. DOMAIN tasks = 1 .. m /\ \A k \in 1 .. m : tasks[k] = [inst |-> seq[k], node |-> SeedNode, status |-> "open"]
  BY <1>3
<1>7. \A k \in 1 .. m : tasks[k].inst = seq[k] /\ tasks[k].node = SeedNode /\ tasks[k].status = "open" /\ seq[k] \in Seeded
  BY <1>6
<1>8. exts = <<>> /\ DOMAIN exts = {} /\ \A i, n, s : RowsOf(exts, i, n, s) = {}
  BY DEF Init, RowsOf
<1>9. ASSUME NEW i \in Instances, i \notin Seeded PROVE active[i] = EmptyBag /\ NoRows(tasks, i)
  BY <1>6, <1>7, <1>9 DEF Init, NoRows
<1>10. ASSUME NEW i \in Instances, i \in Seeded
       PROVE  /\ active[i][SeedNode] = 1 /\ status[i] = "running"
              /\ \A n \in Nodes : n # SeedNode => active[i][n] = 0
  BY <1>10, ConstantsAssumption DEF Init, Put, EmptyBag
<1>z. EmptyBag \in Bag /\ \A n \in Nodes : EmptyBag[n] = 0
  BY NoTxType DEF EmptyBag
<1>11. ASSUME NEW i \in Instances PROVE Tokens(active[i], i, tasks, exts, EmptyBag)
  <2>1. CASE i \notin Seeded
    <3>1. active[i] = EmptyBag /\ \A n \in Nodes : EmptyBag[n] = 0
      BY <1>9, <2>1 DEF EmptyBag
    <3>2. \A n \in Nodes : RowsOf(tasks, i, n, "open") = {}
      BY <1>9, <2>1 DEF RowsOf, NoRows
    <3> QED
      <4>1. Cardinality({}) = 0 /\ 0 + 0 = 0
        BY FS_EmptySet
      <4>2. ASSUME NEW n \in Nodes PROVE /\ active[i][n] = 0 /\ EmptyBag[n] = 0
                                         /\ RowsOf(tasks, i, n, "open") = {} /\ RowsOf(exts, i, n, "pending") = {}
        BY <1>8, <3>1, <3>2
      <4>3. ASSUME NEW n \in Nodes PROVE /\ active[i][n] = Cardinality(RowsOf(tasks, i, n, "open")) + EmptyBag[n]
                                         /\ active[i][n] = Cardinality(RowsOf(exts, i, n, "pending")) + EmptyBag[n]
        BY <4>1, <4>2
      <4> QED
        BY <4>3 DEF Tokens
  <2>2. CASE i \in Seeded
    <3>1. PICK k \in 1 .. m : seq[k] = i
      BY <1>5, <2>2
    <3>2. RowsOf(tasks, i, SeedNode, "open") = {k}
      <4>1. \A j \in 1 .. m : seq[j] = i => j = k
        BY <1>3, <3>1
      <4> QED
        BY <1>6, <1>7, <3>1, <4>1 DEF RowsOf
    <3>3. \A n \in Nodes : n # SeedNode => RowsOf(tasks, i, n, "open") = {}
      BY <1>6, <1>7 DEF RowsOf
    <3>4. Cardinality({k}) = 1 /\ Cardinality({}) = 0
      BY FS_Singleton, FS_EmptySet
    <3>5. K(SeedNode) = "stop"
      BY ConstantsAssumption DEF K
    <3> QED
      <4>1. Cardinality({}) = 0 /\ Cardinality({k}) = 1 /\ 0 + 0 = 0 /\ 1 + 0 = 1
        BY <3>4
      <4>2. ASSUME NEW n \in Nodes PROVE /\ K(n) = "stop" => active[i][n] = Cardinality(RowsOf(tasks, i, n, "open")) + EmptyBag[n]
                                         /\ K(n) = "external" => active[i][n] = Cardinality(RowsOf(exts, i, n, "pending")) + EmptyBag[n]
        <5>1. EmptyBag[n] = 0 /\ RowsOf(exts, i, n, "pending") = {}
          BY <1>8, <1>z
        <5>2. CASE n = SeedNode
          <6>1. active[i][n] = 1 /\ RowsOf(tasks, i, n, "open") = {k} /\ K(n) # "external"
            BY <1>10, <2>2, <3>2, <3>5, <5>2
          <6> QED
            BY <4>1, <5>1, <6>1
        <5>3. CASE n # SeedNode
          <6>1. active[i][n] = 0 /\ RowsOf(tasks, i, n, "open") = {}
            BY <1>10, <2>2, <3>3, <5>3
          <6> QED
            BY <4>1, <5>1, <6>1
        <5> QED
          BY <5>2, <5>3
      <4> QED
        BY <4>2 DEF Tokens
  <2> QED
    BY <2>1, <2>2
<1>12. ASSUME NEW i \in Instances PROVE Rests(active[i])
  <2>1. K(SeedNode) = "stop"
    BY ConstantsAssumption DEF K
  <2>2. CASE i \in Seeded
    BY <1>10, <2>1, <2>2 DEF Rests
  <2>3. CASE i \notin Seeded
    BY <1>9, <2>3, NothingRests
  <2> QED
    BY <2>2, <2>3
<1>13. AtKind(tasks, "stop") /\ AtKind(exts, "external")
  BY <1>6, <1>7, <1>8, ConstantsAssumption DEF AtKind, K
<1>14. ASSUME NEW i \in Instances, status[i] = "none"
       PROVE  active[i] = EmptyBag /\ NoRows(tasks, i) /\ NoRows(exts, i)
  <2>1. i \notin Seeded
    BY <1>10, <1>14
  <2> QED
    BY <1>8, <1>9, <2>1 DEF NoRows
<1>15. TablesBut({}, status, active, tasks, exts)
  BY <1>11, <1>12, <1>13, <1>14, <1>z DEF TablesBut, Accounted
<1>16. ASSUME NEW c \in Clients PROVE FreshTx(tx[c])
  <2>1. tx[c] = NoTx /\ NoTx.op = "idle"
    BY DEF Init, NoTx
  <2> QED
    BY <2>1, NothingRests DEF FreshTx
<1> QED
  BY <1>15, <1>16 DEF TokenInv

LEMMA TokenNext ==
    ASSUME OneAtATime, SameKinds
    PROVE  TypeInv /\ TokenInv /\ [Next]_vars => TokenInv'
<1> SUFFICES ASSUME TypeInv, TokenInv, [Next]_vars PROVE TokenInv'
  OBVIOUS
<1>0. TypeOK
  BY DEF TypeInv
<1>t. /\ status \in [Instances -> {"none", "running", "completed", "rejected"}]
      /\ active \in [Instances -> Bag]
      /\ tasks \in Seq(RowType(TaskStatus)) /\ exts \in Seq(RowType(ExtStatus))
      /\ tx \in [Clients -> TxType]
  BY <1>0 DEF TypeOK, TaskStatus, ExtStatus
<1>i. NoTx.op = "idle" /\ Rests(NoTx.walk.active)
  BY NothingRests DEF NoTx
<1>b. TablesBut({}, status, active, tasks, exts) /\ \A c \in Clients : FreshTx(tx[c])
  BY DEF TokenInv
<1>x. \A X : TablesBut(X, status, active, tasks, exts)
  BY <1>b DEF TablesBut
(* A step in the handler's own memory. *)
<1>o. ASSUME NEW c \in Clients, NEW t, tx' = [tx EXCEPT ![c] = t], FreshTx(t),
             UNCHANGED <<status, active, tasks, exts>>
      PROVE  TokenInv'
  <2>1. TablesBut({}, status, active, tasks, exts)'
    BY <1>o, <1>b DEF TablesBut
  <2>2. ASSUME NEW d \in Clients PROVE FreshTx(tx[d])'
    <3>1. tx'[d] = t
      BY <1>o, <1>t DEF OneAtATime
    <3> QED
      BY <1>o, <3>1 DEF FreshTx
  <2> QED
    BY <2>1, <2>2 DEF TokenInv
(* A commit: nothing is left open. *)
<1>e. ASSUME NEW c \in Clients, End(c), TablesBut({}, status', active', tasks', exts') PROVE TokenInv'
  <2>1. ASSUME NEW d \in Clients PROVE FreshTx(tx[d])'
    <3>1. tx'[d] = NoTx
      BY <1>e, <1>t DEF OneAtATime, End
    <3> QED
      BY <1>i, <3>1 DEF FreshTx
  <2> QED
    BY <1>e, <2>1 DEF TokenInv
<1>1. ASSUME NEW c \in Clients, NEW i \in Instances, NEW k, NEW h, CreateBegin(c, i, k, h) PROVE TokenInv'
  <2> DEFINE w == Walk(NextTarget(def, Start, h), EmptyBag)
             t == [NoTx EXCEPT !.op = "create", !.inst = i, !.key = k, !.def = def, !.holds = h, !.walk = w]
  <2>1. tx' = [tx EXCEPT ![c] = t] /\ UNCHANGED <<status, active, tasks, exts>> /\ status[i] = "none"
    BY <1>1 DEF CreateBegin, Begin, rows
  <2>2. WalkFrom(w, EmptyBag) /\ w.active = EmptyBag
    BY NoTxType, WalkBegins
  <2> HIDE DEF w
  <2>3. t.op = "create" /\ t.inst = i /\ t.walk = w
    BY NoTxType DEF TxType
  <2> HIDE DEF t
  <2>4. FreshTx(t)
    BY <2>1, <2>2, <2>3, NothingRests DEF FreshTx
  <2> QED
    BY <1>o, <2>1, <2>4
<1>2. ASSUME NEW c \in Clients, NEW j \in DOMAIN tasks, NEW k, NEW approve \in BOOLEAN, ActBegin(c, j, k, approve)
      PROVE  TokenInv'
  <2> DEFINE i == tasks[j].inst
             n == tasks[j].node
             w == Walk(NextTarget(def, n, holds[i]), Take(active[i], n))
             t == [NoTx EXCEPT !.op = IF approve THEN "approve" ELSE "reject",
                               !.inst = i, !.ref = j, !.key = k, !.def = def, !.holds = holds[i],
                               !.walk = IF approve THEN w ELSE @]
  <2>0. i \in Instances /\ n \in Nodes
    <3>1. tasks[j] \in RowType(TaskStatus)
      BY <1>t
    <3> QED
      BY <3>1 DEF RowType
  <2>1. tx' = [tx EXCEPT ![c] = t] /\ UNCHANGED <<status, active, tasks, exts>> /\ tasks[j].status = "open"
    BY <1>2 DEF ActBegin, Begin, rows
  <2>2. Take(active[i], n) \in Bag /\ Rests(Take(active[i], n))
    <3>1. active[i] \in Bag /\ Rests(active[i])
      BY <1>t, <1>b, <2>0 DEF TablesBut
    <3> QED
      BY <2>0, <3>1, TakeRests, TakeAt
  <2>3. WalkFrom(w, Take(active[i], n)) /\ w.active = Take(active[i], n)
    BY <2>2, WalkBegins
  <2> HIDE DEF w
  <2>4. /\ t.op = (IF approve THEN "approve" ELSE "reject") /\ t.inst = i /\ t.ref = j
        /\ t.walk = IF approve THEN w ELSE NoTx.walk
    <3> HIDE DEF i, n
    <3> QED
      BY NoTxType DEF TxType
  <2> HIDE DEF t
  <2>5. FreshTx(t)
    <3>1. Rests(t.walk.active)
      BY <1>i, <2>2, <2>3, <2>4
    <3> QED
      BY <2>1, <2>3, <2>4, <3>1 DEF FreshTx
  <2> QED
    BY <1>o, <2>1, <2>5
<1>3. ASSUME NEW c \in Clients, NEW e \in DOMAIN exts, ExtBegin(c, e) PROVE TokenInv'
  <2> DEFINE t == [NoTx EXCEPT !.op = "extRead", !.inst = exts[e].inst, !.ref = e]
  <2>1. tx' = [tx EXCEPT ![c] = t] /\ UNCHANGED <<status, active, tasks, exts>> /\ exts[e].status = "pending"
    BY <1>3 DEF ExtBegin, Begin, rows
  <2>2. t.op = "extRead" /\ t.inst = exts[e].inst /\ t.ref = e /\ t.walk = NoTx.walk
    BY NoTxType DEF TxType
  <2> HIDE DEF t
  <2>3. FreshTx(t)
    BY <1>i, <2>1, <2>2 DEF FreshTx
  <2> QED
    BY <1>o, <2>1, <2>3
<1>4. ASSUME NEW c \in Clients, ExtLock(c) PROVE TokenInv'
  <2> DEFINE t == [tx[c] EXCEPT !.op = "extCmd", !.cmd = NewestCommand(exts[tx[c].ref].node)]
  <2>1. tx' = [tx EXCEPT ![c] = t] /\ UNCHANGED <<status, active, tasks, exts>> /\ tx[c].op = "extRead"
    BY <1>0, <1>4 DEF ExtLock, TypeOK, TxType, rows
  <2>2. t.op = "extCmd" /\ t.inst = tx[c].inst /\ t.ref = tx[c].ref /\ t.walk = tx[c].walk
    BY <1>t DEF TxType
  <2> HIDE DEF t
  <2>3. FreshTx(t)
    <3>1. FreshTx(tx[c])
      BY <1>b
    <3> QED
      BY <2>1, <2>2, <3>1 DEF FreshTx
  <2> QED
    BY <1>o, <2>1, <2>3
<1>5. ASSUME NEW c \in Clients, ExtReadInstance(c) PROVE TokenInv'
  <2> DEFINE i == tx[c].inst
             n == exts[tx[c].ref].node
             w == Walk(NextTarget(def, n, holds[i]), Take(active[i], n))
             t == [tx[c] EXCEPT !.op = "ext", !.def = def, !.holds = holds[i], !.walk = w]
  <2>0. i \in Instances /\ n \in Nodes
    <3>1. tx[c].ref \in DOMAIN exts
      BY <1>5 DEF TypeInv, RefOK, ExtReadInstance
    <3>2. exts[tx[c].ref] \in RowType(ExtStatus)
      BY <1>t, <3>1
    <3> QED
      BY <1>t, <3>2, TxFields DEF RowType
  <2>1. tx' = [tx EXCEPT ![c] = t] /\ UNCHANGED <<status, active, tasks, exts>> /\ tx[c].op = "extCmd"
    BY <1>0, <1>5 DEF ExtReadInstance, TypeOK, TxType, rows
  <2>2. Take(active[i], n) \in Bag /\ Rests(Take(active[i], n))
    <3>1. active[i] \in Bag /\ Rests(active[i])
      BY <1>t, <1>b, <2>0 DEF TablesBut
    <3> QED
      BY <2>0, <3>1, TakeRests, TakeAt
  <2>3. WalkFrom(w, Take(active[i], n)) /\ w.active = Take(active[i], n)
    BY <2>2, WalkBegins
  <2> HIDE DEF w
  <2>4. t.op = "ext" /\ t.inst = i /\ t.ref = tx[c].ref /\ t.walk = w
    BY <1>t DEF TxType
  <2> HIDE DEF t
  <2>5. FreshTx(t)
    <3>1. FreshTx(tx[c])
      BY <1>b
    <3>2. exts[t.ref].status = "pending" /\ exts[t.ref].inst = t.inst
      BY <2>1, <2>4, <3>1 DEF FreshTx
    <3> QED
      BY <2>2, <2>3, <2>4, <3>2 DEF FreshTx
  <2> QED
    BY <1>o, <2>1, <2>5
<1>6. ASSUME NEW c \in Clients, AdvanceMulti(c) PROVE TokenInv'
  <2> DEFINE w == WalkStep(tx[c].def, tx[c].holds, tx[c].walk)
             t == [tx[c] EXCEPT !.walk = w]
  <2>0. tx[c].walk \in WalkType /\ tx[c].walk.work # <<>> /\ tx[c].def \in Definitions
    <3>1. tx[c].walk \in WalkType /\ tx[c].def \in Definitions
      BY <1>t, TxFields
    <3> QED
      BY <1>6, <3>1 DEF AdvanceMulti, WalkDone
  <2>1. /\ tx' = [tx EXCEPT ![c] = t] /\ UNCHANGED <<status, active, tasks, exts>>
        /\ tx[c].op \in {"create", "approve", "ext"}
    BY <1>0, <1>6 DEF AdvanceMulti, TypeOK, TxType, rows
  <2>2. FreshTx(tx[c]) /\ Rests(tx[c].walk.active)
    BY <1>b DEF FreshTx
  <2>3. \A b \in Bag : WalkFrom(tx[c].walk, b) => WalkFrom(w, b)
    BY <2>0, WalkStepFrom
  <2>4. Rests(w.active)
    BY <2>0, <2>2, WalkStepRests
  <2> HIDE DEF w
  <2>5. t.op = tx[c].op /\ t.inst = tx[c].inst /\ t.ref = tx[c].ref /\ t.walk = w
    BY <1>t DEF TxType
  <2> HIDE DEF t
  <2>6. tx[c].inst \in Instances /\ active[tx[c].inst] \in Bag
    BY <1>t, TxFields
  <2>7. CASE tx[c].op = "create"
    <3>1. status[t.inst] = "none" /\ WalkFrom(t.walk, EmptyBag)
      BY <2>2, <2>3, <2>5, <2>7, NoTxType DEF FreshTx
    <3> QED
      BY <1>o, <2>1, <2>4, <2>5, <2>7, <3>1 DEF FreshTx
  <2>8. CASE tx[c].op = "approve"
    <3>1. tx[c].ref \in DOMAIN tasks
      BY <2>8 DEF TypeInv, RefOK
    <3>2. tasks[tx[c].ref].node \in Nodes
      <4>1. tasks[tx[c].ref] \in RowType(TaskStatus)
        BY <1>t, <3>1
      <4> QED
        BY <4>1 DEF RowType
    <3>3. Take(active[tx[c].inst], tasks[tx[c].ref].node) \in Bag
      BY <2>6, <3>2, TakeAt
    <3>4. WalkFrom(t.walk, Take(active[t.inst], tasks[t.ref].node))
      BY <2>2, <2>3, <2>5, <2>8, <3>3 DEF FreshTx
    <3>5. tasks[t.ref].status = "open" /\ tasks[t.ref].inst = t.inst
      BY <2>2, <2>5, <2>8 DEF FreshTx
    <3> QED
      BY <1>o, <2>1, <2>4, <2>5, <2>8, <3>4, <3>5 DEF FreshTx
  <2>9. CASE tx[c].op = "ext"
    <3>1. tx[c].ref \in DOMAIN exts
      BY <2>9 DEF TypeInv, RefOK
    <3>2. exts[tx[c].ref].node \in Nodes
      <4>1. exts[tx[c].ref] \in RowType(ExtStatus)
        BY <1>t, <3>1
      <4> QED
        BY <4>1 DEF RowType
    <3>3. Take(active[tx[c].inst], exts[tx[c].ref].node) \in Bag
      BY <2>6, <3>2, TakeAt
    <3>4. WalkFrom(t.walk, Take(active[t.inst], exts[t.ref].node))
      BY <2>2, <2>3, <2>5, <2>9, <3>3 DEF FreshTx
    <3>5. exts[t.ref].status = "pending" /\ exts[t.ref].inst = t.inst
      BY <2>2, <2>5, <2>9 DEF FreshTx
    <3> QED
      BY <1>o, <2>1, <2>4, <2>5, <2>9, <3>4, <3>5 DEF FreshTx
  <2> QED
    BY <2>1, <2>7, <2>8, <2>9
<1>s. ASSUME NEW i \in Instances, NEW w \in WalkType, Settle(i, w)
      PROVE  \E x : /\ x # "none" /\ status' = [status EXCEPT ![i] = x]
                    /\ active' = [active EXCEPT ![i] = w.active]
  <2>1. PICK x : x = IF w.active = EmptyBag THEN "completed" ELSE "running"
    OBVIOUS
  <2>2. x # "none"
    BY <2>1
  <2>3. status' = [status EXCEPT ![i] = x] /\ active' = [active EXCEPT ![i] = w.active]
    BY <1>s, <2>1 DEF Settle
  <2> QED
    BY <2>2, <2>3
<1>7. ASSUME NEW c \in Clients, CreateCommit(c) PROVE TokenInv'
  <2> DEFINE i == tx[c].inst
             w == tx[c].walk
  <2>0. i \in Instances /\ w \in WalkType
    BY <1>t, TxFields
  <2>1. /\ tx[c].op = "create" /\ Settle(i, w) /\ End(c)
        /\ tasks' = tasks \o Rows(i, w.stops, "open") /\ exts' = exts \o Rows(i, w.parks, "pending")
    BY <1>7 DEF CreateCommit, MaterializeStops, CreateExternals
  <2>2. WalkFrom(w, EmptyBag) /\ Rests(w.active) /\ status[i] = "none"
    BY <1>b, <2>1 DEF FreshTx
  <2> HIDE DEF i, w
  <2>3. Accounted(EmptyBag, i, tasks, exts)
    BY <1>b, <2>0, <2>2 DEF TablesBut
  <2>4. PICK x : x # "none" /\ status' = [status EXCEPT ![i] = x] /\ active' = [active EXCEPT ![i] = w.active]
    BY <1>s, <2>0, <2>1
  <2>5. TablesBut({}, status', active', tasks', exts')
    BY <1>t, <1>x, <2>0, <2>1, <2>2, <2>3, <2>4, NoTxType, SettleTables
  <2> QED
    BY <1>e, <2>1, <2>5
<1>8. ASSUME NEW c \in Clients, ApproveCommit(c) PROVE TokenInv'
  <2> DEFINE i == tx[c].inst
             w == tx[c].walk
             r == tx[c].ref
             T2 == Closed(tasks, r, "approved")
             b == Take(active[i], tasks[r].node)
  <2>0. i \in Instances /\ w \in WalkType
    BY <1>t, TxFields
  <2>1. /\ tx[c].op = "approve" /\ Settle(i, w) /\ End(c)
        /\ tasks' = T2 \o Rows(i, w.stops, "open") /\ exts' = exts \o Rows(i, w.parks, "pending")
    BY <1>8 DEF ApproveCommit, MaterializeStops, CreateExternals, Closed
  <2>2. WalkFrom(w, b) /\ Rests(w.active) /\ tasks[r].status = "open" /\ tasks[r].inst = i
    BY <1>b, <2>1 DEF FreshTx
  <2>3. r \in DOMAIN tasks
    BY <2>1 DEF TypeInv, RefOK
  <2>4. "approved" \in TaskStatus /\ "approved" # "open" /\ "open" \in TaskStatus
    BY DEF TaskStatus
  <2>5. T2 \in Seq(RowType(TaskStatus))
    BY <1>t, <2>3, <2>4, StatusUpdate DEF Closed
  <2>6. tasks[r].node \in Nodes
    <3>1. tasks[r] \in RowType(TaskStatus)
      BY <1>t, <2>3
    <3> QED
      BY <3>1 DEF RowType
  <2>7. active[i] \in Bag /\ b \in Bag
    BY <1>t, <2>0, <2>6, TakeAt
  <2>8. TablesBut({i}, status, active, T2, exts)
    <3>1. tasks[r].inst \in {i} /\ TablesBut({i}, status, active, tasks, exts)
      BY <1>x, <2>2
    <3> HIDE DEF i, w
    <3> QED
      BY <1>t, <2>2, <2>3, <2>4, <3>1, CloseTask
  <2>9. Accounted(b, i, T2, exts)
    <3>1. Clean(T2, i) => Clean(tasks, i)
      <4>1. "open" # "rejected"
        OBVIOUS
      <4> HIDE DEF i, w
      <4> QED
        BY <1>t, <2>2, <2>3, <2>4, <4>1, UpdateKeeps
    <3>2. PICK x \in Bag : Tokens(active[i], i, tasks, exts, x) /\ (Clean(tasks, i) => x = EmptyBag)
      BY <1>b, <2>0 DEF TablesBut, Accounted
    <3>3. AtKind(tasks, "stop")
      BY <1>b DEF TablesBut
    <3> HIDE DEF i, w
    <3>4. Tokens(b, i, T2, exts, x)
      BY <1>t, <2>0, <2>2, <2>3, <2>7, <3>2, <3>3, TakeTask
    <3> QED
      BY <3>1, <3>2, <3>4 DEF Accounted
  <2>10. PICK x : x # "none" /\ status' = [status EXCEPT ![i] = x] /\ active' = [active EXCEPT ![i] = w.active]
    BY <1>s, <2>0, <2>1
  <2> HIDE DEF i, w, b, T2, r
  <2>11. TablesBut({}, status', active', tasks', exts')
    BY <1>t, <2>0, <2>1, <2>2, <2>5, <2>7, <2>8, <2>9, <2>10, SettleTables
  <2> QED
    BY <1>e, <2>1, <2>11
<1>9. ASSUME NEW c \in Clients, RejectCommit(c) PROVE TokenInv'
  <2> DEFINE i == tx[c].inst
             r == tx[c].ref
             T2 == Closed(tasks, r, "rejected")
  <2>0. i \in Instances
    BY <1>t, TxFields
  <2>1. /\ tx[c].op = "reject" /\ End(c) /\ UNCHANGED <<active, exts>>
        /\ tasks' = T2 /\ status' = [status EXCEPT ![i] = "rejected"]
    BY <1>9 DEF RejectCommit, Closed
  <2>2. tasks[r].status = "open" /\ tasks[r].inst = i
    BY <1>b, <2>1 DEF FreshTx
  <2>3. r \in DOMAIN tasks
    BY <2>1 DEF TypeInv, RefOK
  <2>4. "rejected" \in TaskStatus /\ "rejected" # "open" /\ "open" \in TaskStatus
    BY DEF TaskStatus
  <2> HIDE DEF i, r
  <2>5. TablesBut({i}, status, active, T2, exts)
    <3>1. tasks[r].inst \in {i} /\ TablesBut({i}, status, active, tasks, exts)
      BY <1>x, <2>2
    <3> QED
      BY <1>t, <2>2, <2>3, <2>4, <3>1, CloseTask
  <2>6. ~Clean(T2, i)
    BY <1>t, <2>2, <2>3, <2>4, UpdateKeeps
  <2> HIDE DEF T2
  <2>7. status'[i] = "rejected" /\ \A j \in Instances \ {i} : status'[j] = status[j]
    BY <1>t, <2>0, <2>1
  <2>9. Accounted(active[i], i, T2, exts)
    <3>1. PICK x \in Bag : Tokens(active[i], i, tasks, exts, x)
      BY <1>b, <2>0 DEF TablesBut, Accounted
    <3>2. Tokens(active[i], i, T2, exts, Put(x, tasks[r].node)) /\ Put(x, tasks[r].node) \in Bag
      BY <1>b, <1>t, <2>0, <2>2, <2>3, <3>1, RejectTask DEF TablesBut, T2
    <3> QED
      BY <2>6, <3>2 DEF Accounted
  <2>8. TablesBut({}, status', active', tasks', exts')
    BY <2>1, <2>5, <2>6, <2>7, <2>9 DEF TablesBut
  <2> QED
    BY <1>e, <2>1, <2>8
<1>10. ASSUME NEW c \in Clients, ExtCommit(c) PROVE TokenInv'
  <2> DEFINE i == tx[c].inst
             w == tx[c].walk
             r == tx[c].ref
             E2 == Closed(exts, r, "completed")
             b == Take(active[i], exts[r].node)
  <2>0. i \in Instances /\ w \in WalkType
    BY <1>t, TxFields
  <2>1. /\ tx[c].op = "ext" /\ Settle(i, w) /\ End(c)
        /\ tasks' = tasks \o Rows(i, w.stops, "open") /\ exts' = E2 \o Rows(i, w.parks, "pending")
    BY <1>10 DEF ExtCommit, MaterializeStops, CreateExternals, Closed
  <2>2. WalkFrom(w, b) /\ Rests(w.active) /\ exts[r].status = "pending" /\ exts[r].inst = i
    BY <1>b, <2>1 DEF FreshTx
  <2>3. r \in DOMAIN exts
    BY <2>1 DEF TypeInv, RefOK
  <2>4. "completed" \in ExtStatus
    BY DEF ExtStatus
  <2>5. E2 \in Seq(RowType(ExtStatus))
    BY <1>t, <2>3, <2>4, StatusUpdate DEF Closed
  <2>6. exts[r].node \in Nodes
    <3>1. exts[r] \in RowType(ExtStatus)
      BY <1>t, <2>3
    <3> QED
      BY <3>1 DEF RowType
  <2>7. active[i] \in Bag /\ b \in Bag
    BY <1>t, <2>0, <2>6, TakeAt
  <2>8. TablesBut({i}, status, active, tasks, E2)
    <3>1. exts[r].inst \in {i} /\ TablesBut({i}, status, active, tasks, exts)
      BY <1>x, <2>2
    <3> HIDE DEF i, w
    <3> QED
      BY <1>t, <2>2, <2>3, <3>1, CloseExt
  <2>9. Accounted(b, i, tasks, E2)
    <3>1. PICK x \in Bag : Tokens(active[i], i, tasks, exts, x) /\ (Clean(tasks, i) => x = EmptyBag)
      BY <1>b, <2>0 DEF TablesBut, Accounted
    <3>2. AtKind(exts, "external")
      BY <1>b DEF TablesBut
    <3> HIDE DEF i, w
    <3>3. Tokens(b, i, tasks, E2, x)
      BY <1>t, <2>0, <2>2, <2>3, <2>7, <3>1, <3>2, TakeExt
    <3> QED
      BY <3>1, <3>3 DEF Accounted
  <2>10. PICK x : x # "none" /\ status' = [status EXCEPT ![i] = x] /\ active' = [active EXCEPT ![i] = w.active]
    BY <1>s, <2>0, <2>1
  <2> HIDE DEF i, w, b, E2, r
  <2>11. TablesBut({}, status', active', tasks', exts')
    BY <1>t, <2>0, <2>1, <2>2, <2>5, <2>7, <2>8, <2>9, <2>10, SettleTables
  <2> QED
    BY <1>e, <2>1, <2>11
<1>11. ASSUME NEW c \in Clients, PublishCommit(c) \/ Rollback(c) PROVE TokenInv'
  <2>1. tx' = [tx EXCEPT ![c] = NoTx] /\ UNCHANGED <<status, active, tasks, exts>>
    BY <1>11 DEF PublishCommit, Rollback, End, rows
  <2>2. FreshTx(NoTx)
    BY <1>i DEF FreshTx
  <2> QED
    BY <1>o, <2>1, <2>2
<1>12. ASSUME NEW c \in Clients, NEW d, PublishBegin(c, d) PROVE TokenInv'
  <2> DEFINE t == [NoTx EXCEPT !.op = "publish", !.def = d, !.ref = LatestVersion.no + 1]
  <2>1. tx' = [tx EXCEPT ![c] = t] /\ UNCHANGED <<status, active, tasks, exts>>
    BY <1>12 DEF PublishBegin, Begin, rows
  <2>2. t.op = "publish" /\ t.walk = NoTx.walk
    BY NoTxType DEF TxType
  <2> HIDE DEF t
  <2>3. FreshTx(t)
    BY <1>i, <2>2 DEF FreshTx
  <2> QED
    BY <1>o, <2>1, <2>3
<1>13. ASSUME Restart PROVE TokenInv'
  <2>1. /\ UNCHANGED <<active, tasks, exts>>
        /\ \A i \in Instances : status'[i] = "none" => status[i] = "none"
        /\ \A c \in Clients : tx'[c] = NoTx
    BY <1>13 DEF Restart
  <2>2. TablesBut({}, status', active', tasks', exts')
    BY <1>b, <2>1 DEF TablesBut
  <2>3. ASSUME NEW c \in Clients PROVE FreshTx(tx[c])'
    BY <1>i, <2>1 DEF FreshTx
  <2> QED
    BY <2>2, <2>3 DEF TokenInv
<1>14. ASSUME UNCHANGED vars PROVE TokenInv'
  BY <1>14 DEF vars, rows, TokenInv, TablesBut, FreshTx
<1>15. ASSUME NEW c \in Clients, Handler(c) PROVE TokenInv'
  BY <1>15, <1>1, <1>2, <1>3, <1>4, <1>5, <1>6, <1>7, <1>8, <1>9, <1>10, <1>11, <1>12 DEF Handler
<1> QED
  BY <1>13, <1>14, <1>15 DEF Next

(* When handlers do not overlap and publishing moves edges but never       *)
(* changes what a node is, every token of an instance nobody rejected that *)
(* rests at a human stop has its open task, every one at an external       *)
(* action its pending execution, and no such row is without its token: for *)
(* every graph, restarts and rollbacks included.                           *)
THEOREM SerialTokens ==
    ASSUME OneAtATime, SameKinds
    PROVE  Spec => []TokensHaveWork
<1>1. TypeInv /\ TokenInv => TokensHaveWork
  <2> SUFFICES ASSUME TypeInv, TokenInv, NEW i \in Instances, NEW n \in Nodes, Settled(i)
               PROVE  /\ Kind[def][n] = "stop" => active[i][n] = Cardinality(RowsOf(tasks, i, n, "open"))
                      /\ Kind[def][n] = "external" => active[i][n] = Cardinality(RowsOf(exts, i, n, "pending"))
    BY DEF TokensHaveWork
  <2>1. Kind[def][n] = K(n)
    BY DEF TypeInv, TypeOK, SameKinds
  <2>2. Tokens(active[i], i, tasks, exts, EmptyBag)
    BY DEF Settled, NeverRejected, Clean, TokenInv, TablesBut, Accounted
  <2>3. /\ EmptyBag[n] = 0 /\ Cardinality(RowsOf(tasks, i, n, "open")) \in Nat
        /\ Cardinality(RowsOf(exts, i, n, "pending")) \in Nat
    BY RowsFinite DEF EmptyBag, TypeInv, TypeOK
  <2> QED
    BY <2>1, <2>2, <2>3 DEF Tokens
<1> QED
  BY <1>1, TypeInit, TypeNext, TokenInit, TokenNext, PTL DEF Spec

(* Then an instance nobody rejected that still runs waits for somebody: of *)
(* a definition without joins, none is left running with neither an open   *)
(* task nor a pending external action.                                     *)
THEOREM SerialNeverStuck ==
    ASSUME OneAtATime, SameKinds, Seeded = {} \/ ~MayRestart, \A n \in Nodes : K(n) # "join"
    PROVE  Spec => []NeverStuck
<1>1. TypeInv /\ TokenInv /\ StatusMatchesTokens => NeverStuck
  <2> SUFFICES ASSUME TypeInv, TokenInv, StatusMatchesTokens,
                      NEW i \in Instances, status[i] = "running", NeverRejected(i)
               PROVE  \E n \in Nodes : RowsOf(tasks, i, n, "open") \cup RowsOf(exts, i, n, "pending") # {}
    BY DEF NeverStuck
  <2>1. Tokens(active[i], i, tasks, exts, EmptyBag) /\ Rests(active[i])
    BY DEF NeverRejected, Clean, TokenInv, TablesBut, Accounted
  <2>2. active[i] # EmptyBag /\ active[i] \in Bag
    BY DEF StatusMatchesTokens, TypeInv, TypeOK
  <2>3. PICK n \in Nodes : active[i][n] # 0
    BY <2>2 DEF Bag, EmptyBag
  <2>4. K(n) \in {"stop", "external"}
    BY <2>1, <2>3 DEF Rests
  <2>5. Cardinality(RowsOf(tasks, i, n, "open")) # 0 \/ Cardinality(RowsOf(exts, i, n, "pending")) # 0
    BY <2>1, <2>3, <2>4 DEF Tokens, EmptyBag
  <2>6. RowsOf(tasks, i, n, "open") # {} \/ RowsOf(exts, i, n, "pending") # {}
    BY <2>5, FS_EmptySet
  <2> QED
    BY <2>6
<1>2. Spec => []StatusMatchesTokens
  BY StatusAgrees
<1> QED
  BY <1>1, <1>2, TypeInit, TypeNext, TokenInit, TokenNext, PTL DEF Spec

-----------------------------------------------------------------------------
(* Executions and commands *)

CmdStatus == {"manual_pending", "manual_completed"}

LEMMA HasNewest ==
    ASSUME NEW m \in Nat, NEW S, S \subseteq 1 .. m, S # {}
    PROVE  \E k \in S : \A j \in S : j <= k
<1>1. PICK R : R = {m - k : k \in S}
  OBVIOUS
<1>2. R \subseteq Nat /\ R # {}
  <2>1. \A k \in S : m - k \in Nat /\ m - k \in R
    BY <1>1
  <2> QED
    BY <1>1, <2>1
<1>3. PICK x \in R : \A y \in R : ~(<<y, x>> \in OpToRel(<, Nat))
  BY <1>2, NatLessThanWellFounded, WFMin
<1>4. \A y \in R : ~(y < x)
  BY <1>2, <1>3 DEF OpToRel
<1>5. PICK k \in S : x = m - k
  BY <1>1
<1>6. ASSUME NEW j \in S PROVE j <= k
  <2>1. m - j \in R /\ j \in 1 .. m /\ k \in 1 .. m
    BY <1>1, <1>5
  <2>2. ~(m - j < m - k)
    BY <1>4, <1>5, <2>1
  <2> QED
    BY <2>1, <2>2
<1> QED
  BY <1>6

(* A pending execution has a pending command of its node: otherwise every  *)
(* command of the node would be completed, and of its executions one less. *)
LEMMA HasPending ==
    ASSUME NEW E \in Seq(RowType(ExtStatus)), NEW C \in Seq(RowType(CmdStatus)), InPace(E, C),
           NEW e \in DOMAIN E, E[e].status = "pending"
    PROVE  At(C, E[e].node, "manual_pending") # {}
<1> SUFFICES ASSUME At(C, E[e].node, "manual_pending") = {} PROVE FALSE
  OBVIOUS
<1>1. PICK n : n = E[e].node
  OBVIOUS
<1>2. n \in Nodes
  <2>1. E[e] \in RowType(ExtStatus)
    OBVIOUS
  <2> QED
    BY <1>1, <2>1 DEF RowType
<1>3. \A k \in DOMAIN C : C[k].status \in CmdStatus
  <2>1. \A k \in DOMAIN C : C[k] \in RowType(CmdStatus)
    OBVIOUS
  <2> QED
    BY <2>1 DEF RowType
<1>4. \A k \in DOMAIN C : C[k].node = n => C[k].status = "manual_completed"
  BY <1>1, <1>3 DEF At, CmdStatus
<1>5. At(E, n, "completed") \subseteq At(C, n, "manual_completed")
  BY <1>4 DEF At, InPace
<1>6. IsFiniteSet(At(C, n, "manual_completed"))
  BY RowsFinite
<1>7. At(C, n, "manual_completed") = At(E, n, "completed")
  <2>1. Cardinality(At(C, n, "manual_completed")) = Cardinality(At(E, n, "completed"))
    BY <1>2 DEF InPace
  <2> QED
    BY <1>5, <1>6, <2>1, FS_Subset
<1>8. e \in At(C, n, "manual_completed")
  BY <1>1, <1>4 DEF At, InPace
<1>9. e \notin At(E, n, "completed")
  BY DEF At
<1> QED
  BY <1>7, <1>8, <1>9

LEMMA InsertedAt ==
    ASSUME NEW S, NEW q \in Seq(RowType(S)), NEW i \in Instances, NEW ns \in Seq(Nodes), NEW st \in S,
           NEW n, NEW s2, s2 # st
    PROVE  At(q \o Rows(i, ns, st), n, s2) = At(q, n, s2)
<1>1. PICK r : r = q \o Rows(i, ns, st)
  OBVIOUS
<1>2. /\ DOMAIN r = 1 .. Len(q) + Len(ns) /\ DOMAIN q = 1 .. Len(q) /\ DOMAIN ns = 1 .. Len(ns)
      /\ Len(q) \in Nat /\ Len(ns) \in Nat
      /\ \A k \in DOMAIN q : r[k] = q[k]
      /\ \A k \in DOMAIN ns : r[Len(q) + k] = [inst |-> i, node |-> ns[k], status |-> st]
  BY <1>1, Inserted
<1>3. ASSUME NEW k \in DOMAIN r, k \notin DOMAIN q PROVE r[k].status = st
  <2>1. k - Len(q) \in DOMAIN ns /\ k = Len(q) + (k - Len(q))
    BY <1>2, <1>3
  <2>2. r[k] = [inst |-> i, node |-> ns[k - Len(q)], status |-> st]
    BY <1>2, <2>1
  <2> QED
    BY <2>2
<1>4. DOMAIN q \subseteq DOMAIN r
  BY <1>2
<1>5. At(r, n, s2) = At(q, n, s2)
  BY <1>2, <1>3, <1>4 DEF At
<1> QED
  BY <1>1, <1>5

LEMMA InsertPace ==
    ASSUME NEW E \in Seq(RowType(ExtStatus)), NEW C \in Seq(RowType(CmdStatus)), InPace(E, C),
           NEW i \in Instances, NEW ns \in Seq(Nodes)
    PROVE  InPace(E \o Rows(i, ns, "pending"), C \o Rows(i, ns, "manual_pending"))
<1>1. PICK E2 : E2 = E \o Rows(i, ns, "pending")
  OBVIOUS
<1>2. PICK C2 : C2 = C \o Rows(i, ns, "manual_pending")
  OBVIOUS
<1>0. "pending" \in ExtStatus /\ "manual_pending" \in CmdStatus
  BY DEF ExtStatus, CmdStatus
<1>3. /\ DOMAIN E2 = 1 .. Len(E) + Len(ns) /\ DOMAIN E = 1 .. Len(E) /\ DOMAIN ns = 1 .. Len(ns)
      /\ Len(E) \in Nat /\ Len(ns) \in Nat
      /\ \A k \in DOMAIN E : E2[k] = E[k]
      /\ \A k \in DOMAIN ns : E2[Len(E) + k] = [inst |-> i, node |-> ns[k], status |-> "pending"]
  BY <1>0, <1>1, Inserted
<1>4. /\ DOMAIN C2 = 1 .. Len(C) + Len(ns) /\ DOMAIN C = 1 .. Len(C) /\ Len(C) \in Nat
      /\ \A k \in DOMAIN C : C2[k] = C[k]
      /\ \A k \in DOMAIN ns : C2[Len(C) + k] = [inst |-> i, node |-> ns[k], status |-> "manual_pending"]
  BY <1>0, <1>2, Inserted
<1>5. Len(C) = Len(E) /\ DOMAIN E = DOMAIN C
  <2>1. DOMAIN E = DOMAIN C
    BY DEF InPace
  <2>2. \A x, y \in Nat : 1 .. x = 1 .. y => x = y
    <3>1. ASSUME NEW x \in Nat, NEW y \in Nat, 1 .. x = 1 .. y, x < y PROVE FALSE
      <4>1. y \in 1 .. y /\ y \notin 1 .. x
        BY <3>1
      <4> QED
        BY <3>1, <4>1
    <3>2. \A x, y \in Nat : x = y \/ x < y \/ y < x
      OBVIOUS
    <3> QED
      BY <3>1, <3>2
  <2> QED
    BY <1>3, <1>4, <2>1, <2>2
<1>6. ASSUME NEW k \in DOMAIN E2 PROVE E2[k].node = C2[k].node
  <2>1. CASE k <= Len(E)
    <3>1. k \in DOMAIN E /\ k \in DOMAIN C
      BY <1>3, <1>5, <1>6, <2>1
    <3> QED
      BY <1>3, <1>4, <3>1 DEF InPace
  <2>2. CASE ~(k <= Len(E))
    <3>1. k - Len(E) \in DOMAIN ns /\ k = Len(E) + (k - Len(E))
      BY <1>3, <1>6, <2>2
    <3>2. /\ E2[k] = [inst |-> i, node |-> ns[k - Len(E)], status |-> "pending"]
          /\ C2[k] = [inst |-> i, node |-> ns[k - Len(E)], status |-> "manual_pending"]
      BY <1>3, <1>4, <1>5, <3>1
    <3> QED
      BY <3>2
  <2> QED
    BY <2>1, <2>2
<1>7. ASSUME NEW n \in Nodes
      PROVE  At(E2, n, "completed") = At(E, n, "completed") /\ At(C2, n, "manual_completed") = At(C, n, "manual_completed")
  <2>1. "completed" # "pending" /\ "manual_completed" # "manual_pending"
    OBVIOUS
  <2> QED
    BY <1>0, <1>1, <1>2, <2>1, InsertedAt
<1>8. DOMAIN E2 = DOMAIN C2
  BY <1>3, <1>4, <1>5
<1>9. InPace(E2, C2)
  BY <1>6, <1>7, <1>8 DEF InPace
<1> QED
  BY <1>1, <1>2, <1>9

(* The rows of a node with the new status, after one is closed. *)
LEMMA ClosedAt ==
    ASSUME NEW S, NEW q \in Seq(RowType(S)), NEW k \in DOMAIN q, NEW s2 \in S
    PROVE  /\ DOMAIN Closed(q, k, s2) = DOMAIN q
           /\ \A j \in DOMAIN q : Closed(q, k, s2)[j].node = q[j].node
           /\ \A n : At(Closed(q, k, s2), n, s2) = IF q[k].node = n THEN At(q, n, s2) \cup {k} ELSE At(q, n, s2)
<1>1. PICK r : r = Closed(q, k, s2)
  OBVIOUS
<1>2. q[k] \in RowType(S)
  OBVIOUS
<1>3. DOMAIN r = DOMAIN q /\ r[k] = [q[k] EXCEPT !.status = s2] /\ \A j \in DOMAIN q : j # k => r[j] = q[j]
  BY <1>1 DEF Closed
<1>4. r[k].node = q[k].node /\ r[k].status = s2
  BY <1>2, <1>3 DEF RowType
<1>5. \A j \in DOMAIN q : r[j].node = q[j].node /\ (j # k => r[j].status = q[j].status)
  BY <1>3, <1>4
<1>6. ASSUME NEW n PROVE At(r, n, s2) = IF q[k].node = n THEN At(q, n, s2) \cup {k} ELSE At(q, n, s2)
  BY <1>3, <1>4, <1>5 DEF At
<1> QED
  BY <1>1, <1>3, <1>5, <1>6

LEMMA ClosePace ==
    ASSUME NEW E \in Seq(RowType(ExtStatus)), NEW C \in Seq(RowType(CmdStatus)), InPace(E, C),
           NEW e \in DOMAIN E, E[e].status = "pending", NEW k, k \in At(C, E[e].node, "manual_pending")
    PROVE  InPace(Closed(E, e, "completed"), Closed(C, k, "manual_completed"))
<1>1. PICK E2 : E2 = Closed(E, e, "completed")
  OBVIOUS
<1>2. PICK C2 : C2 = Closed(C, k, "manual_completed")
  OBVIOUS
<1>3. k \in DOMAIN C /\ C[k].node = E[e].node /\ C[k].status = "manual_pending"
  BY DEF At
<1>4. "completed" \in ExtStatus /\ "manual_completed" \in CmdStatus
  BY DEF ExtStatus, CmdStatus
<1>5. /\ DOMAIN E2 = DOMAIN E /\ \A j \in DOMAIN E : E2[j].node = E[j].node
      /\ \A n : At(E2, n, "completed") = IF E[e].node = n THEN At(E, n, "completed") \cup {e} ELSE At(E, n, "completed")
  BY <1>1, <1>4, ClosedAt
<1>6. /\ DOMAIN C2 = DOMAIN C /\ \A j \in DOMAIN C : C2[j].node = C[j].node
      /\ \A n : At(C2, n, "manual_completed") = IF C[k].node = n THEN At(C, n, "manual_completed") \cup {k}
                                                ELSE At(C, n, "manual_completed")
  BY <1>2, <1>3, <1>4, ClosedAt
<1>7. ASSUME NEW n \in Nodes
      PROVE  Cardinality(At(E2, n, "completed")) = Cardinality(At(C2, n, "manual_completed"))
  <2>1. Cardinality(At(E, n, "completed")) = Cardinality(At(C, n, "manual_completed"))
    BY DEF InPace
  <2>2. CASE E[e].node # n
    BY <1>3, <1>5, <1>6, <2>1, <2>2
  <2>3. CASE E[e].node = n
    <3>1. IsFiniteSet(At(E, n, "completed")) /\ IsFiniteSet(At(C, n, "manual_completed"))
      BY RowsFinite
    <3>2. e \notin At(E, n, "completed") /\ k \notin At(C, n, "manual_completed")
      BY <1>3 DEF At
    <3>3. Cardinality(At(E2, n, "completed")) = Cardinality(At(E, n, "completed")) + 1
      BY <1>5, <2>3, <3>1, <3>2, FS_AddElement
    <3>4. Cardinality(At(C2, n, "manual_completed")) = Cardinality(At(C, n, "manual_completed")) + 1
      <4>1. At(C2, n, "manual_completed") = At(C, n, "manual_completed") \cup {k}
        BY <1>3, <1>6, <2>3
      <4> QED
        BY <3>1, <3>2, <4>1, FS_AddElement
    <3> QED
      BY <2>1, <3>3, <3>4
  <2> QED
    BY <2>2, <2>3
<1>8. InPace(E2, C2)
  BY <1>5, <1>6, <1>7 DEF InPace
<1> QED
  BY <1>1, <1>2, <1>8

(* The lookup of enterExternalReference finds a command to complete. *)
LEMMA NewestFound ==
    ASSUME cmds \in Seq(RowType(CmdStatus)), NEW n, At(cmds, n, "manual_pending") # {}
    PROVE  NewestCommand(n) # 0 /\ NewestCommand(n) \in At(cmds, n, "manual_pending")
<1>1. Len(cmds) \in Nat /\ DOMAIN cmds = 1 .. Len(cmds)
  OBVIOUS
<1>2. At(cmds, n, "manual_pending") \subseteq 1 .. Len(cmds)
  BY <1>1 DEF At
<1>3. PICK k \in At(cmds, n, "manual_pending") : \A j \in At(cmds, n, "manual_pending") : j <= k
  BY <1>1, <1>2, HasNewest
<1>4. k \in DOMAIN cmds /\ IsNewestPending(k, n)
  BY <1>3 DEF At, IsNewestPending
<1>5. NewestCommand(n) \in DOMAIN cmds /\ IsNewestPending(NewestCommand(n), n)
  BY <1>4 DEF NewestCommand
<1> QED
  BY <1>1, <1>5 DEF At, IsNewestPending


LEMMA PaceInit == Init => PaceInv
<1> SUFFICES ASSUME Init PROVE PaceInv
  OBVIOUS
<1>1. exts = <<>> /\ cmds = <<>>
  BY DEF Init
<1>2. DOMAIN exts = {} /\ DOMAIN cmds = {} /\ \A n, s : At(exts, n, s) = {} /\ At(cmds, n, s) = {}
  BY <1>1 DEF At
<1>3. InPace(exts, cmds)
  BY <1>2 DEF InPace
<1>4. ASSUME NEW c \in Clients PROVE PaceTx(tx[c])
  <2>1. tx[c] = NoTx /\ NoTx.op = "idle"
    BY DEF Init, NoTx
  <2> QED
    BY <2>1 DEF PaceTx
<1> QED
  BY <1>3, <1>4 DEF PaceInv

LEMMA PaceNext ==
    ASSUME OneAtATime
    PROVE  TypeInv /\ PaceInv /\ [Next]_vars => PaceInv'
<1> SUFFICES ASSUME TypeInv, PaceInv, [Next]_vars PROVE PaceInv'
  OBVIOUS
<1>0. TypeOK
  BY DEF TypeInv
<1>t. /\ exts \in Seq(RowType(ExtStatus)) /\ cmds \in Seq(RowType(CmdStatus))
      /\ tx \in [Clients -> TxType]
  BY <1>0 DEF TypeOK, ExtStatus, CmdStatus
<1>i. NoTx.op = "idle"
  BY DEF NoTx
<1>b. InPace(exts, cmds) /\ \A c \in Clients : PaceTx(tx[c])
  BY DEF PaceInv
(* A step in the handler's own memory. *)
<1>o. ASSUME NEW c \in Clients, NEW t, tx' = [tx EXCEPT ![c] = t], PaceTx(t), UNCHANGED <<exts, cmds>>
      PROVE  PaceInv'
  <2>1. ASSUME NEW d \in Clients PROVE PaceTx(tx[d])'
    <3>1. tx'[d] = t
      BY <1>o, <1>t DEF OneAtATime
    <3> QED
      BY <1>o, <3>1 DEF PaceTx
  <2> QED
    BY <1>o, <1>b, <2>1 DEF PaceInv
(* One that is about no external action. *)
<1>n. ASSUME NEW c \in Clients, NEW op, op \notin {"extRead", "extCmd", "ext"}, NEW t, t.op = op,
             tx' = [tx EXCEPT ![c] = t], UNCHANGED <<exts, cmds>>
      PROVE  PaceInv'
  BY <1>n, <1>o DEF PaceTx
(* A commit: nothing is left open. *)
<1>e. ASSUME NEW c \in Clients, End(c), InPace(exts', cmds') PROVE PaceInv'
  <2>1. ASSUME NEW d \in Clients PROVE PaceTx(tx[d])'
    <3>1. tx'[d] = NoTx
      BY <1>e, <1>t DEF OneAtATime, End
    <3> QED
      BY <1>i, <3>1 DEF PaceTx
  <2> QED
    BY <1>e, <2>1 DEF PaceInv
<1>1. ASSUME NEW c \in Clients, NEW i, NEW k, NEW h, CreateBegin(c, i, k, h) PROVE PaceInv'
  <2> DEFINE t == [NoTx EXCEPT !.op = "create", !.inst = i, !.key = k, !.def = def, !.holds = h,
                               !.walk = Walk(NextTarget(def, Start, h), EmptyBag)]
  <2>1. tx' = [tx EXCEPT ![c] = t] /\ UNCHANGED <<exts, cmds>>
    BY <1>1 DEF CreateBegin, Begin, rows
  <2>2. t.op = "create"
    BY NoTxType DEF TxType
  <2> HIDE DEF t
  <2> QED
    BY <1>n, <2>1, <2>2
<1>2. ASSUME NEW c \in Clients, NEW j, NEW k, NEW approve \in BOOLEAN, ActBegin(c, j, k, approve) PROVE PaceInv'
  <2> DEFINE i == tasks[j].inst
             n == tasks[j].node
             w == Walk(NextTarget(def, n, holds[i]), Take(active[i], n))
             t == [NoTx EXCEPT !.op = IF approve THEN "approve" ELSE "reject",
                               !.inst = i, !.ref = j, !.key = k, !.def = def, !.holds = holds[i],
                               !.walk = IF approve THEN w ELSE @]
  <2>1. tx' = [tx EXCEPT ![c] = t] /\ UNCHANGED <<exts, cmds>>
    BY <1>2 DEF ActBegin, Begin, rows
  <2> HIDE DEF w, i, n
  <2>2. t.op \in {"approve", "reject"}
    BY NoTxType DEF TxType
  <2> HIDE DEF t
  <2> QED
    BY <1>n, <2>1, <2>2
<1>3. ASSUME NEW c \in Clients, NEW e \in DOMAIN exts, ExtBegin(c, e) PROVE PaceInv'
  <2> DEFINE t == [NoTx EXCEPT !.op = "extRead", !.inst = exts[e].inst, !.ref = e]
  <2>1. tx' = [tx EXCEPT ![c] = t] /\ UNCHANGED <<exts, cmds>> /\ exts[e].status = "pending"
    BY <1>3 DEF ExtBegin, Begin, rows
  <2>2. t.op = "extRead" /\ t.ref = e
    BY NoTxType DEF TxType
  <2> HIDE DEF t
  <2>3. PaceTx(t)
    BY <2>1, <2>2 DEF PaceTx
  <2> QED
    BY <1>o, <2>1, <2>3
<1>4. ASSUME NEW c \in Clients, ExtLock(c) PROVE PaceInv'
  <2> DEFINE r == tx[c].ref
             k == NewestCommand(exts[tx[c].ref].node)
             t == [tx[c] EXCEPT !.op = "extCmd", !.cmd = k]
  <2>1. tx' = [tx EXCEPT ![c] = t] /\ UNCHANGED <<exts, cmds>> /\ tx[c].op = "extRead"
    BY <1>0, <1>4 DEF ExtLock, TypeOK, TxType, rows
  <2>2. r \in DOMAIN exts /\ exts[r].status = "pending"
    BY <1>b, <2>1 DEF PaceTx, TypeInv, RefOK
  <2>3. At(cmds, exts[r].node, "manual_pending") # {}
    <3> HIDE DEF r
    <3> QED
      BY <1>t, <1>b, <2>2, HasPending
  <2>4. k # 0 /\ k \in At(cmds, exts[r].node, "manual_pending")
    BY <1>t, <2>3, NewestFound
  <2> HIDE DEF k
  <2>5. t.op = "extCmd" /\ t.ref = r /\ t.cmd = k
    BY <1>t DEF TxType
  <2> HIDE DEF t
  <2>6. PaceTx(t)
    BY <2>2, <2>4, <2>5 DEF PaceTx
  <2> QED
    BY <1>o, <2>1, <2>6
<1>5. ASSUME NEW c \in Clients, ExtReadInstance(c) PROVE PaceInv'
  <2> DEFINE i == tx[c].inst
             n == exts[tx[c].ref].node
             w == Walk(NextTarget(def, n, holds[i]), Take(active[i], n))
             t == [tx[c] EXCEPT !.op = "ext", !.def = def, !.holds = holds[i], !.walk = w]
  <2>1. tx' = [tx EXCEPT ![c] = t] /\ UNCHANGED <<exts, cmds>> /\ tx[c].op = "extCmd"
    BY <1>0, <1>5 DEF ExtReadInstance, TypeOK, TxType, rows
  <2> HIDE DEF w, i
  <2>2. t.op = "ext" /\ t.ref = tx[c].ref /\ t.cmd = tx[c].cmd
    BY <1>t DEF TxType
  <2> HIDE DEF t
  <2>3. PaceTx(t)
    <3>1. PaceTx(tx[c])
      BY <1>b
    <3> QED
      BY <2>1, <2>2, <3>1 DEF PaceTx
  <2> QED
    BY <1>o, <2>1, <2>3
<1>6. ASSUME NEW c \in Clients, AdvanceMulti(c) PROVE PaceInv'
  <2> DEFINE w == WalkStep(tx[c].def, tx[c].holds, tx[c].walk)
             t == [tx[c] EXCEPT !.walk = w]
  <2>1. tx' = [tx EXCEPT ![c] = t] /\ UNCHANGED <<exts, cmds>>
    BY <1>0, <1>6 DEF AdvanceMulti, TypeOK, TxType, rows
  <2> HIDE DEF w
  <2>2. t.op = tx[c].op /\ t.ref = tx[c].ref /\ t.cmd = tx[c].cmd
    BY <1>t DEF TxType
  <2> HIDE DEF t
  <2>3. PaceTx(t)
    <3>1. PaceTx(tx[c])
      BY <1>b
    <3> QED
      BY <2>2, <3>1 DEF PaceTx
  <2> QED
    BY <1>o, <2>1, <2>3
<1>7. ASSUME NEW c \in Clients, CreateCommit(c) \/ ApproveCommit(c) PROVE PaceInv'
  <2> DEFINE i == tx[c].inst
             ns == tx[c].walk.parks
  <2>0. i \in Instances /\ ns \in Seq(Nodes)
    BY <1>t, TxFields
  <2>1. End(c) /\ exts' = exts \o Rows(i, ns, "pending") /\ cmds' = cmds \o Rows(i, ns, "manual_pending")
    BY <1>7 DEF CreateCommit, ApproveCommit, CreateExternals
  <2> HIDE DEF i, ns
  <2>2. InPace(exts', cmds')
    BY <1>t, <1>b, <2>0, <2>1, InsertPace
  <2> QED
    BY <1>e, <2>1, <2>2
<1>8. ASSUME NEW c \in Clients, ExtCommit(c) PROVE PaceInv'
  <2> DEFINE i == tx[c].inst
             ns == tx[c].walk.parks
             r == tx[c].ref
             k == tx[c].cmd
             E2 == Closed(exts, r, "completed")
             C2 == Closed(cmds, k, "manual_completed")
  <2>0. i \in Instances /\ ns \in Seq(Nodes)
    BY <1>t, TxFields
  <2>1. tx[c].op = "ext" /\ End(c)
    BY <1>8 DEF ExtCommit
  <2>2. /\ r \in DOMAIN exts /\ exts[r].status = "pending"
        /\ k # 0 /\ k \in At(cmds, exts[r].node, "manual_pending")
    BY <1>b, <2>1 DEF PaceTx, TypeInv, RefOK
  <2>3. exts' = E2 \o Rows(i, ns, "pending") /\ cmds' = C2 \o Rows(i, ns, "manual_pending")
    BY <1>8, <2>2 DEF ExtCommit, CreateExternals, Closed
  <2> HIDE DEF i, ns, r, k
  <2>4. InPace(E2, C2)
    BY <1>t, <1>b, <2>2, ClosePace
  <2>5. E2 \in Seq(RowType(ExtStatus)) /\ C2 \in Seq(RowType(CmdStatus))
    <3>1. "completed" \in ExtStatus /\ "manual_completed" \in CmdStatus /\ k \in DOMAIN cmds
      BY <2>2 DEF ExtStatus, CmdStatus, At
    <3> QED
      BY <1>t, <2>2, <3>1, StatusUpdate DEF Closed
  <2> HIDE DEF E2, C2
  <2>6. InPace(exts', cmds')
    BY <2>0, <2>3, <2>4, <2>5, InsertPace
  <2> QED
    BY <1>e, <2>1, <2>6
<1>9. ASSUME NEW c \in Clients, RejectCommit(c) \/ PublishCommit(c) \/ Rollback(c) PROVE PaceInv'
  <2>1. tx' = [tx EXCEPT ![c] = NoTx] /\ UNCHANGED <<exts, cmds>>
    BY <1>9 DEF RejectCommit, PublishCommit, Rollback, End, rows
  <2> QED
    BY <1>n, <1>i, <2>1
<1>10. ASSUME NEW c \in Clients, NEW d, PublishBegin(c, d) PROVE PaceInv'
  <2> DEFINE t == [NoTx EXCEPT !.op = "publish", !.def = d, !.ref = LatestVersion.no + 1]
  <2>1. tx' = [tx EXCEPT ![c] = t] /\ UNCHANGED <<exts, cmds>>
    BY <1>10 DEF PublishBegin, Begin, rows
  <2>2. t.op = "publish"
    BY NoTxType DEF TxType
  <2> HIDE DEF t
  <2> QED
    BY <1>n, <2>1, <2>2
<1>11. ASSUME Restart PROVE PaceInv'
  <2>1. UNCHANGED <<exts, cmds>> /\ \A c \in Clients : tx'[c] = NoTx
    BY <1>11 DEF Restart
  <2> QED
    BY <1>b, <1>i, <2>1 DEF PaceInv, PaceTx
<1>12. ASSUME UNCHANGED vars PROVE PaceInv'
  BY <1>12 DEF vars, rows, PaceInv, PaceTx
<1>13. ASSUME NEW c \in Clients, Handler(c) PROVE PaceInv'
  BY <1>13, <1>1, <1>2, <1>3, <1>4, <1>5, <1>6, <1>7, <1>8, <1>9, <1>10 DEF Handler
<1> QED
  BY <1>11, <1>12, <1>13 DEF Next

(* When handlers do not overlap, every entered reference completes exactly *)
(* one command of its node, although enterExternalReference looks for the  *)
(* newest pending one of any instance: for every graph, every publication, *)
(* restarts and rollbacks included.                                        *)
THEOREM SerialPace ==
    ASSUME OneAtATime
    PROVE  Spec => []CommandsKeepPace
<1>1. PaceInv => CommandsKeepPace
  BY DEF PaceInv, InPace, At, CommandsKeepPace
<1> QED
  BY <1>1, TypeInit, TypeNext, PaceInit, PaceNext, PTL DEF Spec

-----------------------------------------------------------------------------
(* Sums.  An operator cannot be proved about by induction here, so a sum   *)
(* is the number of pairs of a summand and a number up to its value.       *)

Pairs(S, g) == UNION {{x} \X (1 .. g[x]) : x \in S}

LEMMA InPairs ==
    ASSUME NEW S, NEW g \in [S -> Nat]
    PROVE  /\ \A x, k : <<x, k>> \in Pairs(S, g) <=> x \in S /\ k \in 1 .. g[x]
           /\ \A p \in Pairs(S, g) : \E x \in S, k \in Nat : p = <<x, k>>
BY DEF Pairs

LEMMA PairsFinite ==
    ASSUME NEW S, IsFiniteSet(S), NEW g \in [S -> Nat]
    PROVE  IsFiniteSet(Pairs(S, g)) /\ Total(S, g) = Cardinality(Pairs(S, g)) /\ Total(S, g) \in Nat
<1>1. PICK U : U = {{x} \X (1 .. g[x]) : x \in S}
  OBVIOUS
<1>2. PICK f : f = [x \in S |-> {x} \X (1 .. g[x])]
  OBVIOUS
<1>3. f \in Surjection(S, U)
  BY <1>1, <1>2 DEF Surjection
<1>4. IsFiniteSet(U)
  BY <1>3, FS_Surjection
<1>5. ASSUME NEW x \in S PROVE IsFiniteSet({x} \X (1 .. g[x]))
  <2>1. IsFiniteSet(1 .. g[x])
    BY FS_Interval
  <2>2. PICK e : e = [k \in 1 .. g[x] |-> <<x, k>>]
    OBVIOUS
  <2>3. e \in Surjection(1 .. g[x], {x} \X (1 .. g[x]))
    BY <2>2 DEF Surjection
  <2> QED
    BY <2>1, <2>3, FS_Surjection
<1>6. IsFiniteSet(UNION U)
  BY <1>1, <1>4, <1>5, FS_UNION
<1> QED
  BY <1>1, <1>6, FS_CardinalityType DEF Pairs, Total

(* Total is additive. *)
LEMMA TotalPlus ==
    ASSUME NEW S, IsFiniteSet(S), NEW g \in [S -> Nat], NEW h \in [S -> Nat], NEW f \in [S -> Nat],
           \A x \in S : f[x] = g[x] + h[x]
    PROVE  Total(S, f) = Total(S, g) + Total(S, h)
<1>1. PICK P : P = Pairs(S, g)
  OBVIOUS
<1>2. PICK H : H = Pairs(S, h)
  OBVIOUS
<1>3. PICK F : F = Pairs(S, f)
  OBVIOUS
<1>4. /\ IsFiniteSet(P) /\ IsFiniteSet(H) /\ IsFiniteSet(F)
      /\ Total(S, g) = Cardinality(P) /\ Total(S, h) = Cardinality(H) /\ Total(S, f) = Cardinality(F)
      /\ Total(S, g) \in Nat /\ Total(S, h) \in Nat /\ Total(S, f) \in Nat
  BY <1>1, <1>2, <1>3, PairsFinite
<1>5. /\ \A x, k : <<x, k>> \in P <=> x \in S /\ k \in 1 .. g[x]
      /\ \A p \in P : \E x \in S, k \in Nat : p = <<x, k>>
      /\ \A x, k : <<x, k>> \in H <=> x \in S /\ k \in 1 .. h[x]
      /\ \A p \in H : \E x \in S, k \in Nat : p = <<x, k>>
      /\ \A x, k : <<x, k>> \in F <=> x \in S /\ k \in 1 .. f[x]
      /\ \A p \in F : \E x \in S, k \in Nat : p = <<x, k>>
  BY <1>1, <1>2, <1>3, InPairs
<1>6. P \subseteq F
  <2>1. ASSUME NEW p \in P PROVE p \in F
    <3>1. PICK x \in S, k \in Nat : p = <<x, k>>
      BY <1>5
    <3>2. k \in 1 .. g[x] /\ f[x] = g[x] + h[x] /\ g[x] \in Nat /\ h[x] \in Nat
      BY <1>5, <3>1
    <3>3. k \in 1 .. f[x]
      BY <3>2
    <3> QED
      BY <1>5, <3>1, <3>3
  <2> QED
    BY <2>1
<1>7. PICK Q : Q = F \ P
  OBVIOUS
<1>8. PICK e : e = [p \in H |-> <<p[1], p[2] + g[p[1]]>>]
  OBVIOUS
<1>9. ASSUME NEW x \in S, NEW k \in 1 .. h[x]
      PROVE  <<x, k>> \in H /\ e[<<x, k>>] = <<x, k + g[x]>> /\ <<x, k + g[x]>> \in Q
  <2>1. <<x, k>> \in H
    BY <1>5
  <2>2. e[<<x, k>>] = <<x, k + g[x]>>
    BY <1>8, <2>1
  <2>3. k + g[x] \in 1 .. f[x] /\ k + g[x] \notin 1 .. g[x]
    <3>1. g[x] \in Nat /\ h[x] \in Nat /\ f[x] = g[x] + h[x] /\ k \in Nat /\ 1 <= k /\ k <= h[x]
      BY <1>9
    <3> QED
      BY <3>1
  <2> QED
    BY <1>5, <1>7, <2>1, <2>2, <2>3
<1>10. ASSUME NEW p \in H PROVE \E x \in S, k \in Nat : k \in 1 .. h[x] /\ p = <<x, k>>
  BY <1>5
<1>11. e \in [H -> Q]
  <2>1. ASSUME NEW p \in H PROVE e[p] \in Q
    <3>1. PICK x \in S, k \in Nat : k \in 1 .. h[x] /\ p = <<x, k>>
      BY <1>10
    <3> QED
      BY <1>9, <3>1
  <2> QED
    BY <1>8, <2>1
<1>12. ASSUME NEW p \in H, NEW q \in H, e[p] = e[q] PROVE p = q
  <2>1. PICK x \in S, k \in Nat : k \in 1 .. h[x] /\ p = <<x, k>>
    BY <1>10
  <2>2. PICK y \in S, j \in Nat : j \in 1 .. h[y] /\ q = <<y, j>>
    BY <1>10
  <2>3. <<x, k + g[x]>> = <<y, j + g[y]>>
    BY <1>9, <1>12, <2>1, <2>2
  <2>4. x = y /\ k + g[x] = j + g[x]
    BY <2>3
  <2>5. g[x] \in Nat /\ k \in Nat /\ j \in Nat
    OBVIOUS
  <2>6. k = j
    BY <2>4, <2>5
  <2> QED
    BY <2>1, <2>2, <2>4, <2>6
<1>13. ASSUME NEW q \in Q PROVE \E p \in H : e[p] = q
  <2>1. PICK x \in S, k \in Nat : q = <<x, k>>
    BY <1>5, <1>7
  <2>2. k \in 1 .. f[x] /\ k \notin 1 .. g[x]
    BY <1>5, <1>7, <2>1
  <2>3. g[x] \in Nat /\ h[x] \in Nat /\ f[x] = g[x] + h[x]
    OBVIOUS
  <2>4. PICK j : j = k - g[x]
    OBVIOUS
  <2>5. j \in 1 .. h[x] /\ j + g[x] = k
    BY <2>2, <2>3, <2>4
  <2> QED
    BY <1>9, <2>1, <2>5
<1>14. e \in Bijection(H, Q)
  BY <1>11, <1>12, <1>13 DEF Bijection, Injection, Surjection, IsInjective
<1>15. Cardinality(Q) = Cardinality(H)
  BY <1>4, <1>14, FS_Bijection DEF ExistsBijection
<1>16. Cardinality(F \ P) = Cardinality(F) - Cardinality(P)
  <2>1. F \cap P = P
    BY <1>6
  <2>2. Cardinality(F \ P) = Cardinality(F) - Cardinality(F \cap P)
    BY <1>4, FS_Difference
  <2> QED
    BY <2>1, <2>2
<1> QED
  BY <1>4, <1>7, <1>15, <1>16

(* One summand. *)
LEMMA TotalOne ==
    ASSUME NEW S, IsFiniteSet(S), NEW y \in S, NEW g \in [S -> Nat], \A x \in S : x # y => g[x] = 0
    PROVE  Total(S, g) = g[y]
<1>1. PICK P : P = Pairs(S, g)
  OBVIOUS
<1>2. /\ \A x, k : <<x, k>> \in P <=> x \in S /\ k \in 1 .. g[x]
      /\ \A p \in P : \E x \in S, k \in Nat : p = <<x, k>>
  BY <1>1, InPairs
<1>3. PICK e : e = [k \in 1 .. g[y] |-> <<y, k>>]
  OBVIOUS
<1>4. e \in Bijection(1 .. g[y], P)
  <2>1. e \in [1 .. g[y] -> P]
    BY <1>2, <1>3
  <2>2. \A j, k \in 1 .. g[y] : e[j] = e[k] => j = k
    BY <1>3
  <2>3. ASSUME NEW p \in P PROVE \E k \in 1 .. g[y] : e[k] = p
    <3>1. PICK x \in S, k \in Nat : p = <<x, k>>
      BY <1>2
    <3>2. k \in 1 .. g[x]
      BY <1>2, <3>1
    <3>3. x = y
      BY <3>2
    <3> QED
      BY <1>3, <3>1, <3>2, <3>3
  <2> QED
    BY <2>1, <2>2, <2>3 DEF Bijection, Injection, Surjection, IsInjective
<1>5. IsFiniteSet(1 .. g[y]) /\ Cardinality(1 .. g[y]) = g[y]
  BY FS_Interval
<1>6. Cardinality(P) = g[y]
  BY <1>4, <1>5, FS_Bijection DEF ExistsBijection
<1> QED
  BY <1>1, <1>6, PairsFinite

-----------------------------------------------------------------------------
(* Tokens by weight *)

Weights == [Nodes -> Nat]

LEMMA TimesPlus ==
    ASSUME NEW a \in Nat, NEW b \in Nat, NEW c \in Nat
    PROVE  (a + b) * c = a * c + b * c /\ a * c \in Nat
OBVIOUS

(* Weights add up. *)
LEMMA WeighPlus ==
    ASSUME IsFiniteSet(Nodes), NEW V \in Weights, NEW a \in Bag, NEW b \in Bag, NEW c \in Bag,
           \A n \in Nodes : c[n] = a[n] + b[n]
    PROVE  /\ Weigh(V, c) = Weigh(V, a) + Weigh(V, b)
           /\ Weigh(V, a) \in Nat /\ Weigh(V, b) \in Nat /\ Weigh(V, c) \in Nat
<1>1. PICK g : g = [n \in Nodes |-> a[n] * V[n]]
  OBVIOUS
<1>2. PICK h : h = [n \in Nodes |-> b[n] * V[n]]
  OBVIOUS
<1>3. PICK f : f = [n \in Nodes |-> c[n] * V[n]]
  OBVIOUS
<1>4. \A n \in Nodes : a[n] \in Nat /\ b[n] \in Nat /\ c[n] \in Nat /\ V[n] \in Nat
  BY DEF Bag, Weights
<1>5. \A n \in Nodes : f[n] = g[n] + h[n] /\ f[n] \in Nat /\ g[n] \in Nat /\ h[n] \in Nat
  BY <1>1, <1>2, <1>3, <1>4, TimesPlus
<1>6. f \in [Nodes -> Nat] /\ g \in [Nodes -> Nat] /\ h \in [Nodes -> Nat]
  BY <1>1, <1>2, <1>3, <1>5
<1>7. Total(Nodes, f) = Total(Nodes, g) + Total(Nodes, h)
  BY <1>5, <1>6, TotalPlus
<1>8. Total(Nodes, f) \in Nat /\ Total(Nodes, g) \in Nat /\ Total(Nodes, h) \in Nat
  BY <1>6, PairsFinite
<1> QED
  BY <1>1, <1>2, <1>3, <1>7, <1>8 DEF Weigh

(* k tokens at n. *)
Only(n, k) == [m \in Nodes |-> IF m = n THEN k ELSE 0]

LEMMA WeighOnly ==
    ASSUME IsFiniteSet(Nodes), NEW V \in Weights, NEW n \in Nodes, NEW k \in Nat
    PROVE  Only(n, k) \in Bag /\ Weigh(V, Only(n, k)) = k * V[n] /\ k * V[n] \in Nat
<1>1. Only(n, k) \in Bag
  BY DEF Only, Bag
<1>2. PICK g : g = [m \in Nodes |-> Only(n, k)[m] * V[m]]
  OBVIOUS
<1>3. V[n] \in Nat /\ k * V[n] \in Nat
  BY DEF Weights
<1>4. g[n] = k * V[n]
  BY <1>2 DEF Only
<1>5. \A m \in Nodes : m # n => g[m] = 0
  BY <1>2 DEF Only, Weights
<1>6. g \in [Nodes -> Nat]
  <2>1. \A m \in Nodes : g[m] \in Nat
    BY <1>3, <1>4, <1>5
  <2> QED
    BY <1>2, <2>1
<1>7. Total(Nodes, g) = g[n]
  BY <1>5, <1>6, TotalOne
<1> QED
  BY <1>1, <1>2, <1>3, <1>4, <1>7 DEF Weigh

LEMMA WeighNothing ==
    ASSUME IsFiniteSet(Nodes), NEW V \in Weights
    PROVE  Weigh(V, EmptyBag) = 0
<1>1. EmptyBag \in Bag /\ \A n \in Nodes : EmptyBag[n] = EmptyBag[n] + EmptyBag[n]
  BY DEF EmptyBag, Bag
<1>2. PICK z : z = Weigh(V, EmptyBag)
  OBVIOUS
<1>3. z = z + z /\ z \in Nat
  BY <1>1, <1>2, WeighPlus
<1>4. z = 0
  BY <1>3
<1> QED
  BY <1>2, <1>4

(* k tokens more at n. *)
LEMMA WeighMore ==
    ASSUME IsFiniteSet(Nodes), NEW V \in Weights, NEW n \in Nodes, NEW k \in Nat, NEW a \in Bag, NEW b \in Bag,
           b[n] = a[n] + k, \A m \in Nodes : m # n => b[m] = a[m]
    PROVE  Weigh(V, b) = Weigh(V, a) + k * V[n] /\ Weigh(V, a) \in Nat /\ Weigh(V, b) \in Nat
<1>1. Only(n, k) \in Bag /\ Weigh(V, Only(n, k)) = k * V[n]
  BY WeighOnly
<1>2. \A m \in Nodes : b[m] = a[m] + Only(n, k)[m]
  BY DEF Only, Bag
<1> QED
  BY <1>1, <1>2, WeighPlus

LEMMA WeighMoves ==
    ASSUME IsFiniteSet(Nodes), NEW V \in Weights, NEW n \in Nodes, NEW b \in Bag
    PROVE  /\ Weigh(V, Put(b, n)) = Weigh(V, b) + V[n]
           /\ b[n] # 0 => Weigh(V, b) = Weigh(V, Take(b, n)) + V[n]
           /\ Weigh(V, b) = Weigh(V, [b EXCEPT ![n] = 0]) + b[n] * V[n]
           /\ Weigh(V, b) \in Nat /\ Weigh(V, Put(b, n)) \in Nat /\ Weigh(V, Take(b, n)) \in Nat
           /\ Weigh(V, [b EXCEPT ![n] = 0]) \in Nat
<1>1. b[n] \in Nat /\ V[n] \in Nat /\ 1 * V[n] = V[n]
  BY DEF Bag, Weights
<1>2. Put(b, n) \in Bag /\ Take(b, n) \in Bag /\ [b EXCEPT ![n] = 0] \in Bag
  BY DEF Bag, Put, Take
<1>3. Put(b, n)[n] = b[n] + 1 /\ \A m \in Nodes : m # n => Put(b, n)[m] = b[m]
  BY DEF Bag, Put
<1>4. (b[n] # 0 => b[n] = Take(b, n)[n] + 1) /\ \A m \in Nodes : m # n => b[m] = Take(b, n)[m]
  BY <1>1 DEF Bag, Take
<1>5. b[n] = [b EXCEPT ![n] = 0][n] + b[n] /\ \A m \in Nodes : m # n => b[m] = [b EXCEPT ![n] = 0][m]
  BY <1>1 DEF Bag
<1>6. Weigh(V, Put(b, n)) = Weigh(V, b) + 1 * V[n] /\ Weigh(V, b) \in Nat /\ Weigh(V, Put(b, n)) \in Nat
  BY <1>2, <1>3, WeighMore
<1>7. b[n] # 0 => Weigh(V, b) = Weigh(V, Take(b, n)) + 1 * V[n]
  BY <1>2, <1>4, WeighMore
<1>8. PICK z : z = [b EXCEPT ![n] = 0]
  OBVIOUS
<1>9. Weigh(V, b) = Weigh(V, z) + b[n] * V[n] /\ Weigh(V, z) \in Nat
  <2>1. z \in Bag /\ b[n] = z[n] + b[n] /\ \A m \in Nodes : m # n => b[m] = z[m]
    BY <1>2, <1>5, <1>8
  <2> QED
    BY <1>1, <2>1, WeighMore
<1>10. Weigh(V, Take(b, n)) \in Nat
  <2>1. \A m \in Nodes : Take(b, n)[m] = Take(b, n)[m] + EmptyBag[m]
    BY <1>2 DEF Bag, EmptyBag
  <2>2. EmptyBag \in Bag
    BY DEF Bag, EmptyBag
  <2> QED
    BY <1>2, <2>1, <2>2, WeighPlus
<1> QED
  BY <1>1, <1>6, <1>7, <1>8, <1>9, <1>10

(* Occurrences in a concatenation. *)
LEMMA CountConcat ==
    ASSUME NEW s \in Seq(Nodes), NEW t \in Seq(Nodes), NEW n
    PROVE  /\ CountIn(s \o t, n) = CountIn(s, n) + CountIn(t, n)
           /\ CountIn(s, n) \in Nat /\ CountIn(t, n) \in Nat
<1>1. PICK r : r = s \o t
  OBVIOUS
<1>2. PICK p : p = Len(s)
  OBVIOUS
<1>3. PICK q : q = Len(t)
  OBVIOUS
<1>4. /\ p \in Nat /\ q \in Nat /\ DOMAIN s = 1 .. p /\ DOMAIN t = 1 .. q /\ DOMAIN r = 1 .. p + q
      /\ \A k \in 1 .. p : r[k] = s[k]
      /\ \A k \in 1 .. q : r[k + p] = t[k]
  <2>1. Len(r) = p + q /\ r \in Seq(Nodes)
    BY <1>1, <1>2, <1>3
  <2>2. \A k \in 1 .. Len(r) : r[k] = IF k <= p THEN s[k] ELSE t[k - p]
    BY <1>1, <1>2, <1>3
  <2>3. p \in Nat /\ q \in Nat
    BY <1>2, <1>3
  <2>4. \A k \in 1 .. q : k + p \in 1 .. Len(r) /\ ~(k + p <= p) /\ (k + p) - p = k
    BY <2>1, <2>3
  <2>5. \A k \in 1 .. p : k \in 1 .. Len(r) /\ k <= p
    BY <2>1, <2>3
  <2> QED
    BY <1>2, <1>3, <2>1, <2>2, <2>3, <2>4, <2>5
<1>5. PICK A : A = {k \in DOMAIN s : s[k] = n}
  OBVIOUS
<1>6. PICK B : B = {k \in DOMAIN t : t[k] = n}
  OBVIOUS
<1>7. PICK C : C = {k \in DOMAIN r : r[k] = n /\ k \notin A}
  OBVIOUS
<1>8. PICK e : e = [k \in B |-> k + p]
  OBVIOUS
<1>9. e \in Bijection(B, C)
  <2>1. ASSUME NEW k \in B PROVE e[k] \in C /\ e[k] = k + p /\ k \in Nat
    <3>1. k \in 1 .. q /\ t[k] = n
      BY <1>4, <1>6
    <3>2. k + p \in 1 .. p + q /\ k + p \notin 1 .. p
      BY <1>4, <3>1
    <3> QED
      BY <1>4, <1>5, <1>7, <1>8, <3>1, <3>2
  <2>2. ASSUME NEW j \in B, NEW k \in B, e[j] = e[k] PROVE j = k
    BY <1>4, <2>1, <2>2
  <2>3. ASSUME NEW k \in C PROVE \E j \in B : e[j] = k
    <3>1. k \in 1 .. p + q /\ r[k] = n /\ k \notin A
      BY <1>4, <1>7
    <3>2. k \notin 1 .. p
      BY <1>4, <1>5, <3>1
    <3>3. PICK j : j = k - p
      OBVIOUS
    <3>4. j \in 1 .. q /\ j + p = k
      BY <1>4, <3>1, <3>2, <3>3
    <3>5. j \in B
      BY <1>4, <1>6, <3>1, <3>4
    <3> QED
      BY <1>8, <3>4, <3>5
  <2>4. e \in [B -> C]
    BY <1>8, <2>1
  <2> QED
    BY <2>2, <2>3, <2>4 DEF Bijection, Injection, Surjection, IsInjective
<1>10. IsFiniteSet(A) /\ IsFiniteSet(B)
  <2>1. IsFiniteSet(1 .. p) /\ IsFiniteSet(1 .. q)
    BY <1>4, FS_Interval
  <2> QED
    BY <1>4, <1>5, <1>6, <2>1, FS_Subset
<1>11. IsFiniteSet(C) /\ Cardinality(C) = Cardinality(B)
  BY <1>9, <1>10, FS_Bijection DEF ExistsBijection
<1>12. A \cap C = {} /\ {k \in DOMAIN r : r[k] = n} = A \cup C
  <2>1. \A k \in A : k \in DOMAIN r /\ r[k] = n
    BY <1>4, <1>5
  <2> QED
    BY <1>7, <2>1
<1>13. /\ Cardinality(A \cup C) = Cardinality(A) + Cardinality(C) - Cardinality(A \cap C)
       /\ Cardinality({}) = 0 /\ Cardinality(A) \in Nat /\ Cardinality(C) \in Nat
  BY <1>10, <1>11, FS_Union, FS_EmptySet, FS_CardinalityType
<1>14. Cardinality(A \cup C) = Cardinality(A) + Cardinality(C)
  <2>1. Cardinality(A \cap C) = 0
    BY <1>12, <1>13, Zenon
  <2>2. PICK x : x = Cardinality(A \cap C)
    OBVIOUS
  <2> QED
    BY <1>13, <2>1, <2>2
<1>15. Cardinality({k \in DOMAIN r : r[k] = n}) = Cardinality(A) + Cardinality(B)
  BY <1>11, <1>12, <1>14
<1> QED
  BY <1>1, <1>5, <1>6, <1>11, <1>13, <1>15 DEF CountIn

LEMMA WeightConcat ==
    ASSUME IsFiniteSet(Nodes), NEW V \in Weights, NEW s \in Seq(Nodes), NEW t \in Seq(Nodes)
    PROVE  /\ Weight(V, s \o t) = Weight(V, s) + Weight(V, t)
           /\ Weight(V, s) \in Nat /\ Weight(V, t) \in Nat
<1>1. \A n \in Nodes : BagOf(s \o t)[n] = BagOf(s)[n] + BagOf(t)[n]
  BY CountConcat DEF BagOf
<1>2. BagOf(s) \in Bag /\ BagOf(t) \in Bag /\ BagOf(s \o t) \in Bag
  <2>1. \A n \in Nodes : CountIn(s, n) \in Nat /\ CountIn(t, n) \in Nat /\ CountIn(s \o t, n) \in Nat
    BY CountConcat
  <2> QED
    BY <2>1 DEF BagOf, Bag
<1> QED
  BY <1>1, <1>2, WeighPlus DEF Weight

LEMMA WeightEmpty ==
    ASSUME IsFiniteSet(Nodes), NEW V \in Weights
    PROVE  Weight(V, <<>>) = 0
<1>1. <<>> \in Seq(Nodes) /\ <<>> \o <<>> = <<>>
  OBVIOUS
<1>2. Weight(V, <<>>) = Weight(V, <<>>) + Weight(V, <<>>) /\ Weight(V, <<>>) \in Nat
  BY <1>1, WeightConcat
<1> QED
  BY <1>2

LEMMA WeightHead ==
    ASSUME IsFiniteSet(Nodes), NEW V \in Weights, NEW s \in Seq(Nodes), s # <<>>
    PROVE  /\ Weight(V, s) = V[Head(s)] + Weight(V, Tail(s)) /\ Weight(V, s) \in Nat /\ Weight(V, Tail(s)) \in Nat
           /\ V[Head(s)] \in Nat
<1>1. PICK n : n = Head(s)
  OBVIOUS
<1>2. n \in Nodes /\ Tail(s) \in Seq(Nodes) /\ <<n>> \in Seq(Nodes) /\ s = <<n>> \o Tail(s)
  BY <1>1
<1>3. BagOf(<<n>>) = Only(n, 1)
  <2>1. {k \in DOMAIN <<n>> : <<n>>[k] = n} = {1}
    OBVIOUS
  <2>2. \A m \in Nodes : m # n => {k \in DOMAIN <<n>> : <<n>>[k] = m} = {}
    OBVIOUS
  <2>3. Cardinality({1}) = 1 /\ Cardinality({}) = 0
    BY FS_Singleton, FS_EmptySet
  <2>4. CountIn(<<n>>, n) = 1
    BY <2>1, <2>3 DEF CountIn
  <2>5. \A m \in Nodes : m # n => CountIn(<<n>>, m) = 0
    BY <2>2, <2>3 DEF CountIn
  <2> QED
    BY <2>4, <2>5 DEF BagOf, Only
<1>4. Weight(V, <<n>>) = 1 * V[n]
  BY <1>2, <1>3, WeighOnly DEF Weight
<1>5. V[n] \in Nat
  BY <1>2 DEF Weights
<1>6. Weight(V, s) = Weight(V, <<n>>) + Weight(V, Tail(s)) /\ Weight(V, Tail(s)) \in Nat
  BY <1>2, WeightConcat
<1> QED
  BY <1>1, <1>4, <1>5, <1>6

-----------------------------------------------------------------------------
(* A turn of the loop by weight *)

LEMMA NextIsOnward ==
    ASSUME NEW d \in Definitions, NEW n \in Nodes, NEW h
    PROVE  /\ NextTarget(d, n, h) \in {NextTarget(d, n, {}), NextTarget(d, n, {n})}
           /\ Kind[d][n] \notin {"end", "absent", "split"} => NextTarget(d, n, h) \in Onward(d, n)
           /\ Kind[d][n] \notin {"end", "absent", "split", "condition"} => FirstTarget(Outs[d][n]) \in Onward(d, n)
           /\ Kind[d][n] \in {"end", "absent"} => <<>> \in Onward(d, n)
           /\ Kind[d][n] = "split" => Targets(Outs[d][n]) \in Onward(d, n)
<1>1. NextTarget(d, n, h) \in {NextTarget(d, n, {}), NextTarget(d, n, {n})}
  BY DEF NextTarget
<1>2. ASSUME Kind[d][n] \notin {"end", "absent", "split"}
      PROVE  Onward(d, n) = {NextTarget(d, n, {}), NextTarget(d, n, {n})}
  BY <1>2 DEF Onward
<1>3. ASSUME Kind[d][n] \notin {"end", "absent", "split", "condition"}
      PROVE  FirstTarget(Outs[d][n]) = NextTarget(d, n, {})
  BY <1>3 DEF FirstTarget, NextTarget
<1>4. Kind[d][n] \in {"end", "absent"} => <<>> \in Onward(d, n)
  BY DEF Onward
<1>5. Kind[d][n] = "split" => Targets(Outs[d][n]) \in Onward(d, n)
  BY DEF Onward
<1> QED
  BY <1>1, <1>2, <1>3, <1>4, <1>5

LEMMA OnwardType ==
    ASSUME NEW d \in Definitions, NEW n \in Nodes
    PROVE  Onward(d, n) \subseteq Seq(Nodes)
<1>1. NextTarget(d, n, {}) \in Seq(Nodes) /\ NextTarget(d, n, {n}) \in Seq(Nodes)
  BY NextTargetType
<1>2. Targets(Outs[d][n]) \in Seq(Nodes) /\ <<>> \in Seq(Nodes)
  BY OutsType
<1> QED
  BY <1>1, <1>2 DEF Onward

(* The tokens of a walk, resting or to be followed. *)
Load(V, w) == Weigh(V, w.active) + Weight(V, w.work)

(* The turn from w to v leaves a token at n. *)
Leaves(w, v, n) ==
    /\ v.runs = w.runs
    /\ \A V \in Weights : Load(V, v) = Load(V, w) /\ Weight(V, v.work) + V[n] = Weight(V, w.work)

(* It takes c tokens at n and goes on at the nodes of s. *)
Crosses(d, w, v, n, c, s) ==
    /\ Kind[d][n] \notin {"stop", "external"}
    /\ c \in Nat /\ c >= Needed(d, n)
    /\ IF Kind[d][n] = "join" THEN c = w.active[n] + 1 ELSE c = 1
    /\ v.runs = IF Kind[d][n] \in {"auto", "subflow"} THEN Append(w.runs, n) ELSE w.runs
    /\ \A V \in Weights : /\ Load(V, v) + c * V[n] = Load(V, w) + Weight(V, s)
                          /\ Weight(V, v.work) + V[n] = Weight(V, w.work) + Weight(V, s)

LEMMA StepMoves ==
    ASSUME IsFiniteSet(Nodes), NEW d \in Definitions, NEW h, NEW w \in WalkType, w.work # <<>>
    PROVE  LET v == WalkStep(d, h, w)
               n == Head(w.work)
           IN  /\ n \in Nodes /\ v.steps = w.steps + 1
               /\ Leaves(w, v, n) \/ \E s \in Onward(d, n), c \in Nat : Crosses(d, w, v, n, c, s)
<1>1. PICK n : n = Head(w.work)
  OBVIOUS
<1>2. /\ n \in Nodes /\ w.active \in Bag /\ w.work \in Seq(Nodes) /\ Tail(w.work) \in Seq(Nodes)
      /\ w.runs \in Seq(Nodes) /\ w.steps \in Nat
  BY <1>1 DEF WalkType
<1>3. PICK v : v = WalkStep(d, h, w)
  OBVIOUS
<1>k. PICK k : k = Kind[d][n]
  OBVIOUS
<1>4. k \in Kinds
  BY <1>2, <1>k, ConstantsAssumption
<1>5. PICK out : out = FirstTarget(Outs[d][n])
  OBVIOUS
<1>6. Needed(d, n) = IF k = "join" THEN JoinNeeds(d, n) ELSE 1
  BY <1>k DEF Needed
<1>h. ASSUME NEW V \in Weights
      PROVE  /\ Weight(V, w.work) = V[n] + Weight(V, Tail(w.work)) /\ Weight(V, Tail(w.work)) \in Nat
             /\ V[n] \in Nat
             /\ \A s \in Seq(Nodes) : Weight(V, Tail(w.work) \o s) = Weight(V, Tail(w.work)) + Weight(V, s)
                                      /\ Weight(V, s) \in Nat
             /\ Weigh(V, w.active) \in Nat /\ Weigh(V, Put(w.active, n)) = Weigh(V, w.active) + V[n]
             /\ Weigh(V, w.active) = Weigh(V, [w.active EXCEPT ![n] = 0]) + w.active[n] * V[n]
             /\ Weigh(V, [w.active EXCEPT ![n] = 0]) \in Nat
  <2>1. Weight(V, w.work) = V[n] + Weight(V, Tail(w.work)) /\ Weight(V, Tail(w.work)) \in Nat /\ V[n] \in Nat
    BY <1>1, <1>2, WeightHead
  <2>2. \A s \in Seq(Nodes) : Weight(V, Tail(w.work) \o s) = Weight(V, Tail(w.work)) + Weight(V, s)
                              /\ Weight(V, s) \in Nat
    BY <1>2, WeightConcat
  <2> QED
    BY <1>2, <2>1, <2>2, WeighMoves
(* It rests. *)
<1>l. ASSUME v.runs = w.runs, v.work = Tail(w.work) \o <<>>, v.active = Put(w.active, n)
      PROVE  Leaves(w, v, n)
  <2>1. ASSUME NEW V \in Weights PROVE Load(V, v) = Load(V, w) /\ Weight(V, v.work) + V[n] = Weight(V, w.work)
    <3>1. <<>> \in Seq(Nodes) /\ Weight(V, <<>>) = 0
      BY WeightEmpty
    <3>2. Weight(V, v.work) = Weight(V, Tail(w.work)) + 0
      BY <1>h, <1>l, <3>1
    <3>3. Weigh(V, v.active) = Weigh(V, w.active) + V[n]
      BY <1>h, <1>l
    <3> QED
      BY <1>h, <3>2, <3>3 DEF Load
  <2> QED
    BY <1>l, <2>1 DEF Leaves
(* It goes on. *)
<1>c. ASSUME NEW s \in Onward(d, n), k \notin {"stop", "external", "join"},
             v.runs = IF k \in {"auto", "subflow"} THEN Append(w.runs, n) ELSE w.runs,
             v.work = Tail(w.work) \o s, v.active = w.active
      PROVE  Crosses(d, w, v, n, 1, s)
  <2>1. s \in Seq(Nodes)
    BY <1>2, OnwardType
  <2>2. ASSUME NEW V \in Weights
        PROVE  /\ Load(V, v) + 1 * V[n] = Load(V, w) + Weight(V, s)
               /\ Weight(V, v.work) + V[n] = Weight(V, w.work) + Weight(V, s)
    <3>1. Weight(V, v.work) = Weight(V, Tail(w.work)) + Weight(V, s) /\ Weight(V, s) \in Nat
      BY <1>c, <1>h, <2>1
    <3>2. Weigh(V, v.active) = Weigh(V, w.active)
      BY <1>c
    <3> QED
      BY <1>h, <3>1, <3>2 DEF Load
  <2>3. Needed(d, n) = 1 /\ 1 \in Nat /\ 1 >= 1
    BY <1>6, <1>c
  <2> QED
    BY <1>c, <1>k, <2>2, <2>3 DEF Crosses
<1>7. CASE k \in {"stop", "external"}
  <2>1. v.runs = w.runs /\ v.work = Tail(w.work) \o <<>> /\ v.active = Put(w.active, n) /\ v.steps = w.steps + 1
    BY <1>1, <1>3, <1>k, <1>7 DEF WalkStep, WalkType
  <2> QED
    BY <1>1, <1>2, <1>3, <1>l, <2>1
<1>8. CASE k = "join" /\ ~(Put(w.active, n)[n] >= JoinNeeds(d, n))
  <2>1. v.runs = w.runs /\ v.work = Tail(w.work) \o <<>> /\ v.active = Put(w.active, n) /\ v.steps = w.steps + 1
    BY <1>1, <1>3, <1>k, <1>8 DEF WalkStep, WalkType
  <2> QED
    BY <1>1, <1>2, <1>3, <1>l, <2>1
<1>9. CASE k = "join" /\ Put(w.active, n)[n] >= JoinNeeds(d, n)
  <2>1. /\ v.runs = w.runs /\ v.work = Tail(w.work) \o out /\ v.active = [w.active EXCEPT ![n] = 0]
        /\ v.steps = w.steps + 1
    BY <1>1, <1>3, <1>5, <1>k, <1>9 DEF WalkStep, WalkType
  <2>2. out \in Onward(d, n) /\ out \in Seq(Nodes)
    BY <1>2, <1>5, <1>k, <1>9, NextIsOnward, OutsType
  <2>3. PICK c : c = w.active[n] + 1
    OBVIOUS
  <2>4. c \in Nat /\ Put(w.active, n)[n] = c /\ w.active[n] \in Nat
    BY <1>2, <2>3 DEF Bag, Put
  <2>5. ASSUME NEW V \in Weights
        PROVE  /\ Load(V, v) + c * V[n] = Load(V, w) + Weight(V, out)
               /\ Weight(V, v.work) + V[n] = Weight(V, w.work) + Weight(V, out)
    <3>1. Weight(V, v.work) = Weight(V, Tail(w.work)) + Weight(V, out) /\ Weight(V, out) \in Nat
      BY <1>h, <2>1, <2>2
    <3>2. Weigh(V, w.active) = Weigh(V, v.active) + w.active[n] * V[n] /\ Weigh(V, v.active) \in Nat
      BY <1>h, <2>1
    <3>3. c * V[n] = w.active[n] * V[n] + 1 * V[n] /\ w.active[n] * V[n] \in Nat /\ 1 * V[n] = V[n]
      <4>1. V[n] \in Nat /\ 1 \in Nat
        BY <1>h
      <4>2. (w.active[n] + 1) * V[n] = w.active[n] * V[n] + 1 * V[n] /\ w.active[n] * V[n] \in Nat
        BY <2>4, <4>1, TimesPlus
      <4> QED
        BY <2>3, <4>1, <4>2
    <3> QED
      BY <1>h, <3>1, <3>2, <3>3 DEF Load
  <2>6. Crosses(d, w, v, n, c, out)
    <3>1. k \notin {"stop", "external"} /\ k \notin {"auto", "subflow"}
      BY <1>9
    <3>2. c >= Needed(d, n)
      BY <1>6, <1>9, <2>4
    <3> QED
      BY <1>9, <1>k, <2>1, <2>3, <2>4, <2>5, <3>1, <3>2 DEF Crosses
  <2> QED
    BY <1>1, <1>2, <1>3, <2>1, <2>2, <2>4, <2>6
<1>10. CASE k \notin {"stop", "external", "join"}
  <2>1. \E s \in Onward(d, n) :
           /\ v.runs = (IF k \in {"auto", "subflow"} THEN Append(w.runs, n) ELSE w.runs)
           /\ v.work = Tail(w.work) \o s /\ v.active = w.active /\ v.steps = w.steps + 1
    <3>1. CASE k = "split"
      <4>1. v.runs = w.runs /\ v.work = Tail(w.work) \o Targets(Outs[d][n]) /\ v.active = w.active /\ v.steps = w.steps + 1
        BY <1>1, <1>3, <1>k, <3>1 DEF WalkStep, WalkType
      <4>2. Targets(Outs[d][n]) \in Onward(d, n)
        BY <1>2, <1>k, <3>1, NextIsOnward
      <4> QED
        BY <3>1, <4>1, <4>2
    <3>2. CASE k = "condition"
      <4>1. v.runs = w.runs /\ v.work = Tail(w.work) \o NextTarget(d, n, h) /\ v.active = w.active /\ v.steps = w.steps + 1
        BY <1>1, <1>3, <1>k, <3>2 DEF WalkStep, WalkType
      <4>2. NextTarget(d, n, h) \in Onward(d, n)
        BY <1>2, <1>k, <3>2, NextIsOnward
      <4> QED
        BY <3>2, <4>1, <4>2
    <3>3. CASE k \in {"auto", "subflow"}
      <4>1. v.runs = Append(w.runs, n) /\ v.work = Tail(w.work) \o out /\ v.active = w.active /\ v.steps = w.steps + 1
        BY <1>1, <1>3, <1>5, <1>k, <3>3 DEF WalkStep, WalkType
      <4>2. out \in Onward(d, n)
        BY <1>2, <1>5, <1>k, <3>3, NextIsOnward
      <4> QED
        BY <3>3, <4>1, <4>2
    <3>4. CASE k = "pass"
      <4>1. v.runs = w.runs /\ v.work = Tail(w.work) \o out /\ v.active = w.active /\ v.steps = w.steps + 1
        BY <1>1, <1>3, <1>5, <1>k, <3>4 DEF WalkStep, WalkType
      <4>2. out \in Onward(d, n)
        BY <1>2, <1>5, <1>k, <3>4, NextIsOnward
      <4> QED
        BY <3>4, <4>1, <4>2
    <3>5. CASE k \in {"end", "absent"}
      <4>1. v.runs = w.runs /\ v.work = Tail(w.work) \o <<>> /\ v.active = w.active /\ v.steps = w.steps + 1
        BY <1>1, <1>3, <1>k, <3>5 DEF WalkStep, WalkType
      <4>2. <<>> \in Onward(d, n)
        BY <1>2, <1>k, <3>5, NextIsOnward
      <4> QED
        BY <3>5, <4>1, <4>2
    <3> QED
      BY <1>4, <1>10, <3>1, <3>2, <3>3, <3>4, <3>5 DEF Kinds
  <2> QED
    BY <1>1, <1>2, <1>3, <1>10, <1>c, <2>1
<1> QED
  BY <1>7, <1>8, <1>9, <1>10

-----------------------------------------------------------------------------
(* Automatic steps run once *)

LEMMA TimesMore ==
    ASSUME NEW a \in Nat, NEW b \in Nat, NEW c \in Nat, a <= b
    PROVE  a * c <= b * c /\ a * c \in Nat /\ b * c \in Nat
<1>1. PICK e : e = b - a
  OBVIOUS
<1>2. e \in Nat /\ b = a + e
  BY <1>1
<1>3. b * c = a * c + e * c /\ a * c \in Nat /\ e * c \in Nat
  BY <1>2, TimesPlus
<1> QED
  BY <1>3

(* Of an instance that made a calls for m, what is left to a walk w. *)
Held(m, V, u, a, w) == u * (a + CountIn(w.runs, m)) + Load(V, w) < 2 * u

Walking == {"create", "approve", "ext"}

(* The crossings of m made and the parts of one that tokens stand for make *)
(* less than two.                                                          *)
ShareOf(m, V, u) ==
    /\ \A i \in Instances : u * calls[i][m] + Weigh(V, active[i]) < 2 * u
    /\ \A i \in Instances : status[i] = "none" => calls[i][m] = 0
    /\ \A c \in Clients : tx[c].op \in Walking => Held(m, V, u, calls[tx[c].inst][m], tx[c].walk)

ShareInv == \A m \in Nodes : \E V \in [Nodes -> Nat], u \in Nat \ {0} : Shares(m, V, u) /\ ShareOf(m, V, u)

LEMMA LoadType ==
    ASSUME IsFiniteSet(Nodes), NEW V \in Weights, NEW w \in WalkType
    PROVE  Load(V, w) \in Nat /\ Weigh(V, w.active) \in Nat /\ Weight(V, w.work) \in Nat
<1>1. w.active \in Bag /\ w.work \in Seq(Nodes) /\ EmptyBag \in Bag
  BY NoTxType DEF WalkType
<1>2. \A n \in Nodes : w.active[n] = w.active[n] + EmptyBag[n]
  BY <1>1 DEF Bag, EmptyBag
<1>3. Weigh(V, w.active) \in Nat
  BY <1>1, <1>2, WeighPlus
<1>4. Weight(V, w.work) \in Nat
  BY <1>1, WeightConcat
<1> QED
  BY <1>3, <1>4 DEF Load

(* A turn of the loop makes no more of it. *)
LEMMA HeldStep ==
    ASSUME IsFiniteSet(Nodes), NEW m \in Nodes, NEW V \in Weights, NEW u \in Nat, Shares(m, V, u),
           NEW d \in Definitions, NEW h, NEW w \in WalkType, w.work # <<>>, NEW a \in Nat, Held(m, V, u, a, w)
    PROVE  Held(m, V, u, a, WalkStep(d, h, w))
<1>1. PICK v : v = WalkStep(d, h, w)
  OBVIOUS
<1>2. PICK n : n = Head(w.work)
  OBVIOUS
<1>3. n \in Nodes /\ (Leaves(w, v, n) \/ \E s \in Onward(d, n), c \in Nat : Crosses(d, w, v, n, c, s))
  BY <1>1, <1>2, StepMoves
<1>4. v \in WalkType
  BY <1>1, WalkStepType
<1>5. Load(V, w) \in Nat /\ Load(V, v) \in Nat
  BY <1>4, LoadType
<1>6. w.runs \in Seq(Nodes) /\ CountIn(w.runs, m) \in Nat
  <2>1. w.runs \in Seq(Nodes)
    BY DEF WalkType
  <2> QED
    BY <2>1, CountConcat
<1>7. CASE Leaves(w, v, n)
  <2>1. v.runs = w.runs /\ Load(V, v) = Load(V, w)
    BY <1>7 DEF Leaves
  <2> QED
    BY <1>1, <2>1 DEF Held
<1>8. ASSUME NEW s \in Onward(d, n), NEW c \in Nat, Crosses(d, w, v, n, c, s) PROVE Held(m, V, u, a, v)
  <2>1. s \in Seq(Nodes) /\ Weight(V, s) \in Nat
    <3>1. s \in Seq(Nodes)
      BY <1>3, OnwardType
    <3> QED
      BY <3>1, WeightConcat
  <2>2. c >= Needed(d, n) /\ Load(V, v) + c * V[n] = Load(V, w) + Weight(V, s)
    BY <1>8 DEF Crosses
  <2>3. Needed(d, n) \in Nat /\ V[n] \in Nat
    <3>1. JoinNeeds(d, n) \in Nat
      BY <1>3, GraphAssumption DEF JoinNeeds
    <3> QED
      BY <1>3, <3>1 DEF Needed, Weights
  <2>4. PICK y : y = Needed(d, n) * V[n]
    OBVIOUS
  <2>5. PICK z : z = c * V[n]
    OBVIOUS
  <2>6. y <= z /\ y \in Nat /\ z \in Nat
    BY <2>2, <2>3, <2>4, <2>5, TimesMore
  <2>7. Weight(V, s) + (IF n = m /\ Kind[d][n] \in {"auto", "subflow"} THEN u ELSE 0) <= y
    BY <1>3, <2>4 DEF Shares
  <2>8. Load(V, v) + z = Load(V, w) + Weight(V, s)
    BY <2>2, <2>5
  <2>9. CASE n = m /\ Kind[d][n] \in {"auto", "subflow"}
    <3>1. CountIn(v.runs, m) = CountIn(w.runs, m) + 1
      <4>1. v.runs = Append(w.runs, n)
        BY <1>8, <2>9 DEF Crosses
      <4> QED
        BY <1>6, <2>9, <4>1, CountAppend
    <3>2. Weight(V, s) + u <= y
      BY <2>7, <2>9
    <3>3. Load(V, v) + u <= Load(V, w)
      BY <1>5, <2>1, <2>6, <2>8, <3>2
    <3>4. PICK b : b = a + CountIn(w.runs, m)
      OBVIOUS
    <3>5. b \in Nat /\ a + CountIn(v.runs, m) = b + 1
      BY <1>6, <3>1, <3>4
    <3>6. u * (b + 1) = u * b + u /\ u * b \in Nat
      BY <3>5
    <3>7. u * b + Load(V, w) < 2 * u
      BY <3>4 DEF Held
    <3>8. u * b + u + Load(V, v) < 2 * u
      BY <1>5, <3>3, <3>6, <3>7
    <3> QED
      BY <3>5, <3>6, <3>8 DEF Held
  <2>10. CASE ~(n = m /\ Kind[d][n] \in {"auto", "subflow"})
    <3>1. CountIn(v.runs, m) = CountIn(w.runs, m)
      <4>1. CASE Kind[d][n] \in {"auto", "subflow"}
        <5>1. v.runs = Append(w.runs, n) /\ n # m
          BY <1>8, <2>10, <4>1 DEF Crosses
        <5> QED
          BY <1>3, <1>6, <5>1, CountAppend
      <4>2. CASE Kind[d][n] \notin {"auto", "subflow"}
        BY <1>8, <4>2 DEF Crosses
      <4> QED
        BY <4>1, <4>2
    <3>2. Weight(V, s) <= y
      <4>1. Weight(V, s) + 0 <= y
        BY <2>7, <2>10
      <4> QED
        BY <2>1, <4>1
    <3>3. Load(V, v) <= Load(V, w)
      BY <1>5, <2>1, <2>6, <2>8, <3>2
    <3>4. PICK b : b = u * (a + CountIn(w.runs, m))
      OBVIOUS
    <3>5. b \in Nat
      BY <1>6, <3>4
    <3>6. b + Load(V, w) < 2 * u
      BY <3>4 DEF Held
    <3>7. b + Load(V, v) < 2 * u
      BY <1>5, <3>3, <3>5, <3>6
    <3> QED
      BY <3>1, <3>4, <3>7 DEF Held
  <2> QED
    BY <2>9, <2>10
<1> QED
  BY <1>1, <1>3, <1>7, <1>8

(* An open row has its token, of a rejected instance too. *)
LEMMA TaskHasToken ==
    ASSUME NEW i \in Instances, NEW T \in Seq(RowType(TaskStatus)), NEW E, NEW b, Accounted(b, i, T, E),
           AtKind(T, "stop"), NEW r \in DOMAIN T, T[r].status = "open", T[r].inst = i
    PROVE  b[T[r].node] # 0 /\ T[r].node \in Nodes /\ K(T[r].node) = "stop"
<1>1. PICK n : n = T[r].node
  OBVIOUS
<1>2. n \in Nodes /\ K(n) = "stop"
  <2>1. T[r] \in RowType(TaskStatus)
    OBVIOUS
  <2> QED
    BY <1>1, <2>1 DEF RowType, AtKind
<1>3. PICK x \in Bag : Tokens(b, i, T, E, x)
  BY DEF Accounted
<1>4. b[n] = Cardinality(RowsOf(T, i, n, "open")) + x[n] /\ x[n] \in Nat
  BY <1>2, <1>3 DEF Tokens, Bag
<1>5. IsFiniteSet(RowsOf(T, i, n, "open")) /\ Cardinality(RowsOf(T, i, n, "open")) \in Nat
  BY RowsFinite
<1>6. r \in RowsOf(T, i, n, "open")
  BY <1>1 DEF RowsOf
<1>7. Cardinality(RowsOf(T, i, n, "open")) # 0
  BY <1>5, <1>6, FS_EmptySet
<1>8. b[n] # 0
  BY <1>4, <1>5, <1>7
<1> QED
  BY <1>1, <1>2, <1>8

LEMMA ExtHasToken ==
    ASSUME NEW i \in Instances, NEW T, NEW E \in Seq(RowType(ExtStatus)), NEW b, Accounted(b, i, T, E),
           AtKind(E, "external"), NEW r \in DOMAIN E, E[r].status = "pending", E[r].inst = i
    PROVE  b[E[r].node] # 0 /\ E[r].node \in Nodes /\ K(E[r].node) = "external"
<1>1. PICK n : n = E[r].node
  OBVIOUS
<1>2. n \in Nodes /\ K(n) = "external"
  <2>1. E[r] \in RowType(ExtStatus)
    OBVIOUS
  <2> QED
    BY <1>1, <2>1 DEF RowType, AtKind
<1>3. PICK x \in Bag : Tokens(b, i, T, E, x)
  BY DEF Accounted
<1>4. b[n] = Cardinality(RowsOf(E, i, n, "pending")) + x[n] /\ x[n] \in Nat
  BY <1>2, <1>3 DEF Tokens, Bag
<1>5. IsFiniteSet(RowsOf(E, i, n, "pending")) /\ Cardinality(RowsOf(E, i, n, "pending")) \in Nat
  BY RowsFinite
<1>6. r \in RowsOf(E, i, n, "pending")
  BY <1>1 DEF RowsOf
<1>7. Cardinality(RowsOf(E, i, n, "pending")) # 0
  BY <1>5, <1>6, FS_EmptySet
<1>8. b[n] # 0
  BY <1>4, <1>5, <1>7
<1> QED
  BY <1>1, <1>2, <1>8

LEMMA HeldCreate ==
    ASSUME IsFiniteSet(Nodes), NEW m \in Nodes, NEW V \in Weights, NEW u \in Nat, Shares(m, V, u),
           NEW d \in Definitions, NEW h
    PROVE  Held(m, V, u, 0, Walk(NextTarget(d, Start, h), EmptyBag))
<1>1. PICK s : s = NextTarget(d, Start, h)
  OBVIOUS
<1>2. Start \in Nodes
  BY ConstantsAssumption
<1>3. s \in Seq(Nodes) /\ s \in Entries(d)
  BY <1>1, <1>2, NextTargetType, NextIsOnward DEF Entries
<1>4. Weight(V, s) < 2 * u /\ Weight(V, s) \in Nat
  BY <1>3, WeightConcat DEF Shares
<1>5. PICK w : w = Walk(s, EmptyBag)
  OBVIOUS
<1>6. w.runs = <<>> /\ w.active = EmptyBag /\ w.work = s
  BY <1>5 DEF Walk
<1>7. CountIn(w.runs, m) = 0 /\ Weigh(V, w.active) = 0 /\ Weight(V, w.work) = Weight(V, s)
  BY <1>6, CountNone, WeighNothing
<1>8. u * (0 + 0) = 0
  OBVIOUS
<1>9. Held(m, V, u, 0, w)
  BY <1>4, <1>7, <1>8 DEF Held, Load
<1> QED
  BY <1>1, <1>5, <1>9

LEMMA HeldBegin ==
    ASSUME IsFiniteSet(Nodes), NEW m \in Nodes, NEW V \in Weights, NEW u \in Nat, Shares(m, V, u),
           NEW d \in Definitions, NEW h, NEW n \in Nodes, Kind[d][n] \in {"stop", "external"},
           NEW b \in Bag, b[n] # 0, NEW a \in Nat, u * a + Weigh(V, b) < 2 * u
    PROVE  Held(m, V, u, a, Walk(NextTarget(d, n, h), Take(b, n)))
<1>1. PICK s : s = NextTarget(d, n, h)
  OBVIOUS
<1>2. s \in Seq(Nodes) /\ s \in Onward(d, n)
  <2>1. Kind[d][n] \notin {"end", "absent", "split"}
    OBVIOUS
  <2> QED
    BY <1>1, <2>1, NextTargetType, NextIsOnward
<1>3. Weight(V, s) \in Nat /\ V[n] \in Nat
  BY <1>2, WeightConcat DEF Weights
<1>4. Weight(V, s) <= V[n]
  <2>1. Needed(d, n) = 1 /\ Kind[d][n] \notin {"auto", "subflow"}
    BY DEF Needed
  <2>2. Weight(V, s) + 0 <= 1 * V[n]
    BY <1>2, <2>1 DEF Shares
  <2> QED
    BY <1>3, <2>2
<1>5. PICK w : w = Walk(s, Take(b, n))
  OBVIOUS
<1>6. w.runs = <<>> /\ w.active = Take(b, n) /\ w.work = s
  BY <1>5 DEF Walk
<1>7. Weigh(V, b) = Weigh(V, w.active) + V[n] /\ Weigh(V, b) \in Nat /\ Weigh(V, w.active) \in Nat
  BY <1>6, WeighMoves
<1>8. CountIn(w.runs, m) = 0 /\ Weight(V, w.work) = Weight(V, s)
  BY <1>6, CountNone
<1>9. PICK y : y = u * a
  OBVIOUS
<1>10. y \in Nat /\ u * (a + 0) = y
  BY <1>9
<1>11. y + (Weigh(V, w.active) + Weight(V, s)) < 2 * u
  BY <1>3, <1>4, <1>7, <1>9, <1>10
<1>12. Held(m, V, u, a, w)
  BY <1>8, <1>10, <1>11 DEF Held, Load
<1> QED
  BY <1>1, <1>5, <1>12

LEMMA ShareNext ==
    ASSUME OneAtATime, SameKinds, IsFiniteSet(Nodes),
           NEW m \in Nodes, NEW V \in Weights, NEW u \in Nat, Shares(m, V, u)
    PROVE  TypeInv /\ TokenInv /\ ShareOf(m, V, u) /\ [Next]_vars => ShareOf(m, V, u)'
<1> SUFFICES ASSUME TypeInv, TokenInv, ShareOf(m, V, u), [Next]_vars PROVE ShareOf(m, V, u)'
  OBVIOUS
<1>0. TypeOK
  BY DEF TypeInv
<1>t. /\ active \in [Instances -> Bag] /\ calls \in [Instances -> Bag] /\ def \in Definitions
      /\ tasks \in Seq(RowType(TaskStatus)) /\ exts \in Seq(RowType(ExtStatus))
      /\ tx \in [Clients -> TxType] /\ status \in [Instances -> {"none", "running", "completed", "rejected"}]
  BY <1>0 DEF TypeOK, TaskStatus, ExtStatus
<1>n. \A i \in Instances : calls[i][m] \in Nat /\ active[i] \in Bag
  BY <1>t DEF Bag
<1>i. NoTx.op = "idle" /\ "idle" \notin Walking
  BY DEF NoTx, Walking
<1>s. /\ \A i \in Instances : u * calls[i][m] + Weigh(V, active[i]) < 2 * u
      /\ \A i \in Instances : status[i] = "none" => calls[i][m] = 0
      /\ \A c \in Clients : tx[c].op \in Walking => Held(m, V, u, calls[tx[c].inst][m], tx[c].walk)
  BY DEF ShareOf
<1>b. /\ AtKind(tasks, "stop") /\ AtKind(exts, "external")
      /\ \A i \in Instances : Accounted(active[i], i, tasks, exts)
      /\ \A c \in Clients : FreshTx(tx[c])
  BY DEF TokenInv, TablesBut
<1>o. ASSUME NEW c \in Clients, NEW t, tx' = [tx EXCEPT ![c] = t],
             t.op \in Walking => Held(m, V, u, calls[t.inst][m], t.walk),
             UNCHANGED <<active, calls>>, \A i \in Instances : status'[i] = "none" => status[i] = "none"
      PROVE  ShareOf(m, V, u)'
  <2>1. ASSUME NEW e \in Clients PROVE tx'[e] = t
    BY <1>o, <1>t DEF OneAtATime
  <2> QED
    BY <1>o, <1>s, <2>1 DEF ShareOf, Held
<1>e. ASSUME NEW c \in Clients, tx[c].op \in Walking, Settle(tx[c].inst, tx[c].walk), End(c)
      PROVE  ShareOf(m, V, u)'
  <2>1. PICK i : i = tx[c].inst
    OBVIOUS
  <2>2. PICK w : w = tx[c].walk
    OBVIOUS
  <2>3. i \in Instances /\ w \in WalkType
    BY <1>t, <2>1, <2>2, TxFields
  <2>4. CountIn(w.runs, m) \in Nat /\ Load(V, w) = Weigh(V, w.active) + Weight(V, w.work)
        /\ Weigh(V, w.active) \in Nat /\ Weight(V, w.work) \in Nat
    <3>1. w.runs \in Seq(Nodes)
      BY <2>3 DEF WalkType
    <3> QED
      BY <2>3, <3>1, CountConcat, LoadType DEF Load
  <2>5. /\ active' = [active EXCEPT ![i] = w.active]
        /\ calls'[i][m] = calls[i][m] + CountIn(w.runs, m)
        /\ \A j \in Instances : j # i => calls'[j][m] = calls[j][m] /\ status'[j] = status[j]
        /\ status'[i] # "none"
    BY <1>e, <1>t, <2>1, <2>2, <2>3 DEF Settle, ExecuteCalls
  <2>6. PICK y : y = u * (calls[i][m] + CountIn(w.runs, m))
    OBVIOUS
  <2>7. y \in Nat
    BY <1>n, <2>3, <2>4, <2>6
  <2>8. y + (Weigh(V, w.active) + Weight(V, w.work)) < 2 * u
    BY <1>e, <1>s, <2>1, <2>2, <2>4, <2>6 DEF Held
  <2>9. y + Weigh(V, w.active) < 2 * u
    BY <2>4, <2>7, <2>8
  <2>10. ASSUME NEW j \in Instances PROVE u * calls'[j][m] + Weigh(V, active'[j]) < 2 * u
    <3>1. CASE j = i
      <4>1. active'[j] = w.active /\ u * calls'[j][m] = y
        BY <1>t, <2>3, <2>5, <2>6, <3>1
      <4> QED
        BY <2>9, <4>1
    <3>2. CASE j # i
      <4>1. active'[j] = active[j] /\ calls'[j][m] = calls[j][m]
        BY <1>t, <2>5, <3>2
      <4> QED
        BY <1>s, <4>1
    <3> QED
      BY <3>1, <3>2
  <2>11. ASSUME NEW j \in Instances, status'[j] = "none" PROVE calls'[j][m] = 0
    <3>1. j # i
      BY <2>5, <2>11
    <3> QED
      BY <1>s, <2>5, <2>11, <3>1
  <2>12. ASSUME NEW d \in Clients PROVE tx'[d].op \notin Walking
    <3>1. tx'[d] = NoTx
      BY <1>e, <1>t DEF OneAtATime, End
    <3> QED
      BY <1>i, <3>1
  <2> QED
    BY <2>10, <2>11, <2>12 DEF ShareOf
<1>1. ASSUME NEW c \in Clients, NEW i \in Instances, NEW k, NEW h, CreateBegin(c, i, k, h) PROVE ShareOf(m, V, u)'
  <2> DEFINE w == Walk(NextTarget(def, Start, h), EmptyBag)
             t == [NoTx EXCEPT !.op = "create", !.inst = i, !.key = k, !.def = def, !.holds = h, !.walk = w]
  <2>1. tx' = [tx EXCEPT ![c] = t] /\ UNCHANGED <<status, active, calls>> /\ status[i] = "none"
    BY <1>1 DEF CreateBegin, Begin, rows
  <2>2. Held(m, V, u, 0, w)
    BY <1>t, HeldCreate
  <2> HIDE DEF w
  <2>3. t.op = "create" /\ t.inst = i /\ t.walk = w
    BY NoTxType DEF TxType
  <2> HIDE DEF t
  <2>4. Held(m, V, u, calls[t.inst][m], t.walk)
    BY <1>s, <2>1, <2>2, <2>3
  <2> QED
    BY <1>o, <2>1, <2>4
<1>2. ASSUME NEW c \in Clients, NEW j \in DOMAIN tasks, NEW k, NEW approve \in BOOLEAN, ActBegin(c, j, k, approve)
      PROVE  ShareOf(m, V, u)'
  <2> DEFINE i == tasks[j].inst
             n == tasks[j].node
             w == Walk(NextTarget(def, n, holds[i]), Take(active[i], n))
             t == [NoTx EXCEPT !.op = IF approve THEN "approve" ELSE "reject",
                               !.inst = i, !.ref = j, !.key = k, !.def = def, !.holds = holds[i],
                               !.walk = IF approve THEN w ELSE @]
  <2>0. i \in Instances /\ n \in Nodes
    <3>1. tasks[j] \in RowType(TaskStatus)
      BY <1>t
    <3> QED
      BY <3>1 DEF RowType
  <2>1. tx' = [tx EXCEPT ![c] = t] /\ UNCHANGED <<status, active, calls>> /\ tasks[j].status = "open"
    BY <1>2 DEF ActBegin, Begin, rows
  <2>2. active[i][n] # 0 /\ K(n) = "stop"
    BY <1>b, <1>t, <2>0, <2>1, TaskHasToken
  <2>3. Kind[def][n] \in {"stop", "external"}
    BY <1>t, <2>0, <2>2 DEF SameKinds
  <2>4. Held(m, V, u, calls[i][m], w)
    <3>1. calls[i][m] \in Nat /\ active[i] \in Bag /\ u * calls[i][m] + Weigh(V, active[i]) < 2 * u
      BY <1>n, <1>s, <2>0
    <3> HIDE DEF i, n
    <3> QED
      BY <1>t, <2>0, <2>2, <2>3, <3>1, HeldBegin
  <2> HIDE DEF w
  <2>5. t.inst = i /\ (t.op \in Walking => t.walk = w)
    <3> HIDE DEF i, n
    <3>1. t.op = (IF approve THEN "approve" ELSE "reject") /\ t.inst = i /\ t.walk = IF approve THEN w ELSE NoTx.walk
      BY NoTxType DEF TxType
    <3> QED
      BY <3>1 DEF Walking
  <2> HIDE DEF t, i
  <2>6. t.op \in Walking => Held(m, V, u, calls[t.inst][m], t.walk)
    BY <2>4, <2>5
  <2> QED
    BY <1>o, <2>1, <2>6
<1>3. ASSUME NEW c \in Clients, NEW e \in DOMAIN exts, ExtBegin(c, e) PROVE ShareOf(m, V, u)'
  <2> DEFINE t == [NoTx EXCEPT !.op = "extRead", !.inst = exts[e].inst, !.ref = e]
  <2>1. tx' = [tx EXCEPT ![c] = t] /\ UNCHANGED <<status, active, calls>>
    BY <1>3 DEF ExtBegin, Begin, rows
  <2>2. t.op \notin Walking
    BY NoTxType DEF TxType, Walking
  <2> HIDE DEF t
  <2> QED
    BY <1>o, <2>1, <2>2
<1>4. ASSUME NEW c \in Clients, ExtLock(c) PROVE ShareOf(m, V, u)'
  <2> DEFINE t == [tx[c] EXCEPT !.op = "extCmd", !.cmd = NewestCommand(exts[tx[c].ref].node)]
  <2>1. tx' = [tx EXCEPT ![c] = t] /\ UNCHANGED <<status, active, calls>>
    BY <1>0, <1>4 DEF ExtLock, TypeOK, TxType, rows
  <2>2. t.op \notin Walking
    BY <1>t DEF TxType, Walking
  <2> HIDE DEF t
  <2> QED
    BY <1>o, <2>1, <2>2
<1>5. ASSUME NEW c \in Clients, ExtReadInstance(c) PROVE ShareOf(m, V, u)'
  <2> DEFINE i == tx[c].inst
             n == exts[tx[c].ref].node
             w == Walk(NextTarget(def, n, holds[i]), Take(active[i], n))
             t == [tx[c] EXCEPT !.op = "ext", !.def = def, !.holds = holds[i], !.walk = w]
  <2>1. tx' = [tx EXCEPT ![c] = t] /\ UNCHANGED <<status, active, calls>> /\ tx[c].op = "extCmd"
    BY <1>0, <1>5 DEF ExtReadInstance, TypeOK, TxType, rows
  <2>2. tx[c].ref \in DOMAIN exts /\ i \in Instances
    BY <1>t, <2>1, TxFields DEF TypeInv, RefOK
  <2>3. exts[tx[c].ref].status = "pending" /\ exts[tx[c].ref].inst = i
    BY <1>b, <2>1 DEF FreshTx
  <2>4. active[i][n] # 0 /\ K(n) = "external" /\ n \in Nodes
    BY <1>b, <1>t, <2>2, <2>3, ExtHasToken
  <2>5. Kind[def][n] \in {"stop", "external"}
    BY <1>t, <2>4 DEF SameKinds
  <2>6. Held(m, V, u, calls[i][m], w)
    <3>1. calls[i][m] \in Nat /\ active[i] \in Bag /\ u * calls[i][m] + Weigh(V, active[i]) < 2 * u
      BY <1>n, <1>s, <2>2
    <3> HIDE DEF i, n
    <3> QED
      BY <1>t, <2>2, <2>4, <2>5, <3>1, HeldBegin
  <2> HIDE DEF w
  <2>7. t.inst = i /\ t.walk = w
    BY <1>t DEF TxType
  <2> HIDE DEF t, i
  <2>8. Held(m, V, u, calls[t.inst][m], t.walk)
    BY <2>6, <2>7
  <2> QED
    BY <1>o, <2>1, <2>8
<1>6. ASSUME NEW c \in Clients, AdvanceMulti(c) PROVE ShareOf(m, V, u)'
  <2> DEFINE w == WalkStep(tx[c].def, tx[c].holds, tx[c].walk)
             t == [tx[c] EXCEPT !.walk = w]
  <2>0. tx[c].walk \in WalkType /\ tx[c].walk.work # <<>> /\ tx[c].def \in Definitions /\ tx[c].inst \in Instances
    <3>1. tx[c].walk \in WalkType /\ tx[c].def \in Definitions /\ tx[c].inst \in Instances
      BY <1>t, TxFields
    <3> QED
      BY <1>6, <3>1 DEF AdvanceMulti, WalkDone
  <2>1. /\ tx' = [tx EXCEPT ![c] = t] /\ UNCHANGED <<status, active, calls>>
        /\ tx[c].op \in Walking
    BY <1>0, <1>6 DEF AdvanceMulti, TypeOK, TxType, rows, Walking
  <2>2. Held(m, V, u, calls[tx[c].inst][m], w)
    BY <1>n, <1>s, <2>0, <2>1, HeldStep
  <2> HIDE DEF w
  <2>3. t.inst = tx[c].inst /\ t.walk = w
    BY <1>t DEF TxType
  <2> HIDE DEF t
  <2>4. Held(m, V, u, calls[t.inst][m], t.walk)
    BY <2>2, <2>3
  <2> QED
    BY <1>o, <2>1, <2>4
<1>7. ASSUME NEW c \in Clients, CreateCommit(c) PROVE ShareOf(m, V, u)'
  BY <1>7, <1>e DEF CreateCommit, Walking
<1>8. ASSUME NEW c \in Clients, ApproveCommit(c) PROVE ShareOf(m, V, u)'
  BY <1>8, <1>e DEF ApproveCommit, Walking
<1>9. ASSUME NEW c \in Clients, RejectCommit(c) PROVE ShareOf(m, V, u)'
  <2>1. tx' = [tx EXCEPT ![c] = NoTx] /\ UNCHANGED <<active, calls>>
    BY <1>9 DEF RejectCommit, End
  <2>2. \A i \in Instances : status'[i] = "none" => status[i] = "none"
    BY <1>9, <1>t DEF RejectCommit
  <2> QED
    BY <1>i, <1>o, <2>1, <2>2
<1>10. ASSUME NEW c \in Clients, ExtCommit(c) PROVE ShareOf(m, V, u)'
  BY <1>10, <1>e DEF ExtCommit, Walking
<1>11. ASSUME NEW c \in Clients, PublishCommit(c) \/ Rollback(c) PROVE ShareOf(m, V, u)'
  <2>1. tx' = [tx EXCEPT ![c] = NoTx] /\ UNCHANGED <<status, active, calls>>
    BY <1>11 DEF PublishCommit, Rollback, End, rows
  <2> QED
    BY <1>i, <1>o, <2>1
<1>12. ASSUME NEW c \in Clients, NEW d, PublishBegin(c, d) PROVE ShareOf(m, V, u)'
  <2> DEFINE t == [NoTx EXCEPT !.op = "publish", !.def = d, !.ref = LatestVersion.no + 1]
  <2>1. tx' = [tx EXCEPT ![c] = t] /\ UNCHANGED <<status, active, calls>>
    BY <1>12 DEF PublishBegin, Begin, rows
  <2>2. t.op \notin Walking
    BY NoTxType DEF TxType, Walking
  <2> HIDE DEF t
  <2> QED
    BY <1>o, <2>1, <2>2
<1>13. ASSUME Restart PROVE ShareOf(m, V, u)'
  <2>1. /\ UNCHANGED <<active, calls>>
        /\ \A i \in Instances : status'[i] = "none" => status[i] = "none"
        /\ \A c \in Clients : tx'[c] = NoTx
    BY <1>13 DEF Restart
  <2> QED
    BY <1>i, <1>s, <2>1 DEF ShareOf
<1>14. ASSUME UNCHANGED vars PROVE ShareOf(m, V, u)'
  BY <1>14, <1>s DEF vars, rows, ShareOf, Held
<1>15. ASSUME NEW c \in Clients, Handler(c) PROVE ShareOf(m, V, u)'
  BY <1>15, <1>1, <1>2, <1>3, <1>4, <1>5, <1>6, <1>7, <1>8, <1>9, <1>10, <1>11, <1>12 DEF Handler
<1> QED
  BY <1>13, <1>14, <1>15 DEF Next

LEMMA ShareInit ==
    ASSUME IsFiniteSet(Nodes), NEW m \in Nodes, NEW V \in Weights, NEW u \in Nat \ {0}, Shares(m, V, u), Init
    PROVE  ShareOf(m, V, u)
<1>1. EmptyBag \in Bag /\ EmptyBag[m] = 0 /\ SeedNode \in Nodes /\ Weigh(V, EmptyBag) = 0
  BY NoTxType, ConstantsAssumption, WeighNothing DEF EmptyBag
<1>2. Weigh(V, Put(EmptyBag, SeedNode)) = 0 + V[SeedNode] /\ V[SeedNode] \in Nat
  BY <1>1, WeighMoves DEF Weights
<1>3. \A i \in Instances : calls[i][m] = 0
  BY <1>1 DEF Init
<1>4. \A i \in Instances : Weigh(V, active[i]) < 2 * u /\ Weigh(V, active[i]) \in Nat
  <2>1. V[SeedNode] < 2 * u /\ 0 < 2 * u
    BY DEF Shares
  <2>2. \A i \in Instances : active[i] = EmptyBag \/ active[i] = Put(EmptyBag, SeedNode)
    BY DEF Init
  <2> QED
    BY <1>1, <1>2, <2>1, <2>2
<1>5. \A c \in Clients : tx[c].op \notin Walking
  BY DEF Init, NoTx, Walking
<1>6. u * 0 = 0
  OBVIOUS
<1> QED
  BY <1>3, <1>4, <1>5, <1>6 DEF ShareOf

(* When handlers do not overlap, publishing never changes what a node is,  *)
(* and no definition lets a request cross an automatic step again, no      *)
(* service call and no child flow runs twice for one instance: whatever is *)
(* approved, rejected, retried, rolled back or restarted.                  *)
THEOREM SerialRunsOnce ==
    ASSUME OneAtATime, SameKinds, IsFiniteSet(Nodes), CrossedOnce
    PROVE  Spec => []RunsOnce
<1>1. Init => ShareInv
  BY ShareInit DEF ShareInv, CrossedOnce, Weights
<1>2. TypeInv /\ TokenInv /\ ShareInv /\ [Next]_vars => ShareInv'
  <2> SUFFICES ASSUME TypeInv, TokenInv, ShareInv, [Next]_vars, NEW m \in Nodes
               PROVE  \E V \in [Nodes -> Nat], u \in Nat \ {0} : Shares(m, V, u) /\ ShareOf(m, V, u)'
    BY DEF ShareInv
  <2>1. PICK V \in [Nodes -> Nat], u \in Nat \ {0} : Shares(m, V, u) /\ ShareOf(m, V, u)
    BY DEF ShareInv
  <2>2. ShareOf(m, V, u)'
    BY <2>1, ShareNext DEF Weights
  <2> QED
    BY <2>1, <2>2
<1>3. TypeInv /\ ShareInv => RunsOnce
  <2> SUFFICES ASSUME TypeInv, ShareInv, NEW i \in Instances, NEW m \in Nodes PROVE calls[i][m] <= 1
    BY DEF RunsOnce
  <2>1. PICK V \in [Nodes -> Nat], u \in Nat \ {0} : ShareOf(m, V, u)
    BY DEF ShareInv
  <2>2. calls[i][m] \in Nat /\ active[i] \in Bag
    BY DEF TypeInv, TypeOK, Bag
  <2>3. Weigh(V, active[i]) \in Nat
    BY <2>1, <2>2, WeighMoves, ConstantsAssumption DEF Weights
  <2>4. u * calls[i][m] + Weigh(V, active[i]) < 2 * u
    BY <2>1 DEF ShareOf
  <2>5. PICK a : a = calls[i][m]
    OBVIOUS
  <2>6. u * a \in Nat /\ u * a = a * u
    BY <2>2, <2>5
  <2>7. a * u < 2 * u
    BY <2>3, <2>4, <2>5, <2>6
  <2>8. ASSUME a >= 2 PROVE FALSE
    <3>1. 2 * u <= a * u /\ 2 * u \in Nat /\ a * u \in Nat
      BY <2>2, <2>5, <2>8, TimesMore
    <3> QED
      BY <2>7, <3>1
  <2> QED
    BY <2>2, <2>5, <2>8
<1> QED
  BY <1>1, <1>2, <1>3, TypeInit, TypeNext, TokenInit, TokenNext, PTL DEF Spec

-----------------------------------------------------------------------------
(* Joins get what they wait for *)

Divides(q, x) == \E z \in Int : x = z * q

LEMMA DividesZero ==
    ASSUME NEW q \in Nat \ {0}, NEW x \in Nat, x % q = 0
    PROVE  Divides(q, x)
<1>1. PICK z : z = x \div q
  OBVIOUS
<1>2. z \in Int /\ x = z * q + (x % q)
  BY <1>1
<1>3. z * q \in Int
  BY <1>2
<1>4. x = z * q
  BY <1>2, <1>3
<1> QED
  BY <1>2, <1>4 DEF Divides

(* What is congruent may be exchanged. *)
LEMMA DividesSwap ==
    ASSUME NEW q \in Nat \ {0}, NEW a \in Nat, NEW b \in Nat, a % q = b % q,
           NEW x \in Nat, NEW y \in Nat, x + b = y + a, Divides(q, y)
    PROVE  Divides(q, x)
<1>1. PICK z \in Int : y = z * q
  BY DEF Divides
<1>2. PICK s : s = a \div q
  OBVIOUS
<1>3. PICK t : t = b \div q
  OBVIOUS
<1>4. s \in Int /\ t \in Int /\ a = s * q + (a % q) /\ b = t * q + (b % q)
  BY <1>2, <1>3
<1>5. a % q \in Int /\ b % q \in Int
  OBVIOUS
<1>6. PICK e : e = a % q
  OBVIOUS
<1>7. a = s * q + e /\ b = t * q + e /\ e \in Int
  BY <1>4, <1>5, <1>6
<1>8. PICK zq, sq, tq : zq = z * q /\ sq = s * q /\ tq = t * q
  OBVIOUS
<1>9. zq \in Int /\ sq \in Int /\ tq \in Int
  BY <1>1, <1>4, <1>8
<1>10. x = zq + sq - tq
  <2>1. a = sq + e /\ b = tq + e /\ y = zq
    BY <1>1, <1>7, <1>8
  <2> QED
    BY <1>7, <1>9, <2>1
<1>11. PICK g : g = z + s - t
  OBVIOUS
<1>12. g \in Int /\ g + t = z + s
  BY <1>1, <1>4, <1>11
<1>13. g * q + t * q = z * q + s * q
  <2>1. (g + t) * q = g * q + t * q /\ (z + s) * q = z * q + s * q
    BY <1>1, <1>4, <1>12
  <2> QED
    BY <1>12, <2>1
<1>14. g * q + tq = zq + sq /\ g * q \in Int
  BY <1>8, <1>12, <1>13
<1>15. x = g * q
  BY <1>9, <1>10, <1>14
<1> QED
  BY <1>12, <1>15 DEF Divides

(* Less than q and not nothing. *)
LEMMA DividesLess ==
    ASSUME NEW q \in Nat \ {0}, NEW x \in Nat, x < q, Divides(q, x)
    PROVE  x = 0
<1>1. PICK z \in Int : x = z * q
  BY DEF Divides
<1>2. ASSUME z >= 1 PROVE FALSE
  <2>1. 1 * q <= z * q
    <3>1. z \in Nat /\ 1 \in Nat /\ 1 <= z
      BY <1>2
    <3> QED
      BY <3>1, TimesMore
  <2> QED
    BY <1>1, <2>1
<1>3. ASSUME z <= -1 PROVE FALSE
  <2>1. PICK y : y = -z
    OBVIOUS
  <2>2. y \in Nat /\ 1 <= y /\ z = -y
    BY <1>3, <2>1
  <2>3. 1 * q <= y * q /\ y * q \in Nat
    BY <2>2, TimesMore
  <2>4. z * q = -(y * q)
    BY <2>2
  <2> QED
    BY <1>1, <2>3, <2>4
<1>4. z = 0
  BY <1>1, <1>2, <1>3
<1> QED
  BY <1>1, <1>4

Needs(j) == JoinNeeds(SeedDefinition, j)

(* Of an instance nobody rejected, a full number of tokens is on its way   *)
(* to the join j.                                                          *)
FeedOf(j, V) ==
    /\ \A i \in Instances : Clean(tasks, i) => Divides(Needs(j), Weigh(V, active[i]))
    /\ \A c \in Clients : tx[c].op \in Walking /\ Clean(tasks, tx[c].inst)
                             => Divides(Needs(j), Load(V, tx[c].walk))

FeedInv(r) ==
    \A j \in Nodes : K(j) = "join" =>
        \E V \in [Nodes -> Nat] : Feeds(SeedDefinition, j, V, r) /\ FeedOf(j, V)

(* The limit of the loop is not reached before the work is done. *)
LengthInv(L) ==
    \A c \in Clients : tx[c].op \in Walking => tx[c].walk.steps + Weight(L, tx[c].walk.work) <= GuardLimit

LEMMA NeedsType ==
    ASSUME NEW j \in Nodes
    PROVE  Needs(j) \in Nat \ {0} /\ (Incoming(SeedDefinition, j) # 0 => Needs(j) = Incoming(SeedDefinition, j))
BY GraphAssumption, ConstantsAssumption DEF Needs, JoinNeeds

(* A turn of the loop keeps the number. *)
LEMMA FeedStep ==
    ASSUME IsFiniteSet(Nodes), NEW r, NEW j \in Nodes, NEW V \in Weights, Feeds(SeedDefinition, j, V, r),
           NEW h, NEW w \in WalkType, w.work # <<>>, JoinOK(w.active), Divides(Needs(j), Load(V, w))
    PROVE  Divides(Needs(j), Load(V, WalkStep(SeedDefinition, h, w)))
<1>d. PICK d : d = SeedDefinition
  OBVIOUS
<1>0. d \in Definitions
  BY <1>d, ConstantsAssumption
<1>1. PICK v : v = WalkStep(d, h, w)
  OBVIOUS
<1>2. PICK n : n = Head(w.work)
  OBVIOUS
<1>3. n \in Nodes /\ (Leaves(w, v, n) \/ \E s \in Onward(d, n), c \in Nat : Crosses(d, w, v, n, c, s))
  BY <1>0, <1>1, <1>2, StepMoves
<1>4. v \in WalkType
  BY <1>0, <1>1, WalkStepType
<1>5. Load(V, w) \in Nat /\ Load(V, v) \in Nat
  BY <1>4, LoadType
<1>6. CASE Leaves(w, v, n)
  <2>1. Load(V, v) = Load(V, w)
    BY <1>6 DEF Leaves
  <2> QED
    BY <1>1, <1>d, <2>1
<1>7. ASSUME NEW s \in Onward(d, n), NEW c \in Nat, Crosses(d, w, v, n, c, s) PROVE Divides(Needs(j), Load(V, v))
  <2>1. s \in Seq(Nodes) /\ Weight(V, s) \in Nat
    <3>1. s \in Seq(Nodes)
      BY <1>0, <1>3, OnwardType
    <3> QED
      BY <3>1, WeightConcat
  <2>2. c = Needed(d, n)
    <3>1. CASE Kind[d][n] = "join"
      <4>1. c = w.active[n] + 1 /\ c >= JoinNeeds(d, n)
        BY <1>7, <3>1 DEF Crosses, Needed
      <4>2. w.active[n] = 0 \/ w.active[n] < Incoming(d, n)
        BY <1>3, <1>d, <3>1 DEF JoinOK
      <4>3. w.active[n] \in Nat /\ Incoming(d, n) \in Nat
        BY <1>0, <1>3, GraphAssumption DEF WalkType, Bag
      <4>4. JoinNeeds(d, n) = IF Incoming(d, n) = 0 THEN 1 ELSE Incoming(d, n)
        BY DEF JoinNeeds
      <4>5. c = JoinNeeds(d, n)
        BY <4>1, <4>2, <4>3, <4>4
      <4> QED
        BY <3>1, <4>5 DEF Needed
    <3>2. CASE Kind[d][n] # "join"
      BY <1>7, <3>2 DEF Crosses, Needed
    <3> QED
      BY <3>1, <3>2
  <2>3. V[n] \in Nat
    BY <1>3 DEF Weights
  <2>4. PICK z : z = c * V[n]
    OBVIOUS
  <2>5. z \in Nat
    BY <2>3, <2>4
  <2>6. Load(V, v) + z = Load(V, w) + Weight(V, s)
    BY <1>7, <2>4 DEF Crosses
  <2>7. Weight(V, s) % Needs(j) = z % Needs(j)
    BY <1>3, <1>d, <2>2, <2>4 DEF Feeds, Needs
  <2> QED
    BY <1>5, <2>1, <2>5, <2>6, <2>7, NeedsType, DividesSwap
<1> QED
  BY <1>1, <1>3, <1>6, <1>7, <1>d

LEMMA FeedCreate ==
    ASSUME IsFiniteSet(Nodes), NEW r, NEW j \in Nodes, NEW V \in Weights, Feeds(SeedDefinition, j, V, r), NEW h
    PROVE  Divides(Needs(j), Load(V, Walk(NextTarget(SeedDefinition, Start, h), EmptyBag)))
<1>d. PICK d : d = SeedDefinition
  OBVIOUS
<1>1. PICK s : s = NextTarget(d, Start, h)
  OBVIOUS
<1>2. Start \in Nodes /\ d \in Definitions
  BY <1>d, ConstantsAssumption
<1>3. s \in Seq(Nodes) /\ s \in Entries(d)
  BY <1>1, <1>2, NextTargetType, NextIsOnward DEF Entries
<1>4. Weight(V, s) % Needs(j) = 0 /\ Weight(V, s) \in Nat
  BY <1>3, <1>d, WeightConcat DEF Feeds, Needs
<1>5. PICK w : w = Walk(s, EmptyBag)
  OBVIOUS
<1>6. w.active = EmptyBag /\ w.work = s
  BY <1>5 DEF Walk
<1>7. Load(V, w) = Weight(V, s)
  BY <1>4, <1>6, WeighNothing DEF Load
<1> QED
  BY <1>1, <1>4, <1>5, <1>7, <1>d, NeedsType, DividesZero

LEMMA FeedBegin ==
    ASSUME IsFiniteSet(Nodes), NEW r, NEW j \in Nodes, NEW V \in Weights, Feeds(SeedDefinition, j, V, r), NEW h,
           NEW n \in Nodes, K(n) \in {"stop", "external"}, NEW b \in Bag, b[n] # 0, Divides(Needs(j), Weigh(V, b))
    PROVE  Divides(Needs(j), Load(V, Walk(NextTarget(SeedDefinition, n, h), Take(b, n))))
<1>d. PICK d : d = SeedDefinition
  OBVIOUS
<1>0. d \in Definitions
  BY <1>d, ConstantsAssumption
<1>1. PICK s : s = NextTarget(d, n, h)
  OBVIOUS
<1>2. s \in Seq(Nodes) /\ s \in Onward(d, n)
  <2>1. Kind[d][n] \notin {"end", "absent", "split"}
    BY <1>d DEF K
  <2> QED
    BY <1>0, <1>1, <2>1, NextTargetType, NextIsOnward
<1>3. Weight(V, s) \in Nat /\ V[n] \in Nat
  BY <1>2, WeightConcat DEF Weights
<1>4. Weight(V, s) % Needs(j) = V[n] % Needs(j)
  <2>1. Needed(d, n) = 1 /\ 1 * V[n] = V[n]
    BY <1>3, <1>d DEF Needed, K
  <2>2. Weight(V, s) % Needs(j) = (Needed(d, n) * V[n]) % Needs(j)
    BY <1>2, <1>d DEF Feeds, Needs
  <2> QED
    BY <2>1, <2>2
<1>5. PICK w : w = Walk(s, Take(b, n))
  OBVIOUS
<1>6. w.active = Take(b, n) /\ w.work = s
  BY <1>5 DEF Walk
<1>7. Weigh(V, b) = Weigh(V, w.active) + V[n] /\ Weigh(V, b) \in Nat /\ Weigh(V, w.active) \in Nat
  BY <1>6, WeighMoves
<1>8. Load(V, w) + V[n] = Weigh(V, b) + Weight(V, s) /\ Load(V, w) \in Nat
  BY <1>3, <1>6, <1>7 DEF Load
<1>9. Divides(Needs(j), Load(V, w))
  BY <1>3, <1>4, <1>7, <1>8, NeedsType, DividesSwap
<1> QED
  BY <1>1, <1>5, <1>9, <1>d

(* The end of a walk is the end of its work. *)
LEMMA LengthStep ==
    ASSUME IsFiniteSet(Nodes), NEW L \in Weights, Lengths(SeedDefinition, L), NEW h,
           NEW w \in WalkType, w.work # <<>>, w.steps + Weight(L, w.work) <= GuardLimit
    PROVE  LET v == WalkStep(SeedDefinition, h, w) IN v.steps + Weight(L, v.work) <= GuardLimit
<1>d. PICK d : d = SeedDefinition
  OBVIOUS
<1>0. d \in Definitions /\ GuardLimit \in Nat
  BY <1>d, ConstantsAssumption
<1>1. PICK v : v = WalkStep(d, h, w)
  OBVIOUS
<1>2. PICK n : n = Head(w.work)
  OBVIOUS
<1>3. /\ n \in Nodes /\ v.steps = w.steps + 1
      /\ (Leaves(w, v, n) \/ \E s \in Onward(d, n), c \in Nat : Crosses(d, w, v, n, c, s))
  BY <1>0, <1>1, <1>2, StepMoves
<1>4. v \in WalkType /\ w.steps \in Nat
  BY <1>0, <1>1, WalkStepType DEF WalkType
<1>5. Weight(L, w.work) \in Nat /\ Weight(L, v.work) \in Nat /\ L[n] \in Nat /\ L[n] >= 1
  BY <1>3, <1>4, LoadType DEF Weights, Lengths
<1>6. CASE Leaves(w, v, n)
  <2>1. Weight(L, v.work) + L[n] = Weight(L, w.work)
    BY <1>6 DEF Leaves
  <2>2. w.steps + 1 + Weight(L, v.work) <= GuardLimit
    BY <1>0, <1>4, <1>5, <2>1
  <2> QED
    BY <1>1, <1>3, <1>d, <2>2
<1>7. ASSUME NEW s \in Onward(d, n), NEW c \in Nat, Crosses(d, w, v, n, c, s)
      PROVE  w.steps + 1 + Weight(L, v.work) <= GuardLimit
  <2>1. s \in Seq(Nodes)
    BY <1>0, <1>3, OnwardType
  <2>2. Weight(L, s) \in Nat
    BY <2>1, WeightConcat
  <2>3. Weight(L, v.work) + L[n] = Weight(L, w.work) + Weight(L, s) /\ Kind[d][n] \notin {"stop", "external"}
    BY <1>7 DEF Crosses
  <2>4. Weight(L, s) + 1 <= L[n]
    BY <1>3, <1>d, <2>3 DEF Lengths
  <2> QED
    BY <1>0, <1>4, <1>5, <2>2, <2>3, <2>4
<1> QED
  BY <1>1, <1>3, <1>6, <1>7, <1>d

LEMMA LengthBegins ==
    ASSUME IsFiniteSet(Nodes), NEW L \in Weights, NEW s, NEW b, Weight(L, s) <= GuardLimit, Weight(L, s) \in Nat
    PROVE  LET w == Walk(s, b) IN w.steps + Weight(L, w.work) <= GuardLimit
<1>1. PICK w : w = Walk(s, b)
  OBVIOUS
<1>2. w.steps = 0 /\ w.work = s
  BY <1>1 DEF Walk
<1>3. w.steps + Weight(L, w.work) <= GuardLimit
  BY <1>2
<1> QED
  BY <1>1, <1>3

LEMMA LengthOnward ==
    ASSUME IsFiniteSet(Nodes), NEW L \in Weights, Lengths(SeedDefinition, L), NEW h
    PROVE  /\ Weight(L, NextTarget(SeedDefinition, Start, h)) <= GuardLimit
           /\ Weight(L, NextTarget(SeedDefinition, Start, h)) \in Nat
           /\ \A n \in Nodes : K(n) \in {"stop", "external"} =>
                 /\ Weight(L, NextTarget(SeedDefinition, n, h)) <= GuardLimit
                 /\ Weight(L, NextTarget(SeedDefinition, n, h)) \in Nat
<1>d. PICK d : d = SeedDefinition
  OBVIOUS
<1>0. d \in Definitions /\ Start \in Nodes
  BY <1>d, ConstantsAssumption
<1>1. \A n \in Nodes : NextTarget(d, n, h) \in Seq(Nodes)
  BY <1>0, NextTargetType
<1>2. \A n \in Nodes : Weight(L, NextTarget(d, n, h)) \in Nat
  BY <1>1, WeightConcat
<1>3. NextTarget(d, Start, h) \in Entries(d)
  BY <1>0, NextIsOnward DEF Entries
<1>4. ASSUME NEW n \in Nodes, K(n) \in {"stop", "external"} PROVE NextTarget(d, n, h) \in Onward(d, n)
  <2>1. Kind[d][n] \notin {"end", "absent", "split"}
    BY <1>4, <1>d DEF K
  <2> QED
    BY <1>0, <2>1, NextIsOnward
<1> QED
  BY <1>0, <1>2, <1>3, <1>4, <1>d DEF Lengths

(* No step makes a rejected instance a clean one. *)
LEMMA CleanKept ==
    ASSUME TypeInv, TokenInv, [Next]_vars
    PROVE  \A j \in Instances : Clean(tasks', j) => Clean(tasks, j)
<1>t. /\ tasks \in Seq(RowType(TaskStatus)) /\ tx \in [Clients -> TxType]
      /\ \A c \in Clients : FreshTx(tx[c])
  BY DEF TypeInv, TypeOK, TaskStatus, TokenInv
<1>k. "open" \in TaskStatus /\ "approved" \in TaskStatus /\ "rejected" \in TaskStatus
  BY DEF TaskStatus
(* Rows added *)
<1>a. ASSUME NEW c \in Clients, NEW T \in Seq(RowType(TaskStatus)), tasks' = T \o Rows(tx[c].inst, tx[c].walk.stops, "open"),
             \A j : Clean(T, j) => Clean(tasks, j)
      PROVE  \A j \in Instances : Clean(tasks', j) => Clean(tasks, j)
  <2>1. tx[c].inst \in Instances /\ tx[c].walk.stops \in Seq(Nodes)
    <3>1. tx[c].inst \in Instances /\ tx[c].walk \in WalkType
      BY <1>t, TxFields
    <3> QED
      BY <3>1 DEF WalkType
  <2>2. PICK T2 : T2 = T \o Rows(tx[c].inst, tx[c].walk.stops, "open")
    OBVIOUS
  <2>3. \A j : Clean(T2, j) => Clean(T, j)
    BY <1>k, <2>1, <2>2, InsertKeeps
  <2> QED
    BY <1>a, <2>2, <2>3
<1>1. ASSUME NEW c \in Clients, CreateCommit(c) \/ ExtCommit(c)
      PROVE  \A j \in Instances : Clean(tasks', j) => Clean(tasks, j)
  BY <1>1, <1>a, <1>t DEF CreateCommit, ExtCommit, MaterializeStops
<1>u. ASSUME NEW c \in Clients, tx[c].op \in {"approve", "reject"}, NEW s \in {"approved", "rejected"}
      PROVE  /\ \A j : Clean(Closed(tasks, tx[c].ref, s), j) => Clean(tasks, j)
             /\ Closed(tasks, tx[c].ref, s) \in Seq(RowType(TaskStatus))
  <2>1. tx[c].ref \in DOMAIN tasks
    BY <1>u DEF TypeInv, RefOK
  <2>2. tasks[tx[c].ref].status = "open"
    BY <1>t, <1>u DEF FreshTx
  <2>3. "open" # "rejected" /\ s # "open" /\ s \in TaskStatus
    BY <1>k, <1>u
  <2>4. PICK k : k = tx[c].ref
    OBVIOUS
  <2>5. \A j : Clean(Closed(tasks, k, s), j) => Clean(tasks, j)
    BY <1>k, <1>t, <2>1, <2>2, <2>3, <2>4, UpdateKeeps
  <2>6. Closed(tasks, k, s) \in Seq(RowType(TaskStatus))
    BY <1>t, <2>1, <2>3, <2>4, StatusUpdate DEF Closed
  <2> QED
    BY <2>4, <2>5, <2>6
<1>2. ASSUME NEW c \in Clients, ApproveCommit(c) PROVE \A j \in Instances : Clean(tasks', j) => Clean(tasks, j)
  <2>1. /\ tx[c].op \in {"approve", "reject"}
        /\ tasks' = Closed(tasks, tx[c].ref, "approved") \o Rows(tx[c].inst, tx[c].walk.stops, "open")
    BY <1>2 DEF ApproveCommit, MaterializeStops, Closed
  <2> QED
    BY <1>a, <1>u, <2>1
<1>3. ASSUME NEW c \in Clients, RejectCommit(c) PROVE \A j \in Instances : Clean(tasks', j) => Clean(tasks, j)
  <2>1. tx[c].op \in {"approve", "reject"} /\ tasks' = Closed(tasks, tx[c].ref, "rejected")
    BY <1>3 DEF RejectCommit, Closed
  <2> QED
    BY <1>u, <2>1
<1>4. ASSUME UNCHANGED tasks PROVE \A j \in Instances : Clean(tasks', j) => Clean(tasks, j)
  BY <1>4
<1>5. ASSUME NEW c \in Clients, Handler(c) PROVE \A j \in Instances : Clean(tasks', j) => Clean(tasks, j)
  <2>1. \/ CreateCommit(c) \/ ApproveCommit(c) \/ RejectCommit(c) \/ ExtCommit(c) \/ UNCHANGED tasks
    BY <1>5 DEF Handler, CreateBegin, ActBegin, ExtBegin, ExtLock, ExtReadInstance, AdvanceMulti,
                PublishBegin, PublishCommit, Rollback, rows
  <2> QED
    BY <1>1, <1>2, <1>3, <1>4, <2>1
<1>6. Restart \/ UNCHANGED vars => UNCHANGED tasks
  BY DEF Restart, vars, rows
<1> QED
  BY <1>4, <1>5, <1>6 DEF Next

LEMMA LengthNext ==
    ASSUME Definitions = {SeedDefinition}, IsFiniteSet(Nodes),
           NEW L \in Weights, Lengths(SeedDefinition, L)
    PROVE  TypeInv /\ TokenInv /\ LengthInv(L) /\ [Next]_vars => LengthInv(L)'
<1> SUFFICES ASSUME TypeInv, TokenInv, LengthInv(L), [Next]_vars PROVE LengthInv(L)'
  OBVIOUS
<1> DEFINE Short(t) == t.op \in Walking => t.walk.steps + Weight(L, t.walk.work) <= GuardLimit
<1>0. TypeOK
  BY DEF TypeInv
<1>t. /\ def = SeedDefinition /\ tx \in [Clients -> TxType]
      /\ tasks \in Seq(RowType(TaskStatus)) /\ exts \in Seq(RowType(ExtStatus))
      /\ AtKind(tasks, "stop") /\ AtKind(exts, "external")
  BY <1>0 DEF TypeOK, TaskStatus, ExtStatus, TokenInv, TablesBut
<1>i. Short(NoTx)
  BY DEF NoTx, Walking
<1>s. \A c \in Clients : Short(tx[c])
  BY DEF LengthInv
<1>o. ASSUME NEW c \in Clients, NEW t, tx' = [tx EXCEPT ![c] = t], Short(t) PROVE LengthInv(L)'
  <2>1. ASSUME NEW e \in Clients PROVE Short(tx'[e])
    <3>1. tx'[e] = t \/ tx'[e] = tx[e]
      BY <1>o, <1>t
    <3> HIDE DEF Short
    <3> QED
      BY <1>o, <1>s, <3>1
  <2> QED
    BY <2>1 DEF LengthInv
<1>1. ASSUME NEW c \in Clients, NEW i \in Instances, NEW k, NEW h, CreateBegin(c, i, k, h) PROVE LengthInv(L)'
  <2> DEFINE w == Walk(NextTarget(def, Start, h), EmptyBag)
             t == [NoTx EXCEPT !.op = "create", !.inst = i, !.key = k, !.def = def, !.holds = h, !.walk = w]
  <2>1. tx' = [tx EXCEPT ![c] = t]
    BY <1>1 DEF CreateBegin, Begin
  <2>2. w.steps + Weight(L, w.work) <= GuardLimit
    BY <1>t, LengthOnward, LengthBegins
  <2> HIDE DEF w
  <2>3. t.walk = w
    BY NoTxType DEF TxType
  <2> HIDE DEF t
  <2>4. Short(t)
    BY <2>2, <2>3
  <2> QED
    BY <1>o, <2>1, <2>4
<1>2. ASSUME NEW c \in Clients, NEW j \in DOMAIN tasks, NEW k, NEW approve \in BOOLEAN, ActBegin(c, j, k, approve)
      PROVE  LengthInv(L)'
  <2> DEFINE i == tasks[j].inst
             n == tasks[j].node
             w == Walk(NextTarget(def, n, holds[i]), Take(active[i], n))
             t == [NoTx EXCEPT !.op = IF approve THEN "approve" ELSE "reject",
                               !.inst = i, !.ref = j, !.key = k, !.def = def, !.holds = holds[i],
                               !.walk = IF approve THEN w ELSE @]
  <2>0. n \in Nodes /\ K(n) = "stop"
    <3>1. tasks[j] \in RowType(TaskStatus)
      BY <1>t
    <3> QED
      BY <1>t, <3>1 DEF RowType, AtKind
  <2>1. tx' = [tx EXCEPT ![c] = t]
    BY <1>2 DEF ActBegin, Begin
  <2>2. w.steps + Weight(L, w.work) <= GuardLimit
    <3> HIDE DEF n, i
    <3> QED
      BY <1>t, <2>0, LengthOnward, LengthBegins
  <2> HIDE DEF w
  <2>3. t.op = (IF approve THEN "approve" ELSE "reject") /\ t.walk = IF approve THEN w ELSE NoTx.walk
    <3> HIDE DEF i, n
    <3> QED
      BY NoTxType DEF TxType
  <2> HIDE DEF t
  <2>4. Short(t)
    BY <2>2, <2>3 DEF Walking
  <2> QED
    BY <1>o, <2>1, <2>4
<1>3. ASSUME NEW c \in Clients, NEW e \in DOMAIN exts, ExtBegin(c, e) PROVE LengthInv(L)'
  <2> DEFINE t == [NoTx EXCEPT !.op = "extRead", !.inst = exts[e].inst, !.ref = e]
  <2>1. tx' = [tx EXCEPT ![c] = t]
    BY <1>3 DEF ExtBegin, Begin
  <2>2. Short(t)
    BY NoTxType DEF TxType, Walking
  <2> HIDE DEF t
  <2> QED
    BY <1>o, <2>1, <2>2
<1>4. ASSUME NEW c \in Clients, ExtLock(c) PROVE LengthInv(L)'
  <2> DEFINE t == [tx[c] EXCEPT !.op = "extCmd", !.cmd = NewestCommand(exts[tx[c].ref].node)]
  <2>1. tx' = [tx EXCEPT ![c] = t]
    BY <1>0, <1>4 DEF ExtLock, TypeOK, TxType
  <2>2. Short(t)
    BY <1>t DEF TxType, Walking
  <2> HIDE DEF t
  <2> QED
    BY <1>o, <2>1, <2>2
<1>5. ASSUME NEW c \in Clients, ExtReadInstance(c) PROVE LengthInv(L)'
  <2> DEFINE i == tx[c].inst
             n == exts[tx[c].ref].node
             w == Walk(NextTarget(def, n, holds[i]), Take(active[i], n))
             t == [tx[c] EXCEPT !.op = "ext", !.def = def, !.holds = holds[i], !.walk = w]
  <2>0. n \in Nodes /\ K(n) = "external"
    <3>1. tx[c].ref \in DOMAIN exts
      BY <1>5 DEF TypeInv, RefOK, ExtReadInstance
    <3>2. exts[tx[c].ref] \in RowType(ExtStatus)
      BY <1>t, <3>1
    <3> QED
      BY <1>t, <3>1, <3>2 DEF RowType, AtKind
  <2>1. tx' = [tx EXCEPT ![c] = t]
    BY <1>0, <1>5 DEF ExtReadInstance, TypeOK, TxType
  <2>2. w.steps + Weight(L, w.work) <= GuardLimit
    <3> HIDE DEF n, i
    <3> QED
      BY <1>t, <2>0, LengthOnward, LengthBegins
  <2> HIDE DEF w
  <2>3. t.walk = w
    BY <1>t DEF TxType
  <2> HIDE DEF t
  <2>4. Short(t)
    BY <2>2, <2>3
  <2> QED
    BY <1>o, <2>1, <2>4
<1>6. ASSUME NEW c \in Clients, AdvanceMulti(c) PROVE LengthInv(L)'
  <2> DEFINE w == WalkStep(tx[c].def, tx[c].holds, tx[c].walk)
             t == [tx[c] EXCEPT !.walk = w]
  <2>0. tx[c].walk \in WalkType /\ tx[c].walk.work # <<>> /\ tx[c].def = SeedDefinition
    <3>1. tx[c].walk \in WalkType /\ tx[c].def \in Definitions
      BY <1>t, TxFields
    <3> QED
      BY <1>6, <3>1 DEF AdvanceMulti, WalkDone
  <2>1. tx' = [tx EXCEPT ![c] = t] /\ tx[c].op \in Walking
    BY <1>0, <1>6 DEF AdvanceMulti, TypeOK, TxType, Walking
  <2>2. w.steps + Weight(L, w.work) <= GuardLimit
    BY <1>s, <2>0, <2>1, LengthStep
  <2> HIDE DEF w
  <2>3. t.walk = w
    BY <1>t DEF TxType
  <2> HIDE DEF t
  <2>4. Short(t)
    BY <2>2, <2>3
  <2> QED
    BY <1>o, <2>1, <2>4
<1>7. ASSUME NEW c \in Clients,
             \/ CreateCommit(c) \/ ApproveCommit(c) \/ RejectCommit(c) \/ ExtCommit(c)
             \/ PublishCommit(c) \/ Rollback(c)
      PROVE  LengthInv(L)'
  <2>1. tx' = [tx EXCEPT ![c] = NoTx]
    BY <1>7 DEF CreateCommit, ApproveCommit, RejectCommit, ExtCommit, PublishCommit, Rollback, End
  <2> QED
    BY <1>i, <1>o, <2>1
<1>8. ASSUME NEW c \in Clients, NEW d, PublishBegin(c, d) PROVE LengthInv(L)'
  <2> DEFINE t == [NoTx EXCEPT !.op = "publish", !.def = d, !.ref = LatestVersion.no + 1]
  <2>1. tx' = [tx EXCEPT ![c] = t]
    BY <1>8 DEF PublishBegin, Begin
  <2>2. Short(t)
    BY NoTxType DEF TxType, Walking
  <2> HIDE DEF t
  <2> QED
    BY <1>o, <2>1, <2>2
<1>9. ASSUME Restart PROVE LengthInv(L)'
  BY <1>9, <1>i DEF Restart, LengthInv
<1>10. ASSUME UNCHANGED vars PROVE LengthInv(L)'
  BY <1>10, <1>s DEF vars, LengthInv
<1>11. ASSUME NEW c \in Clients, Handler(c) PROVE LengthInv(L)'
  BY <1>11, <1>1, <1>2, <1>3, <1>4, <1>5, <1>6, <1>7, <1>8 DEF Handler
<1> QED
  BY <1>9, <1>10, <1>11 DEF Next

LEMMA FeedNext ==
    ASSUME OneAtATime, Definitions = {SeedDefinition}, IsFiniteSet(Nodes), NEW L \in Weights, Lengths(SeedDefinition, L),
           NEW r, NEW j \in Nodes, NEW V \in Weights, Feeds(SeedDefinition, j, V, r)
    PROVE  TypeInv /\ TokenInv /\ JoinInv /\ LengthInv(L) /\ FeedOf(j, V) /\ [Next]_vars => FeedOf(j, V)'
<1> SUFFICES ASSUME TypeInv, TokenInv, JoinInv, LengthInv(L), FeedOf(j, V), [Next]_vars PROVE FeedOf(j, V)'
  OBVIOUS
<1> DEFINE Fed(x) == Divides(Needs(j), x)
<1>0. TypeOK
  BY DEF TypeInv
<1>t. /\ active \in [Instances -> Bag] /\ def = SeedDefinition /\ tx \in [Clients -> TxType]
      /\ tasks \in Seq(RowType(TaskStatus)) /\ exts \in Seq(RowType(ExtStatus))
  BY <1>0 DEF TypeOK, TaskStatus, ExtStatus
<1>i. NoTx.op = "idle" /\ "idle" \notin Walking
  BY DEF NoTx, Walking
<1>s. /\ \A i \in Instances : Clean(tasks, i) => Fed(Weigh(V, active[i]))
      /\ \A c \in Clients : tx[c].op \in Walking /\ Clean(tasks, tx[c].inst) => Fed(Load(V, tx[c].walk))
  BY DEF FeedOf
<1>b. /\ AtKind(tasks, "stop") /\ AtKind(exts, "external")
      /\ \A i \in Instances : Accounted(active[i], i, tasks, exts)
      /\ \A c \in Clients : FreshTx(tx[c])
  BY DEF TokenInv, TablesBut
<1>c. \A i \in Instances : Clean(tasks', i) => Clean(tasks, i)
  BY CleanKept
<1> HIDE DEF Fed
<1>o. ASSUME NEW c \in Clients, NEW t, tx' = [tx EXCEPT ![c] = t],
             t.op \in Walking => t.inst \in Instances /\ (Clean(tasks, t.inst) => Fed(Load(V, t.walk))),
             UNCHANGED active
      PROVE  FeedOf(j, V)'
  <2>1. ASSUME NEW e \in Clients PROVE tx'[e] = t
    BY <1>o, <1>t DEF OneAtATime
  <2> QED
    BY <1>c, <1>o, <1>s, <2>1 DEF FeedOf, Fed
<1>e. ASSUME NEW c \in Clients, tx[c].op \in Walking, WalkDone(tx[c].walk), Settle(tx[c].inst, tx[c].walk), End(c)
      PROVE  FeedOf(j, V)'
  <2>1. PICK i : i = tx[c].inst
    OBVIOUS
  <2>2. PICK w : w = tx[c].walk
    OBVIOUS
  <2>3. i \in Instances /\ w \in WalkType
    BY <1>t, <2>1, <2>2, TxFields
  <2>4. w.work = <<>>
    <3>1. w.steps + Weight(L, w.work) <= GuardLimit
      BY <1>e, <2>2 DEF LengthInv
    <3>2. w.steps \in Nat /\ w.work \in Seq(Nodes) /\ GuardLimit \in Nat
      BY <2>3, ConstantsAssumption DEF WalkType
    <3>3. ASSUME w.work # <<>> PROVE FALSE
      <4>1. /\ Weight(L, w.work) = L[Head(w.work)] + Weight(L, Tail(w.work))
            /\ Weight(L, w.work) \in Nat /\ Weight(L, Tail(w.work)) \in Nat /\ L[Head(w.work)] \in Nat
        BY <3>2, <3>3, WeightHead
      <4>2. L[Head(w.work)] >= 1
        <5>1. Head(w.work) \in Nodes
          BY <3>2, <3>3
        <5> QED
          BY <5>1 DEF Lengths
      <4>3. w.steps >= GuardLimit
        BY <1>e, <2>2, <3>3 DEF WalkDone
      <4> QED
        BY <3>1, <3>2, <4>1, <4>2, <4>3
    <3> QED
      BY <3>3
  <2>5. Load(V, w) = Weigh(V, w.active)
    <3>1. Weight(V, w.work) = 0 /\ Weigh(V, w.active) \in Nat
      BY <2>3, <2>4, WeightEmpty, LoadType
    <3> QED
      BY <3>1 DEF Load
  <2>6. active' = [active EXCEPT ![i] = w.active]
    BY <1>e, <2>1, <2>2 DEF Settle
  <2>7. ASSUME NEW k \in Instances, Clean(tasks', k) PROVE Fed(Weigh(V, active'[k]))
    <3>0. Clean(tasks, k)
      BY <1>c, <2>7
    <3>1. CASE k = i
      <4>1. active'[k] = w.active
        BY <1>t, <2>3, <2>6, <3>1
      <4> QED
        BY <1>e, <1>s, <2>1, <2>2, <2>5, <3>0, <3>1, <4>1
    <3>2. CASE k # i
      <4>1. active'[k] = active[k]
        BY <1>t, <2>6, <3>2
      <4> QED
        BY <1>s, <3>0, <4>1
    <3> QED
      BY <3>1, <3>2
  <2>8. ASSUME NEW e \in Clients PROVE tx'[e].op \notin Walking
    <3>1. tx'[e] = NoTx
      BY <1>e, <1>t DEF OneAtATime, End
    <3> QED
      BY <1>i, <3>1
  <2> QED
    BY <2>7, <2>8 DEF FeedOf, Fed
<1>1. ASSUME NEW c \in Clients, NEW i \in Instances, NEW k, NEW h, CreateBegin(c, i, k, h) PROVE FeedOf(j, V)'
  <2> DEFINE w == Walk(NextTarget(def, Start, h), EmptyBag)
             t == [NoTx EXCEPT !.op = "create", !.inst = i, !.key = k, !.def = def, !.holds = h, !.walk = w]
  <2>1. tx' = [tx EXCEPT ![c] = t] /\ UNCHANGED active
    BY <1>1 DEF CreateBegin, Begin, rows
  <2>2. Fed(Load(V, w))
    BY <1>t, FeedCreate DEF Fed
  <2> HIDE DEF w
  <2>3. t.inst = i /\ t.walk = w
    BY NoTxType DEF TxType
  <2> HIDE DEF t
  <2> QED
    BY <1>o, <2>1, <2>2, <2>3
<1>2. ASSUME NEW c \in Clients, NEW g \in DOMAIN tasks, NEW k, NEW approve \in BOOLEAN, ActBegin(c, g, k, approve)
      PROVE  FeedOf(j, V)'
  <2> DEFINE i == tasks[g].inst
             n == tasks[g].node
             w == Walk(NextTarget(def, n, holds[i]), Take(active[i], n))
             t == [NoTx EXCEPT !.op = IF approve THEN "approve" ELSE "reject",
                               !.inst = i, !.ref = g, !.key = k, !.def = def, !.holds = holds[i],
                               !.walk = IF approve THEN w ELSE @]
  <2>0. i \in Instances /\ n \in Nodes
    <3>1. tasks[g] \in RowType(TaskStatus)
      BY <1>t
    <3> QED
      BY <3>1 DEF RowType
  <2>1. tx' = [tx EXCEPT ![c] = t] /\ UNCHANGED active /\ tasks[g].status = "open"
    BY <1>2 DEF ActBegin, Begin, rows
  <2>2. active[i][n] # 0 /\ K(n) = "stop"
    BY <1>b, <1>t, <2>0, <2>1, TaskHasToken
  <2>4. Clean(tasks, i) => Fed(Load(V, w))
    <3>1. active[i] \in Bag /\ (Clean(tasks, i) => Fed(Weigh(V, active[i])))
      BY <1>s, <1>t, <2>0
    <3> HIDE DEF i, n
    <3> QED
      BY <1>t, <2>0, <2>2, <3>1, FeedBegin DEF Fed
  <2> HIDE DEF w
  <2>5. t.inst = i /\ (t.op \in Walking => t.walk = w)
    <3> HIDE DEF i, n
    <3>1. t.op = (IF approve THEN "approve" ELSE "reject") /\ t.inst = i /\ t.walk = IF approve THEN w ELSE NoTx.walk
      BY NoTxType DEF TxType
    <3> QED
      BY <3>1 DEF Walking
  <2> HIDE DEF t, i
  <2> QED
    BY <1>o, <2>0, <2>1, <2>4, <2>5
<1>3. ASSUME NEW c \in Clients, NEW e \in DOMAIN exts, ExtBegin(c, e) PROVE FeedOf(j, V)'
  <2> DEFINE t == [NoTx EXCEPT !.op = "extRead", !.inst = exts[e].inst, !.ref = e]
  <2>1. tx' = [tx EXCEPT ![c] = t] /\ UNCHANGED active
    BY <1>3 DEF ExtBegin, Begin, rows
  <2>2. t.op \notin Walking
    BY NoTxType DEF TxType, Walking
  <2> HIDE DEF t
  <2> QED
    BY <1>o, <2>1, <2>2
<1>4. ASSUME NEW c \in Clients, ExtLock(c) PROVE FeedOf(j, V)'
  <2> DEFINE t == [tx[c] EXCEPT !.op = "extCmd", !.cmd = NewestCommand(exts[tx[c].ref].node)]
  <2>1. tx' = [tx EXCEPT ![c] = t] /\ UNCHANGED active
    BY <1>0, <1>4 DEF ExtLock, TypeOK, TxType, rows
  <2>2. t.op \notin Walking
    BY <1>t DEF TxType, Walking
  <2> HIDE DEF t
  <2> QED
    BY <1>o, <2>1, <2>2
<1>5. ASSUME NEW c \in Clients, ExtReadInstance(c) PROVE FeedOf(j, V)'
  <2> DEFINE i == tx[c].inst
             n == exts[tx[c].ref].node
             w == Walk(NextTarget(def, n, holds[i]), Take(active[i], n))
             t == [tx[c] EXCEPT !.op = "ext", !.def = def, !.holds = holds[i], !.walk = w]
  <2>1. tx' = [tx EXCEPT ![c] = t] /\ UNCHANGED active /\ tx[c].op = "extCmd"
    BY <1>0, <1>5 DEF ExtReadInstance, TypeOK, TxType, rows
  <2>2. tx[c].ref \in DOMAIN exts /\ i \in Instances
    BY <1>t, <2>1, TxFields DEF TypeInv, RefOK
  <2>3. exts[tx[c].ref].status = "pending" /\ exts[tx[c].ref].inst = i
    BY <1>b, <2>1 DEF FreshTx
  <2>4. active[i][n] # 0 /\ K(n) = "external" /\ n \in Nodes
    BY <1>b, <1>t, <2>2, <2>3, ExtHasToken
  <2>6. Clean(tasks, i) => Fed(Load(V, w))
    <3>1. active[i] \in Bag /\ (Clean(tasks, i) => Fed(Weigh(V, active[i])))
      BY <1>s, <1>t, <2>2
    <3> HIDE DEF i, n
    <3> QED
      BY <1>t, <2>4, <3>1, FeedBegin DEF Fed
  <2> HIDE DEF w
  <2>7. t.inst = i /\ t.walk = w
    BY <1>t DEF TxType
  <2> HIDE DEF t, i
  <2> QED
    BY <1>o, <2>1, <2>2, <2>6, <2>7
<1>6. ASSUME NEW c \in Clients, AdvanceMulti(c) PROVE FeedOf(j, V)'
  <2> DEFINE w == WalkStep(tx[c].def, tx[c].holds, tx[c].walk)
             t == [tx[c] EXCEPT !.walk = w]
  <2>0. /\ tx[c].walk \in WalkType /\ tx[c].walk.work # <<>> /\ tx[c].def = SeedDefinition
        /\ tx[c].inst \in Instances /\ JoinOK(tx[c].walk.active)
    <3>1. tx[c].walk \in WalkType /\ tx[c].def \in Definitions /\ tx[c].inst \in Instances
      BY <1>t, TxFields
    <3> QED
      BY <1>6, <3>1 DEF AdvanceMulti, WalkDone, JoinInv
  <2>1. tx' = [tx EXCEPT ![c] = t] /\ UNCHANGED active /\ tx[c].op \in Walking
    BY <1>0, <1>6 DEF AdvanceMulti, TypeOK, TxType, rows, Walking
  <2>2. Clean(tasks, tx[c].inst) => Fed(Load(V, w))
    BY <1>s, <2>0, <2>1, FeedStep DEF Fed
  <2> HIDE DEF w
  <2>3. t.inst = tx[c].inst /\ t.walk = w
    BY <1>t DEF TxType
  <2> HIDE DEF t
  <2> QED
    BY <1>o, <2>0, <2>1, <2>2, <2>3
<1>7. ASSUME NEW c \in Clients, CreateCommit(c) \/ ApproveCommit(c) \/ ExtCommit(c) PROVE FeedOf(j, V)'
  BY <1>7, <1>e DEF CreateCommit, ApproveCommit, ExtCommit, Walking
<1>8. ASSUME NEW c \in Clients, RejectCommit(c) \/ PublishCommit(c) \/ Rollback(c) PROVE FeedOf(j, V)'
  <2>1. tx' = [tx EXCEPT ![c] = NoTx] /\ UNCHANGED active
    BY <1>8 DEF RejectCommit, PublishCommit, Rollback, End, rows
  <2> QED
    BY <1>i, <1>o, <2>1
<1>9. ASSUME NEW c \in Clients, NEW d, PublishBegin(c, d) PROVE FeedOf(j, V)'
  <2> DEFINE t == [NoTx EXCEPT !.op = "publish", !.def = d, !.ref = LatestVersion.no + 1]
  <2>1. tx' = [tx EXCEPT ![c] = t] /\ UNCHANGED active
    BY <1>9 DEF PublishBegin, Begin, rows
  <2>2. t.op \notin Walking
    BY NoTxType DEF TxType, Walking
  <2> HIDE DEF t
  <2> QED
    BY <1>o, <2>1, <2>2
<1>10. ASSUME Restart PROVE FeedOf(j, V)'
  <2>1. UNCHANGED <<active, tasks>> /\ \A c \in Clients : tx'[c] = NoTx
    BY <1>10 DEF Restart
  <2> QED
    BY <1>i, <1>s, <2>1 DEF FeedOf, Fed
<1>11. ASSUME UNCHANGED vars PROVE FeedOf(j, V)'
  BY <1>11, <1>s DEF vars, rows, FeedOf, Fed
<1>12. ASSUME NEW c \in Clients, Handler(c) PROVE FeedOf(j, V)'
  BY <1>12, <1>1, <1>2, <1>3, <1>4, <1>5, <1>6, <1>7, <1>8, <1>9 DEF Handler
<1> QED
  BY <1>10, <1>11, <1>12 DEF Next

LEMMA FeedInit ==
    ASSUME IsFiniteSet(Nodes), NEW r, NEW j \in Nodes, NEW V \in Weights, Feeds(SeedDefinition, j, V, r), Init
    PROVE  FeedOf(j, V)
<1>1. EmptyBag \in Bag /\ SeedNode \in Nodes /\ Weigh(V, EmptyBag) = 0
  BY NoTxType, ConstantsAssumption, WeighNothing
<1>2. Weigh(V, Put(EmptyBag, SeedNode)) = 0 + V[SeedNode] /\ V[SeedNode] \in Nat
  BY <1>1, WeighMoves DEF Weights
<1>3. Weigh(V, Put(EmptyBag, SeedNode)) = V[SeedNode]
  BY <1>2
<1>4. Divides(Needs(j), V[SeedNode])
  <2>1. V[SeedNode] % Needs(j) = 0
    BY DEF Feeds, Needs
  <2> QED
    BY <1>2, <2>1, NeedsType, DividesZero
<1>5. Divides(Needs(j), 0)
  <2>1. 0 = 0 * Needs(j) /\ 0 \in Int
    BY NeedsType
  <2> QED
    BY <2>1 DEF Divides
<1>6. \A i \in Instances : active[i] = EmptyBag \/ active[i] = Put(EmptyBag, SeedNode)
  BY DEF Init
<1>7. \A c \in Clients : tx[c].op \notin Walking
  BY DEF Init, NoTx, Walking
<1> QED
  BY <1>1, <1>3, <1>4, <1>5, <1>6, <1>7 DEF FeedOf

(* Tokens that all wait at joins: the first of these joins has as many as  *)
(* it waits for, or more.                                                  *)
LEMMA NotAllAtJoins ==
    ASSUME IsFiniteSet(Nodes), NEW r \in [Nodes -> Nat], NEW b \in Bag, b # EmptyBag, JoinOK(b),
           \A n \in Nodes : b[n] # 0 => K(n) = "join",
           \A j \in Nodes : K(j) = "join" =>
               \E V \in [Nodes -> Nat] : Feeds(SeedDefinition, j, V, r) /\ Divides(Needs(j), Weigh(V, b))
    PROVE  FALSE
<1>1. PICK S : S = {r[n] : n \in {m \in Nodes : b[m] # 0}}
  OBVIOUS
<1>2. S \subseteq Nat /\ S # {}
  <2>1. PICK n \in Nodes : b[n] # 0
    BY DEF Bag, EmptyBag
  <2> QED
    BY <1>1, <2>1
<1>3. PICK x \in S : \A y \in S : ~(<<y, x>> \in OpToRel(<, Nat))
  BY <1>2, NatLessThanWellFounded, WFMin
<1>4. \A y \in S : ~(y < x)
  BY <1>2, <1>3 DEF OpToRel
<1>5. PICK j \in Nodes : b[j] # 0 /\ r[j] = x
  BY <1>1
<1>6. K(j) = "join"
  BY <1>5
<1>7. PICK V \in [Nodes -> Nat] : Feeds(SeedDefinition, j, V, r) /\ Divides(Needs(j), Weigh(V, b))
  BY <1>6
<1>8. ASSUME NEW n \in Nodes, n # j, b[n] # 0 PROVE V[n] = 0
  <2>1. K(n) = "join" /\ r[n] \in S
    BY <1>1, <1>8
  <2>2. ~(r[n] < r[j])
    BY <1>4, <1>5, <2>1
  <2> QED
    BY <1>7, <1>8, <2>1, <2>2 DEF Feeds, K
<1>9. PICK g : g = [n \in Nodes |-> b[n] * V[n]]
  OBVIOUS
<1>10. \A n \in Nodes : b[n] \in Nat /\ V[n] \in Nat
  BY <1>7 DEF Bag
<1>11. \A n \in Nodes : n # j => g[n] = 0
  <2>1. ASSUME NEW n \in Nodes, n # j PROVE g[n] = 0
    <3>1. b[n] = 0 \/ V[n] = 0
      BY <1>8, <2>1
    <3> QED
      BY <1>9, <1>10, <3>1
  <2> QED
    BY <2>1
<1>12. g[j] = b[j]
  <2>1. V[j] = 1
    BY <1>7 DEF Feeds
  <2> QED
    BY <1>9, <1>10, <2>1
<1>13. g \in [Nodes -> Nat]
  <2>1. \A n \in Nodes : g[n] \in Nat
    BY <1>10, <1>11, <1>12
  <2> QED
    BY <1>9, <2>1
<1>14. Weigh(V, b) = b[j]
  <2>1. Total(Nodes, g) = g[j]
    BY <1>11, <1>13, TotalOne
  <2> QED
    BY <1>9, <1>12, <2>1 DEF Weigh
<1>15. b[j] < Needs(j) /\ b[j] \in Nat /\ Needs(j) \in Nat \ {0}
  <2>1. b[j] < Incoming(SeedDefinition, j)
    BY <1>5, <1>6 DEF JoinOK, K
  <2>2. Incoming(SeedDefinition, j) \in Nat /\ b[j] \in Nat
    BY <1>10, GraphAssumption, ConstantsAssumption
  <2>3. Incoming(SeedDefinition, j) # 0
    BY <2>1, <2>2
  <2> QED
    BY <2>1, <2>2, <2>3, NeedsType
<1>16. b[j] = 0
  BY <1>7, <1>14, <1>15, DividesLess
<1> QED
  BY <1>5, <1>16

(* Of a definition whose joins get what they wait for and whose walks stay *)
(* below the loop's limit, no instance that nobody rejected is left        *)
(* running with neither an open task nor a pending external action, when   *)
(* handlers do not overlap: whatever branches its conditions take.         *)
THEOREM SerialNeverStuckJoins ==
    ASSUME OneAtATime, Definitions = {SeedDefinition}, Seeded = {} \/ ~MayRestart,
           IsFiniteSet(Nodes), JoinsFed(SeedDefinition), ShortWalks(SeedDefinition)
    PROVE  Spec => []NeverStuck
<1>0. SameKinds
  BY DEF SameKinds, K
<1>r. PICK r \in [Nodes -> Nat] : \A j \in Nodes :
          Kind[SeedDefinition][j] = "join" => \E V \in [Nodes -> Nat] : Feeds(SeedDefinition, j, V, r)
  BY DEF JoinsFed
<1>l. PICK L \in Weights : Lengths(SeedDefinition, L)
  BY DEF ShortWalks, Weights
<1>1. Init => LengthInv(L) /\ FeedInv(r)
  <2> SUFFICES ASSUME Init PROVE LengthInv(L) /\ FeedInv(r)
    OBVIOUS
  <2>1. LengthInv(L)
    BY DEF Init, NoTx, LengthInv, Walking
  <2>2. FeedInv(r)
    BY <1>r, FeedInit DEF FeedInv, K, Weights
  <2> QED
    BY <2>1, <2>2
<1>2. TypeInv /\ TokenInv /\ LengthInv(L) /\ [Next]_vars => LengthInv(L)'
  BY <1>l, LengthNext
<1>3. TypeInv /\ TokenInv /\ JoinInv /\ LengthInv(L) /\ FeedInv(r) /\ [Next]_vars => FeedInv(r)'
  <2> SUFFICES ASSUME TypeInv, TokenInv, JoinInv, LengthInv(L), FeedInv(r), [Next]_vars, NEW j \in Nodes, K(j) = "join"
               PROVE  \E V \in [Nodes -> Nat] : Feeds(SeedDefinition, j, V, r) /\ FeedOf(j, V)'
    BY DEF FeedInv
  <2>1. PICK V \in [Nodes -> Nat] : Feeds(SeedDefinition, j, V, r) /\ FeedOf(j, V)
    BY DEF FeedInv
  <2>2. FeedOf(j, V)'
    BY <1>l, <2>1, FeedNext DEF Weights
  <2> QED
    BY <2>1, <2>2
<1>4. TypeInv /\ TokenInv /\ JoinInv /\ StatusMatchesTokens /\ FeedInv(r) => NeverStuck
  <2> SUFFICES ASSUME TypeInv, TokenInv, JoinInv, StatusMatchesTokens, FeedInv(r),
                      NEW i \in Instances, status[i] = "running", NeverRejected(i),
                      ~\E n \in Nodes : RowsOf(tasks, i, n, "open") \cup RowsOf(exts, i, n, "pending") # {}
               PROVE  FALSE
    BY DEF NeverStuck
  <2>1. Clean(tasks, i)
    BY DEF NeverRejected, Clean
  <2>2. Tokens(active[i], i, tasks, exts, EmptyBag) /\ Rests(active[i]) /\ JoinOK(active[i])
    BY <2>1 DEF TokenInv, TablesBut, Accounted, JoinInv
  <2>3. active[i] # EmptyBag /\ active[i] \in Bag
    BY DEF StatusMatchesTokens, TypeInv, TypeOK
  <2>4. ASSUME NEW n \in Nodes, active[i][n] # 0 PROVE K(n) = "join"
    <3>1. RowsOf(tasks, i, n, "open") = {} /\ RowsOf(exts, i, n, "pending") = {}
      OBVIOUS
    <3>2. Cardinality({}) = 0 /\ EmptyBag[n] = 0 /\ 0 + 0 = 0
      BY FS_EmptySet DEF EmptyBag
    <3>3. ASSUME K(n) \in {"stop", "external"} PROVE active[i][n] = 0
      <4>1. active[i][n] = Cardinality({}) + EmptyBag[n]
        BY <2>2, <3>1, <3>3 DEF Tokens
      <4> QED
        BY <3>2, <4>1
    <3> QED
      BY <2>2, <2>4, <3>3 DEF Rests
  <2>5. \A j \in Nodes : K(j) = "join" =>
           \E V \in [Nodes -> Nat] : Feeds(SeedDefinition, j, V, r) /\ Divides(Needs(j), Weigh(V, active[i]))
    BY <2>1 DEF FeedInv, FeedOf
  <2> QED
    BY <1>r, <2>2, <2>3, <2>4, <2>5, NotAllAtJoins
<1>5. Spec => []StatusMatchesTokens
  BY StatusAgrees
<1>6. Spec => []JoinInv
  BY JoinAlways
<1>7. TypeInv /\ TokenInv /\ [Next]_vars => TokenInv'
  BY <1>0, TokenNext
<1> QED
  BY <1>1, <1>2, <1>3, <1>4, <1>5, <1>6, <1>7, TypeInit, TypeNext, TokenInit, PTL DEF Spec
=============================================================================
