-------------------------- MODULE WorkPlan_proofs --------------------------
(***************************************************************************)
(* The two properties of the plan of work items, for every set of items,   *)
(* clients, dependency types and dates; and, in the second half, the two   *)
(* of the record services of Casework, for every set of callers and every  *)
(* audience.  The two components share no state.                           *)
(***************************************************************************)
EXTENDS WorkPlan, Casework, FiniteSetTheorems, TLAPS

Date == Nat \cup {None}

Tx == {Idle} \cup [op : {"add"}, dep : Dep]
             \cup [op : {"move"}, item : Items, start : Date, due : Date]

TypeInv ==
    /\ deps \subseteq Dep
    /\ start \in [Items -> Date]
    /\ due \in [Items -> Date]
    /\ tx \in [Clients -> Tx]
    /\ vetted \subseteq deps
    /\ addsRaced \in BOOLEAN
    /\ movesRaced \in BOOLEAN
    /\ moves \in Nat

(* No dependency, written or about to be, is of an item on itself. *)
NoLoop ==
    /\ \A d \in deps : d.pre # d.suc
    /\ \A c \in Clients : Adding(c) => tx[c].dep.pre # tx[c].dep.suc

(* Without overlapping additions, what the one open addDependency has      *)
(* found out about cycles is still true.                                   *)
GuardFresh ==
    ~addsRaced =>
        /\ \A b, c \in Clients : Adding(b) /\ Adding(c) => b = c
        /\ \A c \in Clients :
            Adding(c) => ~WouldCycle(tx[c].dep.pre, tx[c].dep.suc)

(* Without overlapping writers, what every open reschedule has tested      *)
(* still holds.                                                            *)
FitsFresh ==
    ~movesRaced => \A c \in Clients :
        Moving(c) => Fits(tx[c].item, tx[c].start, tx[c].due)

VettedFS == \A d \in vetted : d.type = "FS"

-----------------------------------------------------------------------------
(* What a transaction of each kind holds. *)
LEMMA TxKinds ==
    ASSUME TypeInv, NEW c \in Clients
    PROVE  /\ Adding(c) => tx[c].dep \in Dep
           /\ Moving(c) => /\ tx[c].item \in Items
                           /\ tx[c].start \in Date
                           /\ tx[c].due \in Date
           /\ tx[c] = Idle => ~Adding(c) /\ ~Moving(c)
           /\ ~(Adding(c) /\ Moving(c))
<1>1. tx[c] \in Tx
  BY DEF TypeInv
<1>2. CASE tx[c] = Idle
  BY <1>2 DEF Adding, Moving, Idle
<1>3. CASE tx[c] \in [op : {"add"}, dep : Dep]
  BY <1>3 DEF Adding, Moving, Idle
<1>4. CASE tx[c] \in [op : {"move"}, item : Items, start : Date, due : Date]
  BY <1>4 DEF Adding, Moving, Idle
<1> QED
  BY <1>1, <1>2, <1>3, <1>4 DEF Tx

(* A span of dates is a pair of dates. *)
LEMMA SpanDates ==
    ASSUME NEW p \in Spans
    PROVE  p[1] \in Date /\ p[2] \in Date
BY PlanAssumption DEF Date

(* Acyclic and Closed, of any set of edges. *)
NoCycle(E) ==
    \A S \in SUBSET Items : S # {} =>
        \E x \in S : \A d \in E : d.suc = x => d.pre \notin S

Stays(E, R) == \A d \in E : d.pre \in R => d.suc \in R

(* An edge from outside a set that the edges do not leave into that set    *)
(* closes no cycle: the first element outside the set is not its end.      *)
LEMMA EdgeKeepsAcyclic ==
    ASSUME NEW E, NEW a, NEW R,
           a.suc \in R, a.pre \notin R, Stays(E, R), NoCycle(E)
    PROVE  NoCycle(E \cup {a})
<1> SUFFICES ASSUME NEW S \in SUBSET Items, S # {}
             PROVE  \E x \in S : \A d \in E \cup {a} :
                        d.suc = x => d.pre \notin S
  BY DEF NoCycle
<1>1. CASE a.pre \in S
  <2>1. S \ R # {} /\ S \ R \in SUBSET Items
    BY <1>1
  <2>2. PICK x \in S \ R : \A d \in E : d.suc = x => d.pre \notin S \ R
    BY <2>1 DEF NoCycle
  <2>3. \A d \in E : d.suc = x => d.pre \notin S
    BY <2>2 DEF Stays
  <2>4. a.suc # x
    BY <2>2
  <2> QED
    BY <2>2, <2>3, <2>4
<1>2. CASE a.pre \notin S
  <2>1. PICK x \in S : \A d \in E : d.suc = x => d.pre \notin S
    BY DEF NoCycle
  <2> QED
    BY <2>1, <1>2
<1> QED
  BY <1>1, <1>2

-----------------------------------------------------------------------------
LEMMA InitType == Init => TypeInv
<1> SUFFICES ASSUME Init
             PROVE  TypeInv
  OBVIOUS
<1>1. Idle \in Tx
  BY DEF Tx
<1>2. tx \in [Clients -> Tx]
  BY <1>1 DEF Init
<1>3. start \in [Items -> Date] /\ due \in [Items -> Date]
  BY DEF Init, Date
<1> QED
  BY <1>2, <1>3 DEF Init, TypeInv

LEMMA NextType == TypeInv /\ [Next]_vars => TypeInv'
<1> SUFFICES ASSUME TypeInv, [Next]_vars
             PROVE  TypeInv'
  OBVIOUS
<1>1. ASSUME NEW c \in Clients, NEW d \in Dep, AddBegin(c, d)
      PROVE  TypeInv'
  <2>1. [op |-> "add", dep |-> d] \in Tx
    BY DEF Tx
  <2>2. tx' \in [Clients -> Tx]
    BY <1>1, <2>1 DEF AddBegin, TypeInv
  <2> QED
    BY <1>1, <2>2 DEF AddBegin, TypeInv
<1>2. ASSUME NEW c \in Clients, AddCommit(c)
      PROVE  TypeInv'
  <2>1. tx[c].dep \in Dep
    BY <1>2, TxKinds DEF AddCommit
  <2>2. tx' \in [Clients -> Tx]
    BY <1>2 DEF AddCommit, TypeInv, Tx
  <2> QED
    BY <1>2, <2>1, <2>2 DEF AddCommit, TypeInv
<1>3. ASSUME NEW c \in Clients, NEW x \in Items, NEW p \in Spans,
             MoveBegin(c, x, p[1], p[2])
      PROVE  TypeInv'
  <2>1. [op |-> "move", item |-> x, start |-> p[1], due |-> p[2]] \in Tx
    BY SpanDates DEF Tx
  <2>2. tx' \in [Clients -> Tx]
    BY <1>3, <2>1 DEF MoveBegin, TypeInv
  <2> QED
    BY <1>3, <2>2 DEF MoveBegin, TypeInv
<1>4. ASSUME NEW c \in Clients, MoveCommit(c)
      PROVE  TypeInv'
  <2>1. tx[c].item \in Items /\ tx[c].start \in Date /\ tx[c].due \in Date
    BY <1>4, TxKinds DEF MoveCommit
  <2>2. tx' \in [Clients -> Tx]
    BY <1>4 DEF MoveCommit, TypeInv, Tx
  <2> QED
    BY <1>4, <2>1, <2>2 DEF MoveCommit, SetDates, TypeInv, FS
<1>5. ASSUME NEW c \in Clients, Rollback(c)
      PROVE  TypeInv'
  <2>1. tx' \in [Clients -> Tx]
    BY <1>5 DEF Rollback, TypeInv, Tx
  <2> QED
    BY <1>5, <2>1 DEF Rollback, TypeInv
<1>6. ASSUME NEW d \in deps, RemoveDependency(d)
      PROVE  TypeInv'
  BY <1>6 DEF RemoveDependency, TypeInv
<1>7. ASSUME NEW x \in Items, NEW p \in Spans, Update(x, p[1], p[2])
      PROVE  TypeInv'
  BY <1>7, SpanDates DEF Update, SetDates, TypeInv
<1>8. CASE UNCHANGED vars
  BY <1>8 DEF vars, TypeInv
<1> QED
  BY <1>1, <1>2, <1>3, <1>4, <1>5, <1>6, <1>7, <1>8 DEF Next

(* Every variable keeps its type: in particular a vetted dependency is one *)
(* that is still there.                                                    *)
THEOREM Typed == Spec => []TypeInv
BY InitType, NextType, PTL DEF Spec

-----------------------------------------------------------------------------
LoopInv == TypeInv /\ NoLoop

LEMMA NextNoLoop == LoopInv /\ [Next]_vars => NoLoop'
<1> SUFFICES ASSUME TypeInv, NoLoop, [Next]_vars
             PROVE  NoLoop'
  BY DEF LoopInv
<1>1. ASSUME NEW c \in Clients, NEW d \in Dep, AddBegin(c, d)
      PROVE  NoLoop'
  <2>1. ASSUME NEW b \in Clients, Adding(b)'
        PROVE  (tx[b].dep.pre # tx[b].dep.suc)'
    <3>1. CASE b = c
      <4>1. tx'[b].dep = d
        BY <1>1, <3>1 DEF AddBegin, TypeInv
      <4> QED
        BY <1>1, <4>1 DEF AddBegin
    <3>2. CASE b # c
      <4>1. tx'[b] = tx[b]
        BY <1>1, <3>2 DEF AddBegin, TypeInv
      <4> QED
        BY <2>1, <4>1 DEF Adding, NoLoop
    <3> QED
      BY <3>1, <3>2
  <2> QED
    BY <1>1, <2>1 DEF AddBegin, NoLoop
<1>2. ASSUME NEW c \in Clients, AddCommit(c)
      PROVE  NoLoop'
  <2>1. \A b \in Clients : Adding(b)' => Adding(b) /\ tx'[b] = tx[b]
    BY <1>2 DEF AddCommit, TypeInv, Adding, Idle
  <2> QED
    BY <1>2, <2>1 DEF AddCommit, NoLoop
<1>3. ASSUME NEW c \in Clients, NEW x \in Items, NEW p \in Spans,
             MoveBegin(c, x, p[1], p[2])
      PROVE  NoLoop'
  <2>1. \A b \in Clients : Adding(b)' => Adding(b) /\ tx'[b] = tx[b]
    BY <1>3 DEF MoveBegin, TypeInv, Adding, Idle
  <2> QED
    BY <1>3, <2>1 DEF MoveBegin, NoLoop
<1>4. ASSUME NEW c \in Clients, MoveCommit(c) \/ Rollback(c)
      PROVE  NoLoop'
  <2>1. \A b \in Clients : Adding(b)' => Adding(b) /\ tx'[b] = tx[b]
    BY <1>4 DEF MoveCommit, Rollback, TypeInv, Adding, Idle
  <2> QED
    BY <1>4, <2>1 DEF MoveCommit, Rollback, NoLoop
<1>5. ASSUME NEW d \in deps, RemoveDependency(d)
      PROVE  NoLoop'
  BY <1>5 DEF RemoveDependency, NoLoop, Adding
<1>6. ASSUME NEW x \in Items, NEW p \in Spans, Update(x, p[1], p[2])
      PROVE  NoLoop'
  BY <1>6 DEF Update, NoLoop, Adding
<1>7. CASE UNCHANGED vars
  BY <1>7 DEF vars, NoLoop, Adding
<1> QED
  BY <1>1, <1>2, <1>3, <1>4, <1>5, <1>6, <1>7 DEF Next

-----------------------------------------------------------------------------
CycleInv == TypeInv /\ GuardFresh /\ CycleFree

(* Steps that add no dependency and start no addition keep what the cycle  *)
(* guard has found.                                                        *)
LEMMA FewerDeps ==
    ASSUME CycleInv, deps' \subseteq deps, addsRaced' = addsRaced,
           \A b \in Clients : Adding(b)' => Adding(b) /\ tx'[b] = tx[b]
    PROVE  GuardFresh' /\ CycleFree'
<1>1. ASSUME ~addsRaced', NEW c \in Clients, Adding(c)'
      PROVE  ~WouldCycle(tx[c].dep.pre, tx[c].dep.suc)'
  <2>1. ~WouldCycle(tx[c].dep.pre, tx[c].dep.suc) /\ tx'[c] = tx[c]
    BY <1>1 DEF CycleInv, GuardFresh
  <2>2. PICK R \in SUBSET Items :
            tx[c].dep.suc \in R /\ Closed(R) /\ tx[c].dep.pre \notin R
    BY <2>1 DEF WouldCycle
  <2>3. Closed(R)'
    BY <2>2 DEF Closed
  <2> QED
    BY <2>1, <2>2, <2>3 DEF WouldCycle
<1>2. ~addsRaced' => \A b, c \in Clients : Adding(b)' /\ Adding(c)' => b = c
  BY DEF CycleInv, GuardFresh
<1>3. GuardFresh'
  BY <1>1, <1>2 DEF GuardFresh
<1>4. CycleFree'
  BY DEF CycleInv, CycleFree, Acyclic
<1> QED
  BY <1>3, <1>4

LEMMA NextCycle == CycleInv /\ [Next]_vars => GuardFresh' /\ CycleFree'
<1> SUFFICES ASSUME CycleInv, [Next]_vars
             PROVE  GuardFresh' /\ CycleFree'
  OBVIOUS
<1> USE DEF CycleInv
<1>1. ASSUME NEW c \in Clients, NEW d \in Dep, AddBegin(c, d)
      PROVE  GuardFresh' /\ CycleFree'
  <2>1. /\ tx'[c] = [op |-> "add", dep |-> d]
        /\ \A b \in Clients : b # c => tx'[b] = tx[b]
        /\ ~Adding(c)
    BY <1>1, TxKinds DEF AddBegin, TypeInv
  <2>2. CycleFree'
    BY <1>1 DEF AddBegin, CycleFree, Acyclic, TypeInv
  <2>3. ASSUME ~addsRaced', NEW b \in Clients, Adding(b)'
        PROVE  b = c
    BY <1>1, <2>1, <2>3 DEF AddBegin, Adding
  <2>4. ~WouldCycle(d.pre, d.suc)'
    <3>1. PICK R \in SUBSET Items : d.suc \in R /\ Closed(R) /\ d.pre \notin R
      BY <1>1 DEF AddBegin, WouldCycle
    <3>2. Closed(R)'
      BY <1>1, <3>1 DEF AddBegin, Closed
    <3> QED
      BY <3>1, <3>2 DEF WouldCycle
  <2>5. tx'[c].dep = d
    BY <2>1
  <2>6. ASSUME ~addsRaced', NEW b \in Clients, Adding(b)'
        PROVE  ~WouldCycle(tx[b].dep.pre, tx[b].dep.suc)'
    BY <2>3, <2>4, <2>5, <2>6 DEF WouldCycle, Closed
  <2> QED
    BY <2>2, <2>3, <2>6 DEF GuardFresh
<1>2. ASSUME NEW c \in Clients, AddCommit(c)
      PROVE  GuardFresh' /\ CycleFree'
  <2>1. \A b \in Clients : Adding(b)' => b # c /\ Adding(b)
    BY <1>2 DEF AddCommit, TypeInv, Adding, Idle
  <2>2. ~addsRaced' => \A b \in Clients : ~Adding(b)'
    BY <1>2, <2>1 DEF AddCommit, GuardFresh
  <2>3. GuardFresh'
    BY <2>2 DEF GuardFresh
  <2>4. ASSUME ~addsRaced'
        PROVE  Acyclic'
    <3>1. ~addsRaced /\ ~WouldCycle(tx[c].dep.pre, tx[c].dep.suc)
      BY <1>2, <2>4 DEF AddCommit, GuardFresh
    <3>2. PICK R \in SUBSET Items :
            tx[c].dep.suc \in R /\ Closed(R) /\ tx[c].dep.pre \notin R
      BY <3>1 DEF WouldCycle
    <3>3. Stays(deps, R)
      BY <3>2 DEF Closed, Stays
    <3>4. NoCycle(deps)
      BY <3>1 DEF CycleFree, Acyclic, NoCycle
    <3>5. NoCycle(deps \cup {tx[c].dep})
      BY <3>2, <3>3, <3>4, EdgeKeepsAcyclic
    <3>6. deps' = deps \cup {tx[c].dep}
      BY <1>2 DEF AddCommit
    <3> QED
      BY <3>5, <3>6 DEF NoCycle, Acyclic
  <2> QED
    BY <2>3, <2>4 DEF CycleFree
<1>3. ASSUME NEW c \in Clients, NEW x \in Items, NEW p \in Spans,
             MoveBegin(c, x, p[1], p[2])
      PROVE  GuardFresh' /\ CycleFree'
  <2>1. \A b \in Clients : Adding(b)' => Adding(b) /\ tx'[b] = tx[b]
    BY <1>3 DEF MoveBegin, TypeInv, Adding, Idle
  <2>2. deps' = deps /\ addsRaced' = addsRaced
    BY <1>3 DEF MoveBegin
  <2> QED
    BY <2>1, <2>2, FewerDeps
<1>4. ASSUME NEW c \in Clients, MoveCommit(c) \/ Rollback(c)
      PROVE  GuardFresh' /\ CycleFree'
  <2>1. \A b \in Clients : Adding(b)' => Adding(b) /\ tx'[b] = tx[b]
    BY <1>4 DEF MoveCommit, Rollback, TypeInv, Adding, Idle
  <2>2. deps' = deps /\ addsRaced' = addsRaced
    BY <1>4 DEF MoveCommit, Rollback
  <2> QED
    BY <2>1, <2>2, FewerDeps
<1>5. ASSUME NEW d \in deps, RemoveDependency(d)
      PROVE  GuardFresh' /\ CycleFree'
  <2>1. deps' \subseteq deps /\ addsRaced' = addsRaced /\ tx' = tx
    BY <1>5 DEF RemoveDependency
  <2>2. \A b \in Clients : Adding(b)' => Adding(b) /\ tx'[b] = tx[b]
    BY <2>1 DEF Adding
  <2> QED
    BY <2>1, <2>2, FewerDeps
<1>6. ASSUME NEW x \in Items, NEW p \in Spans, Update(x, p[1], p[2])
      PROVE  GuardFresh' /\ CycleFree'
  <2>1. deps' = deps /\ addsRaced' = addsRaced /\ tx' = tx
    BY <1>6 DEF Update
  <2>2. \A b \in Clients : Adding(b)' => Adding(b) /\ tx'[b] = tx[b]
    BY <2>1 DEF Adding
  <2> QED
    BY <2>1, <2>2, FewerDeps
<1>7. CASE UNCHANGED vars
  <2>1. deps' = deps /\ addsRaced' = addsRaced /\ tx' = tx
    BY <1>7 DEF vars
  <2>2. \A b \in Clients : Adding(b)' => Adding(b) /\ tx'[b] = tx[b]
    BY <2>1 DEF Adding
  <2> QED
    BY <2>1, <2>2, FewerDeps
<1> QED
  BY <1>1, <1>2, <1>3, <1>4, <1>5, <1>6, <1>7 DEF Next

(* addDependency's search from the successor keeps the dependencies        *)
(* acyclic, whatever is removed or moved meanwhile, as long as no two      *)
(* additions overlap.                                                      *)
THEOREM PlanCycleFree == Spec => []CycleFree
<1>1. Init => CycleInv
  <2> SUFFICES ASSUME Init
               PROVE  CycleInv
    OBVIOUS
  <2>1. \A c \in Clients : ~Adding(c)
    BY DEF Init, Adding, Idle
  <2>2. CycleFree
    BY DEF Init, CycleFree, Acyclic
  <2> QED
    BY <2>1, <2>2, InitType DEF CycleInv, GuardFresh
<1>2. CycleInv /\ [Next]_vars => CycleInv'
  BY NextType, NextCycle DEF CycleInv
<1>3. CycleInv => CycleFree
  BY DEF CycleInv
<1> QED
  BY <1>1, <1>2, <1>3, PTL DEF Spec

-----------------------------------------------------------------------------
ScheduleInv == LoopInv /\ VettedFS /\ FitsFresh /\ ScheduleHolds

(* Steps that write no dates, add no dependency and start no reschedule. *)
LEMMA NothingMoves ==
    ASSUME ScheduleInv, deps' \subseteq deps, vetted' \subseteq vetted,
           start' = start, due' = due, movesRaced' = movesRaced,
           \A b \in Clients : Moving(b)' => Moving(b) /\ tx'[b] = tx[b]
    PROVE  VettedFS' /\ FitsFresh' /\ ScheduleHolds'
<1>1. VettedFS' /\ ScheduleHolds'
  BY DEF ScheduleInv, VettedFS, ScheduleHolds
<1>2. ASSUME ~movesRaced', NEW c \in Clients, Moving(c)'
      PROVE  Fits(tx[c].item, tx[c].start, tx[c].due)'
  <2>1. Fits(tx[c].item, tx[c].start, tx[c].due) /\ tx'[c] = tx[c]
    BY <1>2 DEF ScheduleInv, FitsFresh
  <2> QED
    BY <2>1 DEF Fits, FS
<1> QED
  BY <1>1, <1>2 DEF FitsFresh

LEMMA NextSchedule ==
    ScheduleInv /\ [Next]_vars => VettedFS' /\ FitsFresh' /\ ScheduleHolds'
<1> SUFFICES ASSUME ScheduleInv, [Next]_vars
             PROVE  VettedFS' /\ FitsFresh' /\ ScheduleHolds'
  OBVIOUS
<1> TypeInv /\ NoLoop
  BY DEF ScheduleInv, LoopInv
<1>1. ASSUME NEW c \in Clients, NEW d \in Dep, AddBegin(c, d)
      PROVE  VettedFS' /\ FitsFresh' /\ ScheduleHolds'
  <2>1. \A b \in Clients : Moving(b)' => Moving(b) /\ tx'[b] = tx[b]
    BY <1>1 DEF AddBegin, TypeInv, Moving, Idle
  <2>2. UNCHANGED <<deps, vetted, start, due, movesRaced>>
    BY <1>1 DEF AddBegin
  <2> QED
    BY <2>1, <2>2, NothingMoves
<1>2. ASSUME NEW c \in Clients, AddCommit(c)
      PROVE  VettedFS' /\ FitsFresh' /\ ScheduleHolds'
  <2>1. VettedFS' /\ ScheduleHolds'
    BY <1>2 DEF AddCommit, ScheduleInv, VettedFS, ScheduleHolds, TypeInv
  <2>2. \A b \in Clients : Moving(b)' => Moving(b)
    BY <1>2 DEF AddCommit, TypeInv, Moving, Idle
  <2>3. FitsFresh'
    BY <1>2, <2>2 DEF AddCommit, FitsFresh
  <2> QED
    BY <2>1, <2>3
<1>3. ASSUME NEW c \in Clients, NEW x \in Items, NEW p \in Spans,
             MoveBegin(c, x, p[1], p[2])
      PROVE  VettedFS' /\ FitsFresh' /\ ScheduleHolds'
  <2> DEFINE t == [op |-> "move", item |-> x, start |-> p[1], due |-> p[2]]
  <2>1. tx'[c] = t /\ \A b \in Clients : b # c => tx'[b] = tx[b]
    BY <1>3 DEF MoveBegin, TypeInv
  <2>2. UNCHANGED <<deps, vetted, start, due, movesRaced>>
    BY <1>3 DEF MoveBegin
  <2>3. VettedFS' /\ ScheduleHolds'
    BY <2>2 DEF ScheduleInv, VettedFS, ScheduleHolds
  <2>4. ASSUME ~movesRaced', NEW b \in Clients, Moving(b)'
        PROVE  Fits(tx[b].item, tx[b].start, tx[b].due)'
    <3>1. CASE b = c
      <4>1. Fits(x, p[1], p[2])
        BY <1>3 DEF MoveBegin
      <4>2. tx'[b].item = x /\ tx'[b].start = p[1] /\ tx'[b].due = p[2]
        BY <2>1, <3>1
      <4> QED
        BY <4>1, <4>2, <2>2 DEF Fits, FS
    <3>2. CASE b # c
      <4>1. tx'[b] = tx[b] /\ Moving(b) /\ ~movesRaced
        BY <2>1, <2>2, <2>4, <3>2 DEF Moving
      <4>2. Fits(tx[b].item, tx[b].start, tx[b].due)
        BY <4>1 DEF ScheduleInv, FitsFresh
      <4> QED
        BY <4>1, <4>2, <2>2 DEF Fits, FS
    <3> QED
      BY <3>1, <3>2
  <2> QED
    BY <2>3, <2>4 DEF FitsFresh
<1>4. ASSUME NEW c \in Clients, MoveCommit(c)
      PROVE  VettedFS' /\ FitsFresh' /\ ScheduleHolds'
  <2>1. VettedFS'
    BY <1>4 DEF MoveCommit, ScheduleInv, VettedFS, FS
  <2>2. \A b \in Clients : Moving(b)' => Moving(b) /\ b # c
    BY <1>4 DEF MoveCommit, TypeInv, Moving, Idle
  <2>3. FitsFresh'
    BY <1>4, <2>2 DEF MoveCommit, FitsFresh
  <2>4. ASSUME ~movesRaced', NEW d \in vetted'
        PROVE  InOrder(due'[d.pre], start'[d.suc])
    <3> DEFINE x == tx[c].item
               s == tx[c].start
               f == tx[c].due
    <3>1. x \in Items /\ Fits(x, s, f) /\ ~movesRaced
      BY <1>4, <2>4, TxKinds DEF MoveCommit, ScheduleInv, FitsFresh, TypeInv
    <3>2. /\ start' = [start EXCEPT ![x] = s]
          /\ due' = [due EXCEPT ![x] = f]
          /\ vetted' = vetted \cup FS(x)
      BY <1>4 DEF MoveCommit, SetDates
    <3>3. d \in deps /\ d \in Dep /\ d.pre # d.suc /\ d.type = "FS"
      BY <2>4, <3>2 DEF ScheduleInv, VettedFS, TypeInv, NoLoop, FS
    <3>4. d.pre \in Items /\ d.suc \in Items
      BY <3>3 DEF Dep
    <3> HIDE DEF x, s, f
    <3>5. CASE d.suc = x
      <4>1. start'[d.suc] = s /\ due'[d.pre] = due[d.pre]
        BY <3>2, <3>3, <3>4, <3>5 DEF TypeInv
      <4>2. InOrder(due[d.pre], s)
        BY <3>1, <3>3, <3>5 DEF Fits, FS
      <4> QED
        BY <4>1, <4>2
    <3>6. CASE d.pre = x
      <4>1. start'[d.suc] = start[d.suc] /\ due'[d.pre] = f
        BY <3>2, <3>3, <3>4, <3>6 DEF TypeInv
      <4>2. InOrder(f, start[d.suc])
        BY <3>1, <3>3, <3>6 DEF Fits, FS
      <4> QED
        BY <4>1, <4>2
    <3>7. CASE x \notin {d.pre, d.suc}
      <4>1. start'[d.suc] = start[d.suc] /\ due'[d.pre] = due[d.pre]
        BY <3>2, <3>4, <3>7 DEF TypeInv
      <4>2. d \in vetted
        BY <2>4, <3>2, <3>7 DEF FS
      <4> QED
        BY <3>1, <4>1, <4>2 DEF ScheduleInv, ScheduleHolds
    <3> QED
      BY <3>5, <3>6, <3>7
  <2> QED
    BY <2>1, <2>3, <2>4 DEF ScheduleHolds, InOrder
<1>5. ASSUME NEW c \in Clients, Rollback(c)
      PROVE  VettedFS' /\ FitsFresh' /\ ScheduleHolds'
  <2>1. \A b \in Clients : Moving(b)' => Moving(b) /\ tx'[b] = tx[b]
    BY <1>5 DEF Rollback, TypeInv, Moving, Idle
  <2>2. UNCHANGED <<deps, vetted, start, due, movesRaced>>
    BY <1>5 DEF Rollback
  <2> QED
    BY <2>1, <2>2, NothingMoves
<1>6. ASSUME NEW d \in deps, RemoveDependency(d)
      PROVE  VettedFS' /\ FitsFresh' /\ ScheduleHolds'
  <2>1. /\ deps' \subseteq deps /\ vetted' \subseteq vetted
        /\ UNCHANGED <<start, due, movesRaced, tx>>
    BY <1>6 DEF RemoveDependency
  <2>2. \A b \in Clients : Moving(b)' => Moving(b) /\ tx'[b] = tx[b]
    BY <2>1 DEF Moving
  <2> QED
    BY <2>1, <2>2, NothingMoves
<1>7. ASSUME NEW x \in Items, NEW p \in Spans, Update(x, p[1], p[2])
      PROVE  VettedFS' /\ FitsFresh' /\ ScheduleHolds'
  <2>1. VettedFS'
    BY <1>7 DEF Update, ScheduleInv, VettedFS
  <2>2. FitsFresh'
    BY <1>7 DEF Update, FitsFresh, Moving
  <2>3. ASSUME ~movesRaced', NEW d \in vetted'
        PROVE  InOrder(due'[d.pre], start'[d.suc])
    <3>1. ~movesRaced /\ d \in vetted /\ x \notin {d.pre, d.suc}
      BY <1>7, <2>3 DEF Update
    <3>2. d.pre \in Items /\ d.suc \in Items
      BY <3>1 DEF TypeInv, Dep
    <3>3. start'[d.suc] = start[d.suc] /\ due'[d.pre] = due[d.pre]
      BY <1>7, <3>1, <3>2 DEF Update, SetDates, TypeInv
    <3> QED
      BY <3>1, <3>3 DEF ScheduleInv, ScheduleHolds
  <2> QED
    BY <2>1, <2>2, <2>3 DEF ScheduleHolds, InOrder
<1>8. CASE UNCHANGED vars
  <2>1. UNCHANGED <<deps, vetted, start, due, movesRaced, tx>>
    BY <1>8 DEF vars
  <2>2. \A b \in Clients : Moving(b)' => Moving(b) /\ tx'[b] = tx[b]
    BY <2>1 DEF Moving
  <2> QED
    BY <2>1, <2>2, NothingMoves
<1> QED
  BY <1>1, <1>2, <1>3, <1>4, <1>5, <1>6, <1>7, <1>8 DEF Next

(* A finish-to-start dependency that reschedule has tested holds, through  *)
(* later reschedules of either end, until an end is patched or writers of  *)
(* dates and dependencies overlap.                                         *)
THEOREM PlanScheduleHolds == Spec => []ScheduleHolds
<1>1. Init => ScheduleInv
  <2> SUFFICES ASSUME Init
               PROVE  ScheduleInv
    OBVIOUS
  <2>1. \A c \in Clients : ~Adding(c) /\ ~Moving(c)
    BY DEF Init, Adding, Moving, Idle
  <2>2. NoLoop /\ VettedFS /\ ScheduleHolds
    BY <2>1 DEF Init, NoLoop, VettedFS, ScheduleHolds
  <2> QED
    BY <2>1, <2>2, InitType DEF ScheduleInv, LoopInv, FitsFresh
<1>2. ScheduleInv /\ [Next]_vars => ScheduleInv'
  BY NextType, NextNoLoop, NextSchedule DEF ScheduleInv, LoopInv
<1>3. ScheduleInv => ScheduleHolds
  BY DEF ScheduleInv
<1> QED
  BY <1>1, <1>2, <1>3, PTL DEF Spec

-----------------------------------------------------------------------------
(* Case work.  The predicates below are about one row: its kind k, its     *)
(* state s, its columns F, the rows P that hang on it and the items n it   *)
(* has filed.                                                              *)

From(P, who) == {p \in P : p.who = who}
Everyone(P) == \A w \in People : \E p \in P : p.who = w
PartOK(p) == DOMAIN p = {"who", "round", "state"}
RoundsOf(P) == {p.round : p \in P}
Released == {"RELEASED", "DEPRECATED", "END_OF_LIFE"}

(* Who may hang on a row of kind k. *)
Hanging(k) ==
    CASE k = "request" -> {"none"}
      [] k \in {"directive", "announcement"} -> People
      [] k = "proposal" -> {"line"}
      [] k = "contract" -> {"line", "obligation", "bill"}
      [] OTHER -> {}

PartsOK(k, P) ==
    /\ \A p \in P : PartOK(p) /\ p.who \in Hanging(k)
    /\ k \in {"proposal", "contract"} => IsFiniteSet(P) /\ \E m \in Nat : RoundsOf(P) = 1 .. m
    /\ k = "contract" => \A p, q \in From(P, "obligation") : p.round = q.round => p = q

(* What the state claims is in the columns ... *)
ColumnsShow(k, s, F) ==
    /\ k = "ticket" /\ s \notin {"NONE", "NEW", "TRIAGED", "CANCELLED"} => "assigneeId" \in F
    /\ k \in {"ticket", "support"} /\ (s \in {"RESOLVED", "CLOSED"} \/ "csatScore" \in F) => "resolvedAt" \in F
    /\ k = "opportunity" => (s = "LOST" <=> "lostReason" \in F)
    /\ k = "version" => (s \in Released <=> "releasedAt" \in F)
    /\ k = "defect" /\ s = "CLOSED" /\ "severe" \in F => "rootCause" \in F
    /\ k = "assessment" /\ s = "APPROVED" => {"approverRole", "approvedAt"} \subseteq F
    /\ k = "work" /\ s = "IN_PROGRESS" => "actualStart" \in F
    /\ k = "contract" /\ s \in Live => "signature" \in F

(* ... and in the rows. *)
PartsShow(k, s, F, P, n) ==
    /\ k = "request" /\ s = "EXECUTING" => P # {}
    /\ k = "request" /\ s = "DONE" => \E p \in P : p.state = "completed"
    /\ k = "directive" /\ s \in {"ISSUED", "IN_PROGRESS", "COMPLETED"} => Everyone(P)
    /\ k = "announcement" /\ s \in {"PUBLISHED", "ARCHIVED"} => Everyone(P)
    /\ n \in Nat /\ ("escalatedItemId" \in F => n > 0)
    /\ k = "contract" => n = Cardinality(From(P, "obligation"))
    /\ \A b \in From(P, "bill") : b.state = "READY" =>
            \E p \in From(P, "obligation") : p.round = b.round /\ p.state = "COMPLETED"

(* What the handlers of the tables know of their transition. *)
Special == {"idle", "commitment", "stamp", "column", "escalate", "link", "line", "sum", "sign", "bill"}

OpFits(t, k) ==
    /\ t.op \in {"execute", "evidence"} => k = "request"
    /\ t.op = "issue" => k = "directive"
    /\ t.op = "publish" => k = "announcement"
    /\ k = "request" => (t.to = "EXECUTING" => t.op = "execute") /\ (t.to = "DONE" => t.op = "evidence")
    /\ t.op = "evidence" => PartOK(t.part) /\ t.part.who = "none"
    /\ k = "directive" => t.to # "IN_PROGRESS" /\ (t.to = "ISSUED" => t.op = "issue")
    /\ k = "announcement" => (t.to = "PUBLISHED" => t.op = "publish")
    /\ k \in {"ticket", "support"} => (t.to = "RESOLVED" => t.op = "resolve")
    /\ t.seen \subseteq {"lostReason", "releasedAt", "approverRole", "approvedAt"}
    /\ t.to # "NONE" /\ t.from # "NONE"

MoveInv(t, k, F, P) ==
    /\ OpFits(t, k)
    /\ k = "ticket" /\ t.to \notin {"TRIAGED", "CANCELLED"} /\ t.op \notin {"assign", "claim"} => "assigneeId" \in F
    /\ k \in {"ticket", "support"} /\ t.to = "CLOSED" => "resolvedAt" \in F
    /\ k = "directive" /\ t.to = "COMPLETED" => Everyone(P)
    /\ k = "announcement" /\ t.to = "ARCHIVED" => Everyone(P)
    /\ k = "opportunity" => "lostReason" \notin t.seen
    /\ k = "version" => (t.to \in Released <=> "releasedAt" \in t.seen \/ t.to = "RELEASED")
    /\ k = "defect" /\ t.to = "CLOSED" /\ "severe" \in F => "rootCause" \in F \/ t.note = "text"
    /\ k = "assessment" /\ t.to = "APPROVED" => t.note = "text"
    /\ k = "contract" /\ t.to \in Live \ {"EFFECTIVE"} => "signature" \in F

(* What any handler knows. *)
CallInv(t, k, F, P, n) ==
    /\ t.op \notin Special => MoveInv(t, k, F, P)
    /\ t.op \in Special => "to" \notin DOMAIN t
    /\ t.op = "commitment" => k = "directive" /\ PartOK(t.part) /\ t.part.who \in People
                                /\ (t.progress => Everyone(P))
    /\ t.op = "stamp" => k = "announcement"
    /\ t.op = "column" => \/ k = "ticket" /\ t.col = "csatScore" /\ "resolvedAt" \in F
                          \/ k = "support" /\ t.col = "assigneeId"
    /\ t.op = "escalate" => k = "support"
    /\ t.op = "link" => k = "support" /\ n > 0
    /\ t.op \in {"line", "sum"} => k \in {"proposal", "contract"}
    /\ t.op = "sign" => k = "contract"
    /\ t.op = "bill" => /\ k = "contract"
                        /\ t.part.state = "COMPLETED" =>
                              \E p \in From(P, "obligation") : p.round = t.part.round /\ p.state = "COMPLETED"
                        /\ \E p \in From(P, "obligation") : p.round = t.part.round

(* What no write takes back. *)
Lasts(k, F, P, n, F2, P2, n2) ==
    /\ k \in {"ticket", "support", "defect", "contract"} => F \ {"requiresApproval"} \subseteq F2
    /\ k = "defect" /\ "severe" \in F2 => "severe" \in F
    /\ Everyone(P) => Everyone(P2)
    /\ n \in Nat /\ n2 \in Nat /\ n <= n2
    /\ \A p \in From(P, "obligation") : \E q \in From(P2, "obligation") :
          q.round = p.round /\ (p.state = "COMPLETED" => q.state = "COMPLETED")

(* What an open handler knows stays true under every write that lasts. *)
LEMMA CallLasts ==
    ASSUME NEW t, NEW k, NEW F, NEW P, NEW n, NEW F2, NEW P2, NEW n2,
           CallInv(t, k, F, P, n), Lasts(k, F, P, n, F2, P2, n2)
    PROVE  CallInv(t, k, F2, P2, n2)
<1>1. MoveInv(t, k, F, P) => MoveInv(t, k, F2, P2)
  BY DEF Lasts, MoveInv
<1>2. t.op = "bill" => /\ t.part.state = "COMPLETED" =>
                             \E p \in From(P2, "obligation") : p.round = t.part.round /\ p.state = "COMPLETED"
                       /\ \E p \in From(P2, "obligation") : p.round = t.part.round
  BY DEF Lasts, CallInv
<1> QED
  BY <1>1, <1>2 DEF Lasts, CallInv

-----------------------------------------------------------------------------
(* The tables *)

(* A transition of kind k by action a from s to s2. *)
TableOK(k, a, s, s2) ==
    /\ a \notin Special /\ s # "NONE" /\ s2 # "NONE"
    /\ a \in {"execute", "evidence"} => k = "request"
    /\ a = "issue" => k = "directive"
    /\ a = "publish" => k = "announcement"
    /\ k = "request" => /\ s2 = "EXECUTING" <=> a = "execute"
                        /\ s2 = "DONE" <=> a = "evidence"
                        /\ a = "execute" => s = "APPROVED"
                        /\ s = "EXECUTING" <=> a = "evidence"
                        /\ s # "DONE"
    /\ k = "directive" => /\ s2 \notin {"IN_PROGRESS", "DRAFT"}
                          /\ s2 = "ISSUED" <=> a = "issue"
                          /\ a = "issue" => s = "DRAFT"
                          /\ s2 = "COMPLETED" => s \in {"ISSUED", "IN_PROGRESS"}
    /\ k = "announcement" => /\ s2 = "PUBLISHED" => a = "publish"
                             /\ s2 = "ARCHIVED" => s = "PUBLISHED"
    /\ k = "ticket" /\ s2 \notin {"TRIAGED", "CANCELLED"} /\ a \notin {"assign", "claim"}
            => s \notin {"NEW", "TRIAGED", "CANCELLED"}
    /\ k \in {"ticket", "support"} => /\ s2 = "RESOLVED" => a = "resolve"
                                      /\ s2 = "CLOSED" => s = "RESOLVED"
    /\ k = "opportunity" => s # "LOST"
    /\ k = "version" => (s2 \in Released <=> s \in Released \/ s2 = "RELEASED")
    /\ k = "proposal" /\ s2 \in {"SENT", "ACCEPTED", "EXPIRED"} => s \in {"APPROVED", "SENT"}
    /\ k = "contract" => /\ s \notin PRE_SIGNING_STATUSES => s2 \notin PRE_SIGNING_STATUSES
                         /\ s2 \in Live \ {"EFFECTIVE"} => s \in Live

(* What a member of a table kept by state says. *)
LEMMA LegalMoves ==
    ASSUME NEW next, NEW r \in Legal(next), NEW s \in r.from
    PROVE  s \in DOMAIN next /\ r.to \in next[s] /\ r.action = "transition"
BY DEF Legal, Tr

(* The tables by action ... *)
LEMMA ActionTables ==
    ASSUME kind \in {"request", "ticket", "support", "directive", "announcement"},
           NEW r \in Table, NEW s \in r.from
    PROVE  TableOK(kind, r.action, s, r.to)
<1>1. CASE kind = "request"
  BY <1>1 DEF Table, REQUEST_TRANSITIONS, REVIEWABLE, Tr, TableOK, Special
<1>2. CASE kind = "ticket"
  BY <1>2 DEF Table, TICKET_TRANSITIONS, Tr, TableOK, Special
<1>3. CASE kind = "support"
  BY <1>3 DEF Table, SUPPORT_CASE_TRANSITIONS, Tr, TableOK, Special
<1>4. CASE kind = "directive"
  BY <1>4 DEF Table, DIRECTIVE_TRANSITIONS, Tr, TableOK, Special
<1>5. CASE kind = "announcement"
  BY <1>5 DEF Table, ANNOUNCEMENT_TRANSITIONS, Tr, TableOK, Special
<1> QED
  BY <1>1, <1>2, <1>3, <1>4, <1>5

(* ... those by state ... *)
LEMMA StateTables ==
    ASSUME kind \in {"opportunity", "proposal", "contract", "version", "defect", "assessment", "work"},
           NEW r \in Table, NEW s \in r.from
    PROVE  TableOK(kind, r.action, s, r.to)
<1>1. CASE kind = "opportunity"
  <2>1. r \in OPPORTUNITY_TRANSITIONS
    BY <1>1 DEF Table
  <2> QED
    BY <1>1, <2>1, LegalMoves DEF OPPORTUNITY_TRANSITIONS, TableOK, Special
<1>2. CASE kind = "proposal"
  <2>1. r \in PROPOSAL_TRANSITIONS
    BY <1>2 DEF Table
  <2> QED
    BY <1>2, <2>1, LegalMoves DEF PROPOSAL_TRANSITIONS, TableOK, Special
<1>3. CASE kind = "contract"
  <2>1. r \in CONTRACT_TRANSITIONS
    BY <1>3 DEF Table
  <2> QED
    BY <1>3, <2>1, LegalMoves DEF CONTRACT_TRANSITIONS, TableOK, Special, PRE_SIGNING_STATUSES, Live
<1>4. CASE kind = "version"
  <2>1. r \in VERSION_TRANSITIONS
    BY <1>4 DEF Table
  <2> QED
    BY <1>4, <2>1, LegalMoves DEF VERSION_TRANSITIONS, TableOK, Special, Released
<1>5. CASE kind = "defect"
  <2>1. r \in DEFECT_TRANSITIONS
    BY <1>5 DEF Table
  <2> QED
    BY <1>5, <2>1, LegalMoves DEF DEFECT_TRANSITIONS, TableOK, Special
<1>6. CASE kind = "assessment"
  <2>1. r \in ASSESSMENT_TRANSITIONS
    BY <1>6 DEF Table
  <2> QED
    BY <1>6, <2>1, LegalMoves DEF ASSESSMENT_TRANSITIONS, TableOK, Special
<1>7. CASE kind = "work"
  <2>1. r \in WORK_TRANSITIONS
    BY <1>7 DEF Table
  <2> QED
    BY <1>7, <2>1, LegalMoves DEF WORK_TRANSITIONS, TableOK, Special
<1> QED
  BY <1>1, <1>2, <1>3, <1>4, <1>5, <1>6, <1>7

(* ... and so all of them keep to TableOK. *)
LEMMA TableSteps ==
    ASSUME kind \in Kinds, NEW r \in Table, NEW s \in r.from
    PROVE  TableOK(kind, r.action, s, r.to)
BY ActionTables, StateTables DEF Kinds

-----------------------------------------------------------------------------
(* The invariant of a row and its handlers *)

CaseInv ==
    /\ kind \in Kinds
    /\ DOMAIN call = Callers
    /\ PartsOK(kind, parts)
    /\ ColumnsShow(kind, state, filled)
    /\ PartsShow(kind, state, filled, parts, items)
    /\ \A c \in Callers : CallInv(call[c], kind, filled, parts, items)
    /\ state = "NONE" => filled = {} /\ parts = {} /\ \A c \in Callers : call[c] = NoCall

(* A client without a handler knows nothing. *)
LEMMA NoCallInv ==
    ASSUME NEW k, NEW F, NEW P, NEW n
    PROVE  CallInv(NoCall, k, F, P, n)
BY DEF CallInv, NoCall, Special

(* A handler reads, or gives up: the row stays as it is. *)
LEMMA Opens ==
    ASSUME CaseInv, NEW c \in Callers, NEW q, CallInv(q, kind, filled, parts, items),
           call' = [call EXCEPT ![c] = q], state # "NONE", UNCHANGED row
    PROVE  CaseInv'
<1>1. kind' = kind /\ state' = state /\ filled' = filled /\ parts' = parts /\ items' = items
  BY DEF row
<1>2. DOMAIN call' = Callers /\ \A d \in Callers : CallInv(call'[d], kind, filled, parts, items)
  BY DEF CaseInv
<1> QED
  BY <1>1, <1>2 DEF CaseInv

(* A handler writes: what the others know of the row lasts. *)
LEMMA Closes ==
    ASSUME CaseInv, NEW c \in Callers, NEW q, CallInv(q, kind, filled', parts', items'),
           call' = [call EXCEPT ![c] = q], state' # "NONE", kind' = kind,
           Lasts(kind, filled, parts, items, filled', parts', items'),
           PartsOK(kind, parts'), ColumnsShow(kind, state', filled'),
           PartsShow(kind, state', filled', parts', items')
    PROVE  CaseInv'
<1>1. DOMAIN call' = Callers /\ \A d \in Callers : call'[d] = q \/ call'[d] = call[d]
  BY DEF CaseInv
<1>2. ASSUME NEW d \in Callers PROVE CallInv(call'[d], kind, filled', parts', items')
  <2>1. CallInv(call[d], kind, filled, parts, items)
    BY DEF CaseInv
  <2>2. CallInv(call[d], kind, filled', parts', items')
    BY ONLY <2>1, Lasts(kind, filled, parts, items, filled', parts', items'), CallLasts
  <2> QED
    BY <1>1, <2>2
<1> QED
  BY <1>1, <1>2 DEF CaseInv

(* What is ready to be billed among P2 is completed among P. *)
Billed(P2, P) ==
    \A b \in From(P2, "bill") : b.state = "READY" =>
        \E p \in From(P, "obligation") : p.round = b.round /\ p.state = "COMPLETED"

(* A write that leaves the obligations, the hanging rows, the items alone. *)
LEMMA SameItems ==
    ASSUME NEW k, NEW s, NEW F, NEW P, NEW n, NEW F2, NEW P2, k \in {"proposal", "contract"},
           PartsShow(k, s, F, P, n), From(P2, "obligation") = From(P, "obligation"),
           "escalatedItemId" \in F2 => "escalatedItemId" \in F,
           Billed(P2, P),
           F \ {"requiresApproval"} \subseteq F2, P \subseteq P2
    PROVE  PartsShow(k, s, F2, P2, n) /\ Lasts(k, F, P, n, F2, P2, n)
<1>1. n \in Nat /\ n <= n
  BY DEF PartsShow
<1>2. Everyone(P) => Everyone(P2)
  BY DEF Everyone
<1>3. PartsShow(k, s, F2, P2, n)
  BY DEF PartsShow, Billed
<1>4. Lasts(k, F, P, n, F2, P2, n)
  BY <1>1, <1>2 DEF Lasts
<1> QED
  BY <1>3, <1>4

(* A write that leaves the hanging rows alone lasts if the columns do. *)
LEMMA SamePartsLast ==
    ASSUME NEW k, NEW s, NEW F, NEW P, NEW n, NEW F2, PartsShow(k, s, F, P, n),
           k \in {"ticket", "support", "defect", "contract"} => F \ {"requiresApproval"} \subseteq F2,
           k = "defect" /\ "severe" \in F2 => "severe" \in F
    PROVE  Lasts(k, F, P, n, F2, P, n)
BY DEF PartsShow, Lasts

-----------------------------------------------------------------------------
(* Write *)

(* After the UPDATE the columns show what the new state claims. *)
LEMMA WriteColumns ==
    ASSUME kind \in Kinds, ColumnsShow(kind, state, filled), NEW t, MoveInv(t, kind, filled, parts),
           kind = "contract" /\ t.to = "EFFECTIVE" => "signature" \in filled
    PROVE  ColumnsShow(kind, t.to, FilledAfter(t))
<1> USE DEF ColumnsShow, MoveInv, OpFits, FilledAfter, WrittenBack, Clears, Fills
<1>1. CASE kind \in {"ticket", "support"}
  BY <1>1
<1>2. CASE kind \in {"request", "directive", "announcement", "proposal"}
  BY <1>2
<1>3. CASE kind = "opportunity"
  BY <1>3
<1>4. CASE kind = "version"
  BY <1>4 DEF Released
<1>5. CASE kind = "defect"
  BY <1>5
<1>6. CASE kind = "assessment"
  BY <1>6
<1>7. CASE kind = "work"
  BY <1>7
<1>8. CASE kind = "contract"
  BY <1>8
<1> QED
  BY <1>1, <1>2, <1>3, <1>4, <1>5, <1>6, <1>7, <1>8 DEF Kinds

(* The columns that the UPDATE of a transition leaves alone. *)
LEMMA WriteKeeps ==
    ASSUME kind \in Kinds, NEW t, MoveInv(t, kind, filled, parts)
    PROVE  /\ kind \in {"ticket", "support", "defect", "contract"} => filled \subseteq FilledAfter(t)
           /\ kind = "defect" /\ "severe" \in FilledAfter(t) => "severe" \in filled
           /\ "escalatedItemId" \in FilledAfter(t) => "escalatedItemId" \in filled
<1> USE DEF MoveInv, OpFits, FilledAfter, WrittenBack, Clears, Fills
<1>1. kind \in {"ticket", "support", "defect", "contract"} => filled \subseteq FilledAfter(t)
  OBVIOUS
<1>2. kind = "defect" /\ "severe" \in FilledAfter(t) => "severe" \in filled
  OBVIOUS
<1>3. "escalatedItemId" \notin Fills(t) /\ "escalatedItemId" \notin t.seen
  OBVIOUS
<1>4. "escalatedItemId" \in FilledAfter(t) => "escalatedItemId" \in filled
  BY <1>3
<1> QED
  BY <1>1, <1>2, <1>4

(* The hanging rows of a request. *)
LEMMA RequestParts ==
    ASSUME kind = "request", PartsOK(kind, parts), PartsShow(kind, state, filled, parts, items),
           NEW t, MoveInv(t, kind, filled, parts), NEW F2, "escalatedItemId" \in F2 => "escalatedItemId" \in filled
    PROVE  /\ PartsOK(kind, PartsAfter(t))
           /\ PartsShow(kind, t.to, F2, PartsAfter(t), items)
           /\ Lasts(kind, filled, parts, items, F2, PartsAfter(t), items)
<1>1. \A p \in parts : PartOK(p) /\ p.who = "none"
  BY DEF PartsOK, Hanging
<1>2. OpFits(t, kind)
  BY DEF MoveInv
<1>3. PartsAfter(t) = IF t.op = "execute" THEN Executing ELSE IF t.op = "evidence" THEN Evidenced(t.part) ELSE parts
  BY <1>2 DEF OpFits, PartsAfter
<1>4. \A p \in PartsAfter(t) : PartOK(p) /\ p.who = "none"
  BY <1>1, <1>2, <1>3 DEF OpFits, Executing, Evidenced, Part, PartOK
<1>5. From(parts, "obligation") = {} /\ From(PartsAfter(t), "obligation") = {} /\ From(PartsAfter(t), "bill") = {}
  BY <1>1, <1>4 DEF From
<1>6. ~Everyone(parts)
  BY <1>1, CaseworkAssumption DEF Everyone
<1>7. t.to = "EXECUTING" => PartsAfter(t) # {}
  BY <1>2, <1>3 DEF OpFits, Executing
<1>8. t.to = "DONE" => \E p \in PartsAfter(t) : p.state = "completed"
  <2>1. t.to = "DONE" => PartsAfter(t) = Evidenced(t.part) /\ PartOK(t.part)
    BY <1>2, <1>3 DEF OpFits
  <2>2. PartOK(t.part) => [t.part EXCEPT !.state = "completed"].state = "completed"
    BY DEF PartOK
  <2> QED
    BY <2>1, <2>2 DEF Evidenced
<1>9. PartsOK(kind, PartsAfter(t))
  BY <1>4 DEF PartsOK, Hanging
<1>10. PartsShow(kind, t.to, F2, PartsAfter(t), items)
  BY <1>5, <1>7, <1>8 DEF PartsShow
<1>11. Lasts(kind, filled, parts, items, F2, PartsAfter(t), items)
  BY <1>5, <1>6 DEF Lasts, PartsShow
<1> QED
  BY <1>9, <1>10, <1>11

(* The commitments of a directive, the receipts of an announcement. *)
LEMMA AudienceParts ==
    ASSUME kind \in {"directive", "announcement"}, PartsOK(kind, parts),
           PartsShow(kind, state, filled, parts, items),
           NEW t, MoveInv(t, kind, filled, parts), NEW F2, "escalatedItemId" \in F2 => "escalatedItemId" \in filled
    PROVE  /\ PartsOK(kind, PartsAfter(t))
           /\ PartsShow(kind, t.to, F2, PartsAfter(t), items)
           /\ Lasts(kind, filled, parts, items, F2, PartsAfter(t), items)
<1>1. \A p \in parts : PartOK(p) /\ p.who \in People
  BY DEF PartsOK, Hanging
<1>2. OpFits(t, kind)
  BY DEF MoveInv
<1>3. /\ PartsAfter(t) = IF t.op = "issue" THEN Issued ELSE IF t.op = "publish" THEN Published ELSE parts
      /\ t.op = "issue" => kind = "directive"
      /\ t.op = "publish" => kind = "announcement"
  BY <1>2 DEF OpFits, PartsAfter
<1>4. parts \subseteq PartsAfter(t) /\ \A p \in PartsAfter(t) : PartOK(p) /\ p.who \in People
  BY <1>1, <1>3 DEF Issued, Published, Part, PartOK
<1>5. From(parts, "obligation") = {} /\ From(PartsAfter(t), "obligation") = {} /\ From(PartsAfter(t), "bill") = {}
  BY <1>1, <1>4, CaseworkAssumption DEF From
<1>6. t.op \in {"issue", "publish"} => Everyone(PartsAfter(t))
  <2>1. Everyone(Issued)
    <3>1. ASSUME NEW w \in People PROVE \E p \in Issued : p.who = w
      <4>1. Part(w, "ASSIGNED") \in Issued /\ Part(w, "ASSIGNED").who = w
        BY DEF Issued, Part
      <4> QED
        BY <4>1
    <3> QED
      BY <3>1 DEF Everyone
  <2>2. Everyone(Published)
    <3>1. ASSUME NEW w \in People, \A p \in parts : p.who # w PROVE \E p \in Published : p.who = w
      <4>1. Part(w, "NEW") \in Published /\ Part(w, "NEW").who = w
        BY <3>1 DEF Published, Part
      <4> QED
        BY <4>1
    <3> QED
      BY <3>1 DEF Everyone, Published
  <2> QED
    BY <1>3, <2>1, <2>2
<1>7. Everyone(parts) => Everyone(PartsAfter(t))
  BY <1>4 DEF Everyone
<1>8. PartsOK(kind, PartsAfter(t))
  BY <1>4 DEF PartsOK, Hanging
<1>9. PartsShow(kind, t.to, F2, PartsAfter(t), items)
  BY <1>2, <1>3, <1>5, <1>6, <1>7 DEF PartsShow, OpFits, MoveInv
<1>10. Lasts(kind, filled, parts, items, F2, PartsAfter(t), items)
  BY <1>5, <1>7 DEF Lasts, PartsShow
<1> QED
  BY <1>8, <1>9, <1>10

(* The rows of the other kinds, but for a contract that becomes effective. *)
LEMMA OtherParts ==
    ASSUME kind \in Kinds \ {"request", "directive", "announcement"}, PartsOK(kind, parts),
           PartsShow(kind, state, filled, parts, items),
           NEW t, MoveInv(t, kind, filled, parts), ~(kind = "contract" /\ t.to = "EFFECTIVE"),
           NEW F2, "escalatedItemId" \in F2 => "escalatedItemId" \in filled
    PROVE  PartsAfter(t) = parts /\ PartsShow(kind, t.to, F2, parts, items)
<1>1. OpFits(t, kind)
  BY DEF MoveInv
<1>2. PartsAfter(t) = parts
  BY <1>1 DEF OpFits, PartsAfter
<1> QED
  BY <1>2 DEF PartsShow

(* A contract that becomes effective: the obligations are made once. *)
LEMMA EffectiveParts ==
    ASSUME kind = "contract", PartsOK(kind, parts), PartsShow(kind, state, filled, parts, items),
           NEW t, MoveInv(t, kind, filled, parts), t.to = "EFFECTIVE",
           NEW F2, filled \subseteq F2, "escalatedItemId" \in F2 => "escalatedItemId" \in filled,
           NEW n2, n2 = items + Cardinality(Obligations)
    PROVE  /\ PartsOK(kind, PartsAfter(t))
           /\ PartsShow(kind, t.to, F2, PartsAfter(t), n2)
           /\ Lasts(kind, filled, parts, items, F2, PartsAfter(t), n2)
<1>1. OpFits(t, kind)
  BY DEF MoveInv
<1>2. PICK O : O = Obligations
  OBVIOUS
<1>3. PICK P2 : P2 = parts \cup O
  OBVIOUS
<1>4. PartsAfter(t) = P2
  BY <1>1, <1>2, <1>3 DEF OpFits, PartsAfter
<1>5. /\ \A o \in O : /\ PartOK(o) /\ o.who = "obligation" /\ o.state = "PENDING"
                       /\ o.round \in RoundsOf(parts)
      /\ \A o, q \in O : o.round = q.round => o = q
      /\ From(parts, "obligation") # {} => O = {}
  BY <1>2 DEF Obligations, PartOK, RoundsOf, Of, From
<1>6. IsFiniteSet(O) /\ IsFiniteSet(P2) /\ IsFiniteSet(From(parts, "obligation"))
  <2>1. IsFiniteSet(parts)
    BY DEF PartsOK
  <2>2. PICK L : L = {p \in Of("line") : p.state = "MILESTONE"}
    OBVIOUS
  <2>3. IsFiniteSet(L) /\ IsFiniteSet(From(parts, "obligation"))
    BY <2>1, <2>2, FS_Subset DEF Of, From
  <2>4. IsFiniteSet({[who |-> "obligation", round |-> l.round, state |-> "PENDING"] : l \in L})
    <3>1. PICK T : T = {[who |-> "obligation", round |-> l.round, state |-> "PENDING"] : l \in L}
      OBVIOUS
    <3>2. PICK f : f = [l \in L |-> [who |-> "obligation", round |-> l.round, state |-> "PENDING"]]
      OBVIOUS
    <3>3. f \in Surjection(L, T)
      BY <3>1, <3>2 DEF Surjection
    <3> QED
      BY <2>3, <3>1, <3>3, FS_Surjection
  <2>5. IsFiniteSet(O)
    BY <1>2, <2>2, <2>4, FS_EmptySet DEF Obligations
  <2> QED
    BY <1>3, <2>1, <2>3, <2>5, FS_Union
<1>7. RoundsOf(P2) = RoundsOf(parts)
  BY <1>3, <1>5 DEF RoundsOf
<1>8. From(P2, "obligation") = From(parts, "obligation") \cup O /\ From(P2, "bill") = From(parts, "bill")
  BY <1>3, <1>5 DEF From
<1>9. PartsOK(kind, P2)
  <2>1. \A p \in P2 : PartOK(p) /\ p.who \in Hanging(kind)
    BY <1>3, <1>5 DEF PartsOK, Hanging
  <2>2. \A p, q \in From(P2, "obligation") : p.round = q.round => p = q
    BY <1>5, <1>8 DEF PartsOK
  <2> QED
    BY <1>6, <1>7, <2>1, <2>2 DEF PartsOK
<1>10. n2 = Cardinality(From(P2, "obligation")) /\ n2 \in Nat /\ items <= n2
  <2>1. items \in Nat /\ items = Cardinality(From(parts, "obligation")) /\ Cardinality(O) \in Nat
    BY <1>6, FS_CardinalityType DEF PartsShow
  <2>2. Cardinality({}) = 0
    BY FS_EmptySet
  <2>3. CASE O = {}
    <3>1. From(P2, "obligation") = From(parts, "obligation") /\ Cardinality(O) = 0
      BY <1>8, <2>2, <2>3
    <3> QED
      BY <1>2, <2>1, <3>1
  <2>4. CASE O # {}
    <3>1. From(parts, "obligation") = {} /\ items = 0 /\ From(P2, "obligation") = O
      BY <1>5, <1>8, <2>1, <2>2, <2>4
    <3> QED
      BY <1>2, <2>1, <3>1
  <2> QED
    BY <2>3, <2>4
<1>11. PartsShow(kind, t.to, F2, P2, n2)
  BY <1>8, <1>10 DEF PartsShow
<1>12. Lasts(kind, filled, parts, items, F2, P2, n2)
  <2>1. Everyone(parts) => Everyone(P2)
    BY <1>3 DEF Everyone
  <2> QED
    BY <1>8, <1>10, <2>1 DEF Lasts, PartsShow
<1> QED
  BY <1>4, <1>9, <1>11, <1>12

(* The UPDATE of a transition, whatever the row has become since. *)
LEMMA WriteStep ==
    ASSUME CaseInv, NEW c \in Callers, Write(c)
    PROVE  CaseInv'
<1>1. PICK t : t = call[c]
  OBVIOUS
<1>2. kind = "contract" /\ t.to = "EFFECTIVE" => "signature" \in filled
  BY <1>1 DEF Write
<1>3. MoveInv(t, kind, filled, parts)
  BY <1>1 DEF Write, CaseInv, CallInv
<1>4. /\ state' = t.to /\ filled' = FilledAfter(t) /\ parts' = PartsAfter(t) /\ kind' = kind
      /\ call' = [call EXCEPT ![c] = NoCall]
      /\ items' = items + IF kind = "contract" /\ t.to = "EFFECTIVE" THEN Cardinality(Obligations) ELSE 0
  BY <1>1 DEF Write, End
<1>5. /\ kind \in {"ticket", "support", "defect", "contract"} => filled \subseteq filled'
      /\ kind = "defect" /\ "severe" \in filled' => "severe" \in filled
      /\ "escalatedItemId" \in filled' => "escalatedItemId" \in filled
  BY <1>3, <1>4, WriteKeeps DEF CaseInv
<1>6. ColumnsShow(kind, state', filled')
  BY <1>2, <1>3, <1>4, WriteColumns DEF CaseInv
<1>7. /\ PartsOK(kind, parts') /\ PartsShow(kind, state', filled', parts', items')
      /\ Lasts(kind, filled, parts, items, filled', parts', items')
  <2>0. kind \in Kinds /\ PartsOK(kind, parts) /\ PartsShow(kind, state, filled, parts, items) /\ items \in Nat
    BY DEF CaseInv, PartsShow
  <2>1. CASE kind = "request"
    <3>1. items' = items
      BY <1>4, <2>0, <2>1
    <3> QED
      BY <1>3, <1>4, <1>5, <2>0, <2>1, <3>1, RequestParts
  <2>2. CASE kind \in {"directive", "announcement"}
    <3>1. items' = items
      BY <1>4, <2>0, <2>2
    <3> QED
      BY <1>3, <1>4, <1>5, <2>0, <2>2, <3>1, AudienceParts
  <2>3. CASE kind \notin {"request", "directive", "announcement"} /\ ~(kind = "contract" /\ t.to = "EFFECTIVE")
    <3>1. items' = items
      BY <1>4, <2>0, <2>3
    <3>2. parts' = parts /\ PartsShow(kind, state', filled', parts', items')
      BY <1>3, <1>4, <1>5, <2>0, <2>3, <3>1, OtherParts
    <3> QED
      BY <1>5, <2>0, <3>1, <3>2, SamePartsLast
  <2>4. CASE kind = "contract" /\ t.to = "EFFECTIVE"
    <3>1. items' = items + Cardinality(Obligations)
      BY <1>4, <2>4
    <3> QED
      BY <1>3, <1>4, <1>5, <2>0, <2>4, <3>1, EffectiveParts
  <2> QED
    BY <2>1, <2>2, <2>3, <2>4
<1>8. state' # "NONE"
  BY <1>3, <1>4 DEF MoveInv, OpFits
<1>9. CallInv(NoCall, kind, filled', parts', items')
  BY NoCallInv
<1> QED
  BY <1>4, <1>6, <1>7, <1>8, <1>9, Closes

-----------------------------------------------------------------------------
(* The handlers that read *)

LEMMA LoadStep ==
    ASSUME CaseInv, NEW c \in Callers, NEW r \in Table, NEW p \in parts \cup {NoPart}, NEW note \in Notes,
           Load(c, r, p, note)
    PROVE  CaseInv'
<1>1. PICK q : q = [op |-> r.action, from |-> state, to |-> r.to, part |-> p,
                    note |-> note, seen |-> filled \cap WrittenBack]
  OBVIOUS
<1>2. /\ q.op = r.action /\ q.from = state /\ q.to = r.to /\ q.part = p /\ q.note = note
      /\ q.seen = filled \cap WrittenBack
  BY <1>1
<1>3. TableOK(kind, q.op, state, q.to)
  BY <1>2, TableSteps DEF Load, CaseInv
<1>4. call' = [call EXCEPT ![c] = q] /\ UNCHANGED row
  BY <1>1 DEF Load, Begin
<1>5. q.op = "evidence" => PartOK(q.part) /\ q.part.who = "none"
  BY <1>2, <1>3 DEF Load, CaseInv, PartsOK, Hanging, TableOK
<1>6. OpFits(q, kind)
  <2>1. q.seen \subseteq {"lostReason", "releasedAt", "approverRole", "approvedAt"}
    BY <1>2 DEF WrittenBack
  <2> QED
    BY ONLY <1>2, <1>3, <1>5, <2>1 DEF OpFits, TableOK
<1>7. MoveInv(q, kind, filled, parts)
  <2>1. Needs(r, note) /\ ColumnsShow(kind, state, filled) /\ PartsShow(kind, state, filled, parts, items)
    BY DEF Load, CaseInv
  <2>2. /\ kind = "ticket" /\ q.to \notin {"TRIAGED", "CANCELLED"} /\ q.op \notin {"assign", "claim"}
              => "assigneeId" \in filled
        /\ kind \in {"ticket", "support"} /\ q.to = "CLOSED" => "resolvedAt" \in filled
        /\ kind = "contract" /\ q.to \in Live \ {"EFFECTIVE"} => "signature" \in filled
    BY ONLY <1>2, <1>3, <2>1 DEF TableOK, ColumnsShow
  <2>6. /\ kind = "directive" /\ q.to = "COMPLETED" => Everyone(parts)
        /\ kind = "announcement" /\ q.to = "ARCHIVED" => Everyone(parts)
    BY ONLY <1>2, <1>3, <2>1 DEF TableOK, PartsShow
  <2>3. kind = "opportunity" => "lostReason" \notin q.seen
    BY <1>2, <1>3, <2>1 DEF TableOK, ColumnsShow
  <2>4. kind = "version" => (q.to \in Released <=> "releasedAt" \in q.seen \/ q.to = "RELEASED")
    BY <1>2, <1>3, <2>1 DEF TableOK, ColumnsShow, WrittenBack
  <2>5. kind \in {"defect", "assessment"} => MoveInv(q, kind, filled, parts)
    BY <1>2, <1>6, <2>1 DEF MoveInv, Needs
  <2> QED
    BY <1>6, <2>2, <2>3, <2>4, <2>5, <2>6 DEF MoveInv
<1>8. CallInv(q, kind, filled, parts, items)
  BY <1>3, <1>7 DEF CallInv, TableOK, Special
<1>9. state # "NONE"
  BY <1>3 DEF TableOK
<1> QED
  BY <1>4, <1>8, <1>9, Opens

LEMMA LoadCommitmentStep ==
    ASSUME CaseInv, NEW c \in Callers, NEW r, NEW p \in parts, LoadCommitment(c, r, p)
    PROVE  CaseInv'
<1>1. PICK q : q = [op |-> "commitment", part |-> p, next |-> r.to,
                    progress |-> r.action \in {"acknowledge", "start"} /\ state = "ISSUED"]
  OBVIOUS
<1>2. /\ q.op = "commitment" /\ q.part = p /\ (q.progress => state = "ISSUED")
      /\ "to" \notin DOMAIN q
  BY <1>1
<1>3. PartOK(p) /\ p.who \in People /\ (q.progress => Everyone(parts)) /\ kind = "directive" /\ state # "NONE"
  BY <1>2 DEF LoadCommitment, CaseInv, PartsOK, Hanging, PartsShow
<1>4. CallInv(q, kind, filled, parts, items)
  BY <1>2, <1>3 DEF CallInv, Special
<1>5. call' = [call EXCEPT ![c] = q] /\ UNCHANGED row
  BY <1>1 DEF LoadCommitment, Begin
<1> QED
  BY <1>3, <1>4, <1>5, Opens

LEMMA StampStep ==
    ASSUME CaseInv, NEW c \in Callers, NEW p \in parts, NEW s, Stamp(c, p, s)
    PROVE  CaseInv'
<1>1. PICK q : q = [op |-> "stamp", part |-> p, next |-> s]
  OBVIOUS
<1>2. q.op = "stamp" /\ "to" \notin DOMAIN q /\ kind = "announcement" /\ state # "NONE"
  BY <1>1 DEF Stamp, CaseInv
<1>3. CallInv(q, kind, filled, parts, items)
  BY <1>2 DEF CallInv, Special
<1>4. call' = [call EXCEPT ![c] = q] /\ UNCHANGED row
  BY <1>1 DEF Stamp, Begin
<1> QED
  BY <1>2, <1>3, <1>4, Opens

LEMMA LoadColumnStep ==
    ASSUME CaseInv, NEW c \in Callers, LoadCsat(c) \/ LoadAssign(c)
    PROVE  CaseInv'
<1>1. PICK q : /\ q = [op |-> "column", col |-> "csatScore"] \/ q = [op |-> "column", col |-> "assigneeId"]
               /\ q.col = "csatScore" => LoadCsat(c)
               /\ q.col = "assigneeId" => LoadAssign(c)
               /\ Begin(c, q)
  BY DEF LoadCsat, LoadAssign
<1>2. q.op = "column" /\ "to" \notin DOMAIN q /\ q.col \in {"csatScore", "assigneeId"}
  BY <1>1
<1>3. state # "NONE" /\ CallInv(q, kind, filled, parts, items)
  BY <1>1, <1>2 DEF LoadCsat, LoadAssign, CallInv, Special, CaseInv, ColumnsShow
<1>4. call' = [call EXCEPT ![c] = q] /\ UNCHANGED row
  BY <1>1 DEF Begin
<1> QED
  BY <1>3, <1>4, Opens

LEMMA EscalateLoadStep ==
    ASSUME CaseInv, NEW c \in Callers, EscalateLoad(c)
    PROVE  CaseInv'
<1>1. PICK q : q = [op |-> "escalate"]
  OBVIOUS
<1>2. q.op = "escalate" /\ "to" \notin DOMAIN q /\ kind = "support" /\ state # "NONE"
  BY <1>1 DEF EscalateLoad
<1>3. CallInv(q, kind, filled, parts, items)
  BY <1>2 DEF CallInv, Special
<1>4. call' = [call EXCEPT ![c] = q] /\ UNCHANGED row
  BY <1>1 DEF EscalateLoad, Begin
<1> QED
  BY <1>2, <1>3, <1>4, Opens

LEMMA LoadLineStep ==
    ASSUME CaseInv, NEW c \in Callers, NEW k, LoadLine(c, k)
    PROVE  CaseInv'
<1>1. PICK q : q = [op |-> "line", line |-> k]
  OBVIOUS
<1>2. q.op = "line" /\ "to" \notin DOMAIN q
  BY <1>1
<1>3. kind \in {"proposal", "contract"} /\ state # "NONE"
  BY DEF LoadLine, LineKinds, PRE_SIGNING_STATUSES
<1>4. CallInv(q, kind, filled, parts, items)
  BY <1>2, <1>3 DEF CallInv, Special
<1>5. call' = [call EXCEPT ![c] = q] /\ UNCHANGED row
  BY <1>1 DEF LoadLine, Begin
<1> QED
  BY <1>3, <1>4, <1>5, Opens

(* Who is at work has a row. *)
LEMMA Working ==
    ASSUME CaseInv, NEW c \in Callers, call[c].op # "idle"
    PROVE  state # "NONE" /\ CallInv(call[c], kind, filled, parts, items)
BY DEF CaseInv, NoCall

LEMMA SumLinesStep ==
    ASSUME CaseInv, NEW c \in Callers, SumLines(c)
    PROVE  CaseInv'
<1>1. PICK q : q = [op |-> "sum", line |-> call[c].line, sum |-> Cardinality(Of("line")) + 1,
                    approval |-> \E s \in {call[c].line} \cup {p.state : p \in Of("line")} : s = "discounted"]
  OBVIOUS
<1>2. q.op = "sum" /\ "to" \notin DOMAIN q
  BY <1>1
<1>3. kind \in {"proposal", "contract"} /\ state # "NONE"
  BY Working DEF SumLines, CallInv
<1>4. CallInv(q, kind, filled, parts, items)
  BY <1>2, <1>3 DEF CallInv, Special
<1>5. call' = [call EXCEPT ![c] = q] /\ UNCHANGED row
  BY <1>1 DEF SumLines
<1> QED
  BY <1>3, <1>4, <1>5, Opens

LEMMA LoadSignStep ==
    ASSUME CaseInv, NEW c \in Callers, LoadSign(c)
    PROVE  CaseInv'
<1>1. PICK q : q = [op |-> "sign", moves |-> state = "APPROVED"]
  OBVIOUS
<1>2. q.op = "sign" /\ "to" \notin DOMAIN q /\ kind = "contract" /\ state # "NONE"
  BY <1>1 DEF LoadSign
<1>3. CallInv(q, kind, filled, parts, items)
  BY <1>2 DEF CallInv, Special
<1>4. call' = [call EXCEPT ![c] = q] /\ UNCHANGED row
  BY <1>1 DEF LoadSign, Begin
<1> QED
  BY <1>2, <1>3, <1>4, Opens

LEMMA LoadBillStep ==
    ASSUME CaseInv, NEW c \in Callers, NEW p \in parts, LoadBill(c, p)
    PROVE  CaseInv'
<1>1. PICK q : q = [op |-> "bill", part |-> p]
  OBVIOUS
<1>2. q.op = "bill" /\ q.part = p /\ "to" \notin DOMAIN q /\ state # "NONE"
  BY <1>1 DEF LoadBill, CaseInv
<1>3. p \in From(parts, "obligation") /\ kind = "contract"
  BY CaseworkAssumption DEF LoadBill, Of, From, CaseInv, PartsOK, Hanging
<1>4. CallInv(q, kind, filled, parts, items)
  BY <1>2, <1>3 DEF CallInv, Special
<1>5. call' = [call EXCEPT ![c] = q] /\ UNCHANGED row
  BY <1>1 DEF LoadBill, Begin
<1> QED
  BY <1>2, <1>4, <1>5, Opens

LEMMA GiveUpStep ==
    ASSUME CaseInv, NEW c \in Callers, GiveUp(c)
    PROVE  CaseInv'
<1>1. call' = [call EXCEPT ![c] = NoCall] /\ UNCHANGED row /\ state # "NONE"
  BY DEF GiveUp, End, CaseInv
<1>2. CallInv(NoCall, kind, filled, parts, items)
  BY NoCallInv
<1> QED
  BY <1>1, <1>2, Opens

-----------------------------------------------------------------------------
(* The handlers that write *)

LEMMA WriteCommitmentStep ==
    ASSUME CaseInv, NEW c \in Callers, WriteCommitment(c)
    PROVE  CaseInv'
<1>1. PICK t : t = call[c]
  OBVIOUS
<1>2. /\ kind = "directive" /\ PartOK(t.part) /\ t.part.who \in People /\ (t.progress => Everyone(parts))
      /\ state # "NONE"
  BY <1>1, Working DEF WriteCommitment, CallInv
<1>3. /\ parts' = {p \in parts : <<p.who, p.round>> # <<t.part.who, t.part.round>>}
                     \cup {[t.part EXCEPT !.state = t.next]}
      /\ state' = IF t.progress THEN "IN_PROGRESS" ELSE state
      /\ kind' = kind /\ filled' = filled /\ items' = items /\ call' = [call EXCEPT ![c] = NoCall]
  BY <1>1 DEF WriteCommitment, End
<1>4. PICK x : x = [t.part EXCEPT !.state = t.next]
  OBVIOUS
<1>5. PartOK(x) /\ x.who = t.part.who
  BY <1>2, <1>4 DEF PartOK
<1>6. \A p \in parts : PartOK(p) /\ p.who \in People
  BY <1>2 DEF CaseInv, PartsOK, Hanging
<1>7. \A p \in parts' : PartOK(p) /\ p.who \in People
  BY <1>2, <1>3, <1>4, <1>5, <1>6
<1>8. Everyone(parts) => Everyone(parts')
  <2>1. x \in parts' /\ \A p \in parts : p.who # t.part.who => p \in parts'
    BY <1>3, <1>4
  <2> QED
    BY <1>5, <2>1 DEF Everyone
<1>9. From(parts, "obligation") = {} /\ From(parts', "obligation") = {} /\ From(parts', "bill") = {}
  BY <1>6, <1>7, CaseworkAssumption DEF From
<1>10. PartsOK(kind, parts')
  BY <1>2, <1>7 DEF PartsOK, Hanging
<1>11. PartsShow(kind, state', filled', parts', items')
  BY <1>2, <1>3, <1>8, <1>9 DEF CaseInv, PartsShow
<1>12. Lasts(kind, filled, parts, items, filled', parts', items')
  BY <1>2, <1>3, <1>8, <1>9 DEF CaseInv, PartsShow, Lasts
<1>13. ColumnsShow(kind, state', filled')
  BY <1>2 DEF ColumnsShow
<1>14. CallInv(NoCall, kind, filled', parts', items') /\ state' # "NONE"
  BY <1>2, <1>3, NoCallInv
<1> QED
  BY <1>3, <1>10, <1>11, <1>12, <1>13, <1>14, Closes

LEMMA WriteStampStep ==
    ASSUME CaseInv, NEW c \in Callers, WriteStamp(c)
    PROVE  CaseInv'
<1>1. PICK t : t = call[c]
  OBVIOUS
<1>2. kind = "announcement" /\ state # "NONE"
  BY <1>1, Working DEF WriteStamp, CallInv
<1>3. /\ parts' = {IF p.who = t.part.who /\ p.state # "ACKNOWLEDGED"
                   THEN [p EXCEPT !.state = t.next] ELSE p : p \in parts}
      /\ state' = state /\ kind' = kind /\ filled' = filled /\ items' = items
      /\ call' = [call EXCEPT ![c] = NoCall]
  BY <1>1 DEF WriteStamp, End
<1>4. \A p \in parts : PartOK(p) /\ p.who \in People
  BY <1>2 DEF CaseInv, PartsOK, Hanging
<1>5. ASSUME NEW p \in parts PROVE \E q \in parts' : q.who = p.who
  <2>1. PICK q : q = IF p.who = t.part.who /\ p.state # "ACKNOWLEDGED" THEN [p EXCEPT !.state = t.next] ELSE p
    OBVIOUS
  <2>2. q \in parts'
    BY <1>3, <2>1
  <2>3. q.who = p.who
    BY <1>4, <2>1 DEF PartOK
  <2> QED
    BY <2>2, <2>3
<1>6. \A p \in parts' : PartOK(p) /\ p.who \in People
  BY <1>3, <1>4 DEF PartOK
<1>7. Everyone(parts) => Everyone(parts')
  BY <1>5 DEF Everyone
<1>8. From(parts, "obligation") = {} /\ From(parts', "obligation") = {} /\ From(parts', "bill") = {}
  BY <1>4, <1>6, CaseworkAssumption DEF From
<1>9. PartsOK(kind, parts')
  BY <1>2, <1>6 DEF PartsOK, Hanging
<1>10. PartsShow(kind, state', filled', parts', items')
  BY <1>2, <1>3, <1>7, <1>8 DEF CaseInv, PartsShow
<1>11. Lasts(kind, filled, parts, items, filled', parts', items')
  BY <1>2, <1>3, <1>7, <1>8 DEF CaseInv, PartsShow, Lasts
<1>12. ColumnsShow(kind, state', filled')
  BY <1>2 DEF ColumnsShow
<1>13. CallInv(NoCall, kind, filled', parts', items')
  BY NoCallInv
<1> QED
  BY <1>2, <1>3, <1>9, <1>10, <1>11, <1>12, <1>13, Closes

LEMMA WriteColumnStep ==
    ASSUME CaseInv, NEW c \in Callers, WriteColumn(c)
    PROVE  CaseInv'
<1>1. PICK t : t = call[c]
  OBVIOUS
<1>2. state # "NONE" /\ (\/ kind = "ticket" /\ t.col = "csatScore" /\ "resolvedAt" \in filled
                         \/ kind = "support" /\ t.col = "assigneeId")
  BY <1>1, Working DEF WriteColumn, CallInv
<1>3. /\ filled' = filled \cup {t.col} /\ state' = state /\ kind' = kind /\ parts' = parts /\ items' = items
      /\ call' = [call EXCEPT ![c] = NoCall]
  BY <1>1 DEF WriteColumn, End
<1>4. ColumnsShow(kind, state', filled')
  BY <1>2, <1>3 DEF CaseInv, ColumnsShow
<1>5. PartsShow(kind, state', filled', parts', items')
  BY <1>2, <1>3 DEF CaseInv, PartsShow
<1>6. Lasts(kind, filled, parts, items, filled', parts', items')
  BY <1>2, <1>3, SamePartsLast DEF CaseInv
<1>7. CallInv(NoCall, kind, filled', parts', items') /\ PartsOK(kind, parts')
  BY <1>3, NoCallInv DEF CaseInv
<1> QED
  BY <1>2, <1>3, <1>4, <1>5, <1>6, <1>7, Closes

LEMMA EscalatePostStep ==
    ASSUME CaseInv, NEW c \in Callers, EscalatePost(c)
    PROVE  CaseInv'
<1>1. kind = "support" /\ state # "NONE" /\ items \in Nat
  BY Working DEF EscalatePost, CallInv, CaseInv, PartsShow
<1>2. PICK q : q = [op |-> "link"]
  OBVIOUS
<1>3. /\ items' = items + 1 /\ state' = state /\ kind' = kind /\ parts' = parts /\ filled' = filled
      /\ call' = [call EXCEPT ![c] = q]
  BY <1>2 DEF EscalatePost
<1>4. q.op = "link" /\ "to" \notin DOMAIN q /\ items' > 0 /\ items' \in Nat /\ items <= items'
  BY <1>1, <1>2, <1>3
<1>5. CallInv(q, kind, filled', parts', items')
  BY <1>1, <1>4 DEF CallInv, Special
<1>6. PartsShow(kind, state', filled', parts', items')
  BY <1>1, <1>3, <1>4 DEF CaseInv, PartsShow
<1>7. Lasts(kind, filled, parts, items, filled', parts', items')
  BY <1>1, <1>3, <1>4 DEF CaseInv, PartsShow, Lasts
<1>8. ColumnsShow(kind, state', filled') /\ PartsOK(kind, parts')
  BY <1>3 DEF CaseInv
<1> QED
  BY <1>1, <1>3, <1>5, <1>6, <1>7, <1>8, Closes

LEMMA EscalateLinkStep ==
    ASSUME CaseInv, NEW c \in Callers, EscalateLink(c)
    PROVE  CaseInv'
<1>1. kind = "support" /\ state # "NONE" /\ items > 0
  BY Working DEF EscalateLink, CallInv
<1>2. /\ filled' = filled \cup {"escalatedItemId"} /\ state' = state /\ kind' = kind /\ parts' = parts
      /\ items' = items /\ call' = [call EXCEPT ![c] = NoCall]
  BY DEF EscalateLink, End
<1>3. ColumnsShow(kind, state', filled')
  BY <1>1, <1>2 DEF CaseInv, ColumnsShow
<1>4. PartsShow(kind, state', filled', parts', items')
  BY <1>1, <1>2 DEF CaseInv, PartsShow
<1>5. Lasts(kind, filled, parts, items, filled', parts', items')
  BY <1>1, <1>2, SamePartsLast DEF CaseInv
<1>6. CallInv(NoCall, kind, filled', parts', items') /\ PartsOK(kind, parts')
  BY <1>2, NoCallInv DEF CaseInv
<1> QED
  BY <1>1, <1>2, <1>3, <1>4, <1>5, <1>6, Closes

LEMMA WriteSignStep ==
    ASSUME CaseInv, NEW c \in Callers, WriteSign(c)
    PROVE  CaseInv'
<1>1. kind = "contract" /\ state # "NONE"
  BY Working DEF WriteSign, CallInv
<1>2. /\ filled' = filled \cup {"signature"} /\ state' \in {state, "SIGNING"} /\ kind' = kind /\ parts' = parts
      /\ items' = items /\ call' = [call EXCEPT ![c] = NoCall]
  BY DEF WriteSign, End
<1>3. ColumnsShow(kind, state', filled')
  BY <1>1, <1>2 DEF CaseInv, ColumnsShow
<1>4. PartsShow(kind, state', filled', parts', items')
  BY <1>1, <1>2 DEF CaseInv, PartsShow
<1>5. Lasts(kind, filled, parts, items, filled', parts', items')
  BY <1>1, <1>2, SamePartsLast DEF CaseInv
<1>6. CallInv(NoCall, kind, filled', parts', items') /\ PartsOK(kind, parts') /\ state' # "NONE"
  BY <1>1, <1>2, NoCallInv DEF CaseInv
<1> QED
  BY <1>2, <1>3, <1>4, <1>5, <1>6, Closes

(* A new part of a proposal or contract has a round of its own. *)
LEMMA NewRound ==
    ASSUME PartsOK(kind, parts), kind \in {"proposal", "contract"}, NEW who, NEW s
    PROVE  /\ Rounds + 1 \notin RoundsOf(parts)
           /\ Rounds \in Nat
           /\ RoundsOf(parts \cup {Part(who, s)}) = 1 .. (Rounds + 1)
           /\ PartOK(Part(who, s)) /\ Part(who, s).who = who /\ Part(who, s).state = s
           /\ Part(who, s) \notin parts
<1>1. PICK m \in Nat : RoundsOf(parts) = 1 .. m
  BY DEF PartsOK
<1>2. Rounds = m
  <2>1. Cardinality(1 .. m) = m
    BY FS_Interval
  <2> QED
    BY <1>1, <2>1 DEF Rounds, RoundsOf
<1>3. PICK x : x = Part(who, s)
  OBVIOUS
<1>4. PartOK(x) /\ x.who = who /\ x.state = s /\ x.round = m + 1
  BY <1>2, <1>3 DEF Part, PartOK
<1>5. RoundsOf(parts \cup {x}) = RoundsOf(parts) \cup {m + 1}
  BY <1>4 DEF RoundsOf
<1>6. m + 1 \notin RoundsOf(parts) /\ RoundsOf(parts) \cup {m + 1} = 1 .. (m + 1)
  BY <1>1
<1>7. x \notin parts
  BY ONLY <1>4, <1>6 DEF RoundsOf
<1> QED
  BY ONLY <1>1, <1>2, <1>3, <1>4, <1>5, <1>6, <1>7

LEMMA WriteLineStep ==
    ASSUME CaseInv, NEW c \in Callers, WriteLine(c)
    PROVE  CaseInv'
<1>1. PICK t : t = call[c]
  OBVIOUS
<1>2. kind \in {"proposal", "contract"} /\ state # "NONE"
  BY <1>1, Working DEF WriteLine, CallInv
<1>3. PICK x : x = Part("line", t.line)
  OBVIOUS
<1>4. /\ parts' = parts \cup {x} /\ state' = state /\ kind' = kind /\ items' = items
      /\ filled' = (filled \ {"requiresApproval"}) \cup IF t.approval THEN {"requiresApproval"} ELSE {}
      /\ call' = [call EXCEPT ![c] = NoCall]
  BY <1>1, <1>3 DEF WriteLine, End
<1>5. PartOK(x) /\ x.who = "line" /\ Rounds \in Nat /\ RoundsOf(parts') = 1 .. (Rounds + 1)
  BY <1>2, <1>3, <1>4, NewRound DEF CaseInv
<1>6. From(parts', "obligation") = From(parts, "obligation") /\ From(parts', "bill") = From(parts, "bill")
  BY <1>4, <1>5 DEF From
<1>7. PartsOK(kind, parts')
  <2>1. IsFiniteSet(parts')
    BY <1>2, <1>4, FS_AddElement DEF CaseInv, PartsOK
  <2>2. \A p \in parts' : PartOK(p) /\ p.who \in Hanging(kind)
    BY <1>2, <1>4, <1>5 DEF CaseInv, PartsOK, Hanging
  <2> QED
    BY <1>2, <1>5, <1>6, <2>1, <2>2 DEF CaseInv, PartsOK
<1>8. /\ PartsShow(kind, state', filled', parts', items')
      /\ Lasts(kind, filled, parts, items, filled', parts', items')
  <2>1. Billed(parts', parts)
    BY <1>6 DEF CaseInv, PartsShow, Billed
  <2>2. PartsShow(kind, state, filled, parts, items)
    BY DEF CaseInv
  <2>3. parts \subseteq parts' /\ filled \ {"requiresApproval"} \subseteq filled'
        /\ ("escalatedItemId" \in filled' => "escalatedItemId" \in filled)
    BY <1>4
  <2> QED
    <3>1. /\ PartsShow(kind, state, filled', parts', items)
          /\ Lasts(kind, filled, parts, items, filled', parts', items)
      BY ONLY <1>2, <1>6, <2>1, <2>2, <2>3, SameItems
    <3> QED
      BY ONLY <1>4, <3>1
<1>10. ColumnsShow(kind, state', filled')
  BY <1>2, <1>4 DEF CaseInv, ColumnsShow
<1>11. CallInv(NoCall, kind, filled', parts', items')
  BY NoCallInv
<1> QED
  BY <1>2, <1>4, <1>7, <1>8, <1>10, <1>11, Closes

LEMMA WriteBillStep ==
    ASSUME CaseInv, NEW c \in Callers, WriteBill(c)
    PROVE  CaseInv'
<1>1. PICK t : t = call[c]
  OBVIOUS
<1>2. /\ kind = "contract" /\ state # "NONE"
      /\ t.part.state = "COMPLETED" =>
            \E p \in From(parts, "obligation") : p.round = t.part.round /\ p.state = "COMPLETED"
      /\ \E p \in From(parts, "obligation") : p.round = t.part.round
  BY <1>1, Working DEF WriteBill, CallInv
<1>3. PICK x : x = [who |-> "bill", round |-> t.part.round,
                    state |-> IF t.part.state = "COMPLETED" THEN "READY" ELSE "BLOCKED"]
  OBVIOUS
<1>4. /\ parts' = parts \cup {x} /\ state' = state /\ kind' = kind /\ items' = items /\ filled' = filled
      /\ call' = [call EXCEPT ![c] = NoCall]
  BY <1>1, <1>3 DEF WriteBill, End
<1>5. PartOK(x) /\ x.who = "bill" /\ x.round = t.part.round /\ (x.state = "READY" => t.part.state = "COMPLETED")
  BY <1>3 DEF PartOK
<1>6. RoundsOf(parts') = RoundsOf(parts)
  BY <1>2, <1>4, <1>5 DEF RoundsOf, From
<1>7. From(parts', "obligation") = From(parts, "obligation") /\ From(parts', "bill") = From(parts, "bill") \cup {x}
  BY <1>4, <1>5 DEF From
<1>8. PartsOK(kind, parts')
  <2>1. IsFiniteSet(parts')
    BY <1>2, <1>4, FS_AddElement DEF CaseInv, PartsOK
  <2>2. \A p \in parts' : PartOK(p) /\ p.who \in Hanging(kind)
    BY <1>2, <1>4, <1>5 DEF CaseInv, PartsOK, Hanging
  <2> QED
    BY <1>2, <1>6, <1>7, <2>1, <2>2 DEF CaseInv, PartsOK
<1>9. /\ PartsShow(kind, state', filled', parts', items')
      /\ Lasts(kind, filled, parts, items, filled', parts', items')
  <2>1. Billed(parts', parts)
    BY <1>2, <1>5, <1>7 DEF CaseInv, PartsShow, Billed
  <2>2. PartsShow(kind, state, filled, parts, items)
    BY DEF CaseInv
  <2>3. parts \subseteq parts' /\ filled \ {"requiresApproval"} \subseteq filled'
        /\ ("escalatedItemId" \in filled' => "escalatedItemId" \in filled)
    BY <1>4
  <2> QED
    <3>1. /\ PartsShow(kind, state, filled', parts', items)
          /\ Lasts(kind, filled, parts, items, filled', parts', items)
      BY ONLY <1>2, <1>7, <2>1, <2>2, <2>3, SameItems
    <3> QED
      BY ONLY <1>4, <3>1
<1>11. ColumnsShow(kind, state', filled') /\ CallInv(NoCall, kind, filled', parts', items')
  BY <1>4, NoCallInv DEF CaseInv
<1> QED
  BY <1>2, <1>4, <1>8, <1>9, <1>11, Closes

LEMMA CompleteObligationStep ==
    ASSUME CaseInv, NEW p \in parts, CompleteObligation(p)
    PROVE  CaseInv'
<1>1. p \in From(parts, "obligation") /\ kind = "contract" /\ PartOK(p)
  BY CaseworkAssumption DEF CompleteObligation, Of, From, CaseInv, PartsOK, Hanging
<1>2. PICK x : x = [p EXCEPT !.state = "COMPLETED"]
  OBVIOUS
<1>3. /\ parts' = (parts \ {p}) \cup {x} /\ state' = state /\ kind' = kind /\ items' = items /\ filled' = filled
      /\ call' = call
  BY <1>2 DEF CompleteObligation
<1>4. PartOK(x) /\ x.who = "obligation" /\ x.round = p.round /\ x.state = "COMPLETED"
  BY <1>1, <1>2 DEF PartOK, From
<1>5. RoundsOf(parts') = RoundsOf(parts)
  BY <1>1, <1>3, <1>4 DEF RoundsOf, From
<1>6. /\ From(parts', "obligation") = (From(parts, "obligation") \ {p}) \cup {x}
      /\ From(parts', "bill") = From(parts, "bill")
  BY <1>1, <1>3, <1>4 DEF From
<1>7. \A o, q \in From(parts, "obligation") : o.round = q.round => o = q
  BY <1>1 DEF CaseInv, PartsOK
<1>8. PartsOK(kind, parts')
  <2>1. IsFiniteSet(parts')
    BY <1>1, <1>3, FS_AddElement, FS_RemoveElement DEF CaseInv, PartsOK
  <2>2. \A q \in parts' : PartOK(q) /\ q.who \in Hanging(kind)
    BY <1>1, <1>3, <1>4 DEF CaseInv, PartsOK, Hanging
  <2>3. \A o, q \in From(parts', "obligation") : o.round = q.round => o = q
    BY <1>1, <1>4, <1>6, <1>7
  <2> QED
    BY <1>1, <1>5, <2>1, <2>2, <2>3 DEF CaseInv, PartsOK
<1>9. Cardinality(From(parts', "obligation")) = Cardinality(From(parts, "obligation"))
  <2>1. PICK O : O = From(parts, "obligation")
    OBVIOUS
  <2>2. IsFiniteSet(O)
    BY <1>1, <2>1, FS_Subset DEF CaseInv, PartsOK, From
  <2>3. x \notin O \ {p}
    BY <1>1, <1>4, <1>7, <2>1
  <2>4. /\ IsFiniteSet(O \ {p}) /\ Cardinality(O \ {p}) = Cardinality(O) - 1 /\ Cardinality(O) \in Nat
    BY <1>1, <2>1, <2>2, FS_RemoveElement, FS_CardinalityType
  <2>5. Cardinality((O \ {p}) \cup {x}) = Cardinality(O \ {p}) + 1
    BY <2>3, <2>4, FS_AddElement
  <2>6. Cardinality((O \ {p}) \cup {x}) = Cardinality(O)
    BY ONLY <2>4, <2>5
  <2> QED
    BY ONLY <1>6, <2>1, <2>6
<1>10. Lasts(kind, filled, parts, items, filled', parts', items')
  <2>1. Everyone(parts) => Everyone(parts')
    BY <1>1, <1>3, <1>4 DEF Everyone, From
  <2>2. \A o \in From(parts, "obligation") : \E q \in From(parts', "obligation") :
            q.round = o.round /\ (o.state = "COMPLETED" => q.state = "COMPLETED")
    BY <1>4, <1>6
  <2>3. items \in Nat /\ items' = items /\ filled' = filled /\ items <= items
    BY <1>3 DEF CaseInv, PartsShow
  <2> QED
    BY ONLY <1>1, <2>1, <2>2, <2>3 DEF Lasts
<1>11. PartsShow(kind, state', filled', parts', items')
  <2>1. \A b \in From(parts', "bill") : b.state = "READY" =>
            \E q \in From(parts', "obligation") : q.round = b.round /\ q.state = "COMPLETED"
    BY <1>4, <1>6 DEF CaseInv, PartsShow
  <2> QED
    BY <1>1, <1>3, <1>9, <2>1 DEF CaseInv, PartsShow
<1>12. ASSUME NEW d \in Callers PROVE CallInv(call[d], kind, filled', parts', items')
  <2>1. CallInv(call[d], kind, filled, parts, items)
    BY DEF CaseInv
  <2> QED
    BY ONLY <1>10, <2>1, CallLasts
<1>13. state # "NONE"
  BY DEF CaseInv
<1> QED
  BY <1>3, <1>8, <1>11, <1>12, <1>13 DEF CaseInv

LEMMA CreateStep ==
    ASSUME CaseInv, Create
    PROVE  CaseInv'
<1>1. /\ kind' = kind /\ parts' = parts /\ items' = items /\ call' = call /\ state' \in Initially
      /\ parts = {} /\ filled = {} /\ \A c \in Callers : call[c] = NoCall
  BY DEF Create, CaseInv
<1>2. /\ filled' \in {{}, {"severe"}, {"actualStart"}}
      /\ "severe" \in filled' => kind = "defect"
      /\ "actualStart" \in filled' => kind = "work"
      /\ kind = "work" /\ state' = "IN_PROGRESS" => filled' = {"actualStart"}
  BY DEF Create
<1>3. state' \in {"NEW", "LEAD", "DRAFT"} \cup WORK_STATUSES /\ (kind # "work" => state' \in {"NEW", "LEAD", "DRAFT"})
      /\ (kind = "ticket" => state' = "NEW")
  BY <1>1 DEF Initially
<1>4. state' # "NONE"
  BY <1>3 DEF WORK_STATUSES
<1>5. ColumnsShow(kind, state', filled')
  BY <1>1, <1>2, <1>3 DEF ColumnsShow, Released, Live
<1>6. PartsShow(kind, state', filled', parts', items')
  BY <1>1, <1>2, <1>3 DEF CaseInv, PartsShow, From
<1>7. \A c \in Callers : CallInv(call'[c], kind, filled', parts', items')
  BY <1>1, NoCallInv
<1> QED
  BY <1>1, <1>4, <1>5, <1>6, <1>7 DEF CaseInv

(* The invariant holds before create, and every step keeps it. *)
LEMMA InitCase ==
    CaseInit => CaseInv
<1> SUFFICES ASSUME CaseInit PROVE CaseInv
  OBVIOUS
<1> USE DEF CaseInit
<1>1. From(parts, "obligation") = {} /\ From(parts, "bill") = {} /\ RoundsOf(parts) = {} /\ {} = 1 .. 0
  BY DEF From, RoundsOf
<1>2. PartsOK(kind, parts)
  <2>1. 0 \in Nat /\ RoundsOf(parts) = 1 .. 0
    BY <1>1
  <2>2. \E m \in Nat : RoundsOf(parts) = 1 .. m
    BY ONLY <2>1
  <2> QED
    BY <1>1, <2>2, FS_EmptySet DEF PartsOK
<1>3. PartsShow(kind, state, filled, parts, items)
  BY <1>1, FS_EmptySet DEF PartsShow
<1>4. ColumnsShow(kind, state, filled)
  BY DEF ColumnsShow, Released, Live
<1> QED
  BY <1>2, <1>3, <1>4, NoCallInv DEF CaseInv

LEMMA NextCase ==
    CaseInv /\ [CaseNext]_caseVars => CaseInv'
<1> SUFFICES ASSUME CaseInv, [CaseNext]_caseVars PROVE CaseInv'
  OBVIOUS
<1>1. ASSUME NEW c \in Callers,
             \E r \in Table, p \in parts \cup {NoPart}, note \in Notes : Load(c, r, p, note)
      PROVE  CaseInv'
  BY <1>1, LoadStep
<1>2. ASSUME NEW c \in Callers, \E r \in COMMITMENT_TRANSITIONS : \E p \in parts : LoadCommitment(c, r, p)
      PROVE  CaseInv'
  BY <1>2, LoadCommitmentStep
<1>3. ASSUME NEW c \in Callers, \E p \in parts, s \in {"READ", "ACKNOWLEDGED"} : Stamp(c, p, s)
      PROVE  CaseInv'
  BY <1>3, StampStep
<1>4. ASSUME NEW c \in Callers, LoadCsat(c) \/ LoadAssign(c) PROVE CaseInv'
  BY <1>4, LoadColumnStep
<1>5. ASSUME NEW c \in Callers, \E k \in LineKinds : LoadLine(c, k) PROVE CaseInv'
  BY <1>5, LoadLineStep
<1>6. ASSUME NEW c \in Callers, \E p \in parts : LoadBill(c, p) PROVE CaseInv'
  BY <1>6, LoadBillStep
<1>7. ASSUME NEW p \in parts, CompleteObligation(p) PROVE CaseInv'
  BY <1>7, CompleteObligationStep
<1>8. ASSUME UNCHANGED caseVars PROVE CaseInv'
  BY <1>8 DEF caseVars, row, CaseInv
<1> QED
  BY <1>1, <1>2, <1>3, <1>4, <1>5, <1>6, <1>7, <1>8, CreateStep, WriteStep, WriteCommitmentStep, WriteStampStep,
     WriteColumnStep, EscalateLoadStep, EscalatePostStep, EscalateLinkStep, SumLinesStep, WriteLineStep,
     LoadSignStep, WriteSignStep, WriteBillStep, GiveUpStep
  DEF CaseNext

LEMMA AlwaysCaseInv ==
    CaseSpec => []CaseInv
BY InitCase, NextCase, PTL DEF CaseSpec

(* A state never claims what the columns and rows do not show, whatever    *)
(* handlers race: what each has read and relies on - a link, a signature,  *)
(* a resolution, an obligation - is what no other handler's UPDATE by id   *)
(* takes back.                                                             *)
THEOREM CaseEvidence ==
    CaseSpec => []StateHasEvidence
<1>1. CaseInv => StateHasEvidence
  <2> SUFFICES ASSUME CaseInv PROVE StateHasEvidence
    OBVIOUS
  <2>1. Of("obligation") = From(parts, "obligation") /\ Of("bill") = From(parts, "bill")
    BY DEF Of, From
  <2>2. ColumnsShow(kind, state, filled) /\ PartsShow(kind, state, filled, parts, items)
    BY DEF CaseInv
  <2> QED
    BY <2>1, <2>2 DEF ColumnsShow, PartsShow, Released, Everyone, StateHasEvidence, EveryoneHasOne, Has
<1> QED
  BY <1>1, AlwaysCaseInv, PTL

-----------------------------------------------------------------------------
(* Handlers that do not overlap *)

Covered(P) ==
    \A l \in From(P, "line") : l.state = "MILESTONE" => \E p \in From(P, "obligation") : p.round = l.round
Discounted(P) == \E p \in P : p.state = "discounted"

(* The row agrees with what hangs on it: tot is the total. *)
RowAgrees(k, s, F, P, tot) ==
    /\ k = "request" =>
          IF s = "EXECUTING" THEN \E p \in P : P = {p} /\ p.state = "pending"
          ELSE IF s = "DONE" THEN \E p \in P : P = {p} /\ p.state = "completed"
          ELSE P = {}
    /\ k = "directive" => /\ \A p, q \in P : p.who = q.who => p = q
                          /\ s \in {"NONE", "DRAFT"} => P = {}
                          /\ s = "ISSUED" => \A p \in P : p.state = "ASSIGNED"
    /\ tot = Cardinality(From(P, "line"))
    /\ k = "proposal" => /\ "requiresApproval" \in F <=> Discounted(P)
                         /\ s \in {"APPROVED", "SENT", "ACCEPTED", "EXPIRED"} /\ Discounted(P) => "approverNote" \in F
    /\ k = "contract" => /\ "signature" \in F => s \notin PRE_SIGNING_STATUSES
                         /\ From(P, "obligation") # {} => "signature" \in F /\ Covered(P)
                         /\ s \in Live => Covered(P)
    /\ k = "work" /\ "completedAt" \in F => s = "DONE"

(* What the one open handler has read is still so. *)
Fresh(t, k, s, F, P) ==
    /\ t.op \notin Special =>
          /\ t.from = s /\ TableOK(k, t.op, s, t.to)
          /\ t.op = "evidence" => t.part \in P
          /\ k = "proposal" /\ t.to = "APPROVED" /\ "requiresApproval" \in F => t.note = "text"
    /\ t.op = "commitment" => t.part \in P /\ (s = "ISSUED" => t.progress)
    /\ t.op \in {"line", "sum"} => /\ k = "contract" => s \in PRE_SIGNING_STATUSES
                                   /\ k = "proposal" => s = "DRAFT"
    /\ t.op = "sum" => /\ t.sum = Cardinality(From(P, "line")) + 1
                       /\ k = "proposal" => (t.approval <=> t.line = "discounted" \/ Discounted(P))
    /\ t.op = "sign" => /\ s \in {"APPROVED", "SIGNING"}
                        /\ t.moves <=> s = "APPROVED"

SerialCase ==
    ~raced => /\ \A c, d \in Callers : call[c] # NoCall /\ call[d] # NoCall => c = d
              /\ \A c \in Callers : Fresh(call[c], kind, state, filled, parts)
              /\ RowAgrees(kind, state, filled, parts, total)

(* Without a handler, there is nothing to be stale. *)
LEMMA NoCallFresh ==
    ASSUME NEW k, NEW s, NEW F, NEW P
    PROVE  Fresh(NoCall, k, s, F, P)
BY DEF Fresh, NoCall, Special

(* Only proposals and contracts have lines. *)
LEMMA NoLines ==
    ASSUME NEW k \in Kinds \ {"proposal", "contract"}, NEW P, PartsOK(k, P)
    PROVE  From(P, "line") = {}
BY CaseworkAssumption DEF PartsOK, Hanging, From

(* A handler opens with what it has read. *)
LEMMA SerialOpens ==
    ASSUME CaseInv, SerialCase, NEW c \in Callers, NEW q, Begin(c, q),
           RowAgrees(kind, state, filled, parts, total) => Fresh(q, kind, state, filled, parts)
    PROVE  SerialCase'
<1>1. /\ kind' = kind /\ state' = state /\ filled' = filled /\ parts' = parts /\ total' = total
      /\ call' = [call EXCEPT ![c] = q] /\ DOMAIN call = Callers
      /\ ~raced' => ~raced /\ \A d \in Callers : call[d] = NoCall
  BY DEF Begin, row, CaseInv
<1>2. SUFFICES ASSUME ~raced' 
               PROVE  /\ \A x, d \in Callers : call'[x] # NoCall /\ call'[d] # NoCall => x = d
                      /\ \A d \in Callers : Fresh(call'[d], kind, state, filled, parts)
                      /\ RowAgrees(kind, state, filled, parts, total)
  BY <1>1 DEF SerialCase
<1>3. RowAgrees(kind, state, filled, parts, total) /\ Fresh(q, kind, state, filled, parts)
  BY <1>1, <1>2 DEF SerialCase
<1>4. \A d \in Callers : call'[d] = IF d = c THEN q ELSE NoCall
  BY <1>1, <1>2
<1> QED
  BY <1>3, <1>4, NoCallFresh

(* A handler goes on, or ends: nobody else is at work. *)
LEMMA SerialCloses ==
    ASSUME CaseInv, SerialCase, NEW c \in Callers, NEW q, call[c].op # "idle",
           call' = [call EXCEPT ![c] = q], raced' = raced,
           RowAgrees(kind, state, filled, parts, total) /\ Fresh(call[c], kind, state, filled, parts)
               => Fresh(q, kind', state', filled', parts') /\ RowAgrees(kind', state', filled', parts', total')
    PROVE  SerialCase'
<1>1. SUFFICES ASSUME ~raced
               PROVE  /\ \A x, d \in Callers : call'[x] # NoCall /\ call'[d] # NoCall => x = d
                      /\ \A d \in Callers : Fresh(call'[d], kind', state', filled', parts')
                      /\ RowAgrees(kind', state', filled', parts', total')
  BY DEF SerialCase
<1>2. /\ \A x, d \in Callers : call[x] # NoCall /\ call[d] # NoCall => x = d
      /\ Fresh(call[c], kind, state, filled, parts)
      /\ RowAgrees(kind, state, filled, parts, total)
  BY <1>1 DEF SerialCase
<1>3. Fresh(q, kind', state', filled', parts') /\ RowAgrees(kind', state', filled', parts', total')
  BY <1>2
<1>4. call[c] # NoCall
  BY DEF NoCall
<1>5. \A d \in Callers : call'[d] = IF d = c THEN q ELSE NoCall
  BY <1>2, <1>4 DEF CaseInv
<1> QED
  BY <1>3, <1>5, NoCallFresh

(* Handlers of a row whose parts are of no concern to the agreement. *)
LEMMA SerialEnds ==
    ASSUME CaseInv, SerialCase, NEW c \in Callers, call[c].op # "idle", End(c),
           RowAgrees(kind, state, filled, parts, total) /\ Fresh(call[c], kind, state, filled, parts)
               => RowAgrees(kind', state', filled', parts', total')
    PROVE  SerialCase'
<1>1. call' = [call EXCEPT ![c] = NoCall] /\ raced' = raced
  BY DEF End
<1>2. Fresh(NoCall, kind', state', filled', parts')
  BY NoCallFresh
<1> QED
  BY <1>1, <1>2, SerialCloses

(* Handlers whose reading the agreement does not depend on. *)
LEMMA SerialReads ==
    ASSUME CaseInv, SerialCase, NEW c \in Callers, NEW q, Begin(c, q),
           q.op \in {"stamp", "column", "escalate", "bill"}
    PROVE  SerialCase'
<1>1. Fresh(q, kind, state, filled, parts)
  BY DEF Fresh, Special
<1> QED
  BY <1>1, SerialOpens

LEMMA SerialLoad ==
    ASSUME CaseInv, SerialCase, NEW c \in Callers, NEW r \in Table, NEW p \in parts \cup {NoPart},
           NEW note \in Notes, Load(c, r, p, note)
    PROVE  SerialCase'
<1>1. PICK q : q = [op |-> r.action, from |-> state, to |-> r.to, part |-> p,
                    note |-> note, seen |-> filled \cap WrittenBack]
  OBVIOUS
<1>2. q.op = r.action /\ q.from = state /\ q.to = r.to /\ q.part = p /\ q.note = note
  BY <1>1
<1>3. TableOK(kind, q.op, state, q.to)
  BY <1>2, TableSteps DEF Load, CaseInv
<1>4. q.op = "evidence" => q.part \in parts
  BY <1>2 DEF Load
<1>5. kind = "proposal" /\ q.to = "APPROVED" /\ "requiresApproval" \in filled => q.note = "text"
  BY <1>2 DEF Load, Needs
<1>6. Fresh(q, kind, state, filled, parts)
  BY <1>2, <1>3, <1>4, <1>5 DEF Fresh, TableOK, Special
<1> QED
  BY <1>1, <1>6, SerialOpens DEF Load

LEMMA SerialLoadCommitment ==
    ASSUME CaseInv, SerialCase, NEW c \in Callers, NEW r \in COMMITMENT_TRANSITIONS, NEW p \in parts,
           LoadCommitment(c, r, p)
    PROVE  SerialCase'
<1>1. PICK q : q = [op |-> "commitment", part |-> p, next |-> r.to,
                    progress |-> r.action \in {"acknowledge", "start"} /\ state = "ISSUED"]
  OBVIOUS
<1>2. /\ q.op = "commitment" /\ q.part = p
      /\ q.progress <=> r.action \in {"acknowledge", "start"} /\ state = "ISSUED"
  BY <1>1
<1>3. ASSUME RowAgrees(kind, state, filled, parts, total) PROVE Fresh(q, kind, state, filled, parts)
  <2>1. state = "ISSUED" => "ASSIGNED" \in r.from
    BY <1>3 DEF RowAgrees, LoadCommitment
  <2>2. state = "ISSUED" => r.action = "acknowledge"
    BY <2>1 DEF COMMITMENT_TRANSITIONS, Tr
  <2> QED
    BY <1>2, <2>2 DEF Fresh, Special
<1> QED
  BY <1>1, <1>3, SerialOpens DEF LoadCommitment

LEMMA SerialLoadLine ==
    ASSUME CaseInv, SerialCase, NEW c \in Callers, NEW k, LoadLine(c, k)
    PROVE  SerialCase'
<1>1. PICK q : q = [op |-> "line", line |-> k]
  OBVIOUS
<1>2. q.op = "line"
  BY <1>1
<1>3. Fresh(q, kind, state, filled, parts)
  BY <1>2 DEF Fresh, Special, LoadLine
<1> QED
  BY <1>1, <1>3, SerialOpens DEF LoadLine

LEMMA SerialSumLines ==
    ASSUME CaseInv, SerialCase, NEW c \in Callers, SumLines(c)
    PROVE  SerialCase'
<1>1. PICK q : q = [op |-> "sum", line |-> call[c].line, sum |-> Cardinality(Of("line")) + 1,
                    approval |-> \E s \in {call[c].line} \cup {p.state : p \in Of("line")} : s = "discounted"]
  OBVIOUS
<1>2. /\ q.op = "sum" /\ q.line = call[c].line /\ q.sum = Cardinality(From(parts, "line")) + 1
      /\ q.approval <=> \E s \in {call[c].line} \cup {p.state : p \in From(parts, "line")} : s = "discounted"
  BY <1>1 DEF Of, From
<1>3. /\ kind' = kind /\ state' = state /\ filled' = filled /\ parts' = parts /\ total' = total
      /\ call' = [call EXCEPT ![c] = q] /\ raced' = raced /\ call[c].op = "line"
  BY <1>1 DEF SumLines, row
<1>4. kind = "proposal" => From(parts, "line") = parts
  BY DEF CaseInv, PartsOK, Hanging, From
<1>5. kind = "proposal" => (q.approval <=> q.line = "discounted" \/ Discounted(parts))
  BY <1>2, <1>4 DEF Discounted
<1>6. ASSUME Fresh(call[c], kind, state, filled, parts) PROVE Fresh(q, kind, state, filled, parts)
  BY <1>2, <1>3, <1>5, <1>6 DEF Fresh, Special
<1> QED
  BY <1>3, <1>6, SerialCloses

LEMMA SerialLoadSign ==
    ASSUME CaseInv, SerialCase, NEW c \in Callers, LoadSign(c)
    PROVE  SerialCase'
<1>1. PICK q : q = [op |-> "sign", moves |-> state = "APPROVED"]
  OBVIOUS
<1>2. q.op = "sign" /\ (q.moves <=> state = "APPROVED")
  BY <1>1
<1>3. Fresh(q, kind, state, filled, parts)
  BY <1>2 DEF Fresh, Special, LoadSign
<1> QED
  BY <1>1, <1>3, SerialOpens DEF LoadSign

-----------------------------------------------------------------------------
(* Write, when nobody else is at work, kind by kind *)

(* A request has one execution, pending, then completed. *)
LEMMA SerialRequest ==
    ASSUME kind = "request", PartsOK(kind, parts), NEW t, t.op \notin Special, OpFits(t, kind),
           RowAgrees(kind, state, filled, parts, total), Fresh(t, kind, state, filled, parts),
           PartsOK(kind, PartsAfter(t)), NEW F2
    PROVE  RowAgrees(kind, t.to, F2, PartsAfter(t), total)
<1>1. PICK P2 : P2 = PartsAfter(t)
  OBVIOUS
<1>2. P2 = IF t.op = "execute" THEN Executing ELSE IF t.op = "evidence" THEN Evidenced(t.part) ELSE parts
  BY <1>1 DEF OpFits, PartsAfter
<1>3. TableOK(kind, t.op, state, t.to) /\ (t.op = "evidence" => t.part \in parts)
  BY DEF Fresh
<1>4. From(parts, "line") = {} /\ From(P2, "line") = {}
  BY <1>1, NoLines DEF Kinds
<1>5. total = Cardinality(From(P2, "line"))
  BY <1>4 DEF RowAgrees
<1>6. CASE t.op = "execute"
  <2>1. parts = {} /\ t.to = "EXECUTING"
    BY <1>3, <1>6 DEF TableOK, RowAgrees
  <2>2. PICK x : x = Part("none", "pending")
    OBVIOUS
  <2>3. x.state = "pending"
    BY <2>2 DEF Part
  <2>4. P2 = {x}
    BY <1>2, <1>6, <2>1, <2>2 DEF Executing
  <2> QED
    BY <1>1, <1>5, <2>1, <2>3, <2>4 DEF RowAgrees
<1>7. CASE t.op = "evidence"
  <2>1. state = "EXECUTING" /\ t.to = "DONE"
    BY <1>3, <1>7 DEF TableOK
  <2>2. parts = {t.part}
    BY <1>3, <1>7, <2>1 DEF RowAgrees
  <2>3. PICK x : x = [t.part EXCEPT !.state = "completed"]
    OBVIOUS
  <2>4. x.state = "completed"
    BY <1>7, <2>3 DEF OpFits, PartOK
  <2>5. P2 = {x}
    BY <1>2, <1>7, <2>2, <2>3 DEF Evidenced
  <2> QED
    BY <1>1, <1>5, <2>1, <2>4, <2>5 DEF RowAgrees
<1>8. CASE t.op \notin {"execute", "evidence"}
  <2>1. P2 = parts /\ parts = {} /\ t.to \notin {"EXECUTING", "DONE"}
    BY <1>2, <1>3, <1>8 DEF TableOK, RowAgrees
  <2> QED
    BY <1>1, <1>5, <2>1 DEF RowAgrees
<1> QED
  BY <1>6, <1>7, <1>8

(* A directive is issued once, to everyone. *)
LEMMA SerialDirective ==
    ASSUME kind = "directive", PartsOK(kind, parts), NEW t, t.op \notin Special, OpFits(t, kind),
           RowAgrees(kind, state, filled, parts, total), Fresh(t, kind, state, filled, parts),
           PartsOK(kind, PartsAfter(t)), NEW F2
    PROVE  RowAgrees(kind, t.to, F2, PartsAfter(t), total)
<1>1. PICK P2 : P2 = PartsAfter(t)
  OBVIOUS
<1>2. P2 = IF t.op = "issue" THEN Issued ELSE parts
  BY <1>1 DEF OpFits, PartsAfter
<1>3. TableOK(kind, t.op, state, t.to)
  BY DEF Fresh
<1>4. From(parts, "line") = {} /\ From(P2, "line") = {}
  BY <1>1, NoLines DEF Kinds
<1>5. total = Cardinality(From(P2, "line"))
  BY <1>4 DEF RowAgrees
<1>6. CASE t.op = "issue"
  <2>1. parts = {} /\ t.to = "ISSUED"
    BY <1>3, <1>6 DEF TableOK, RowAgrees
  <2>2. P2 = {Part(w, "ASSIGNED") : w \in People}
    BY <1>2, <1>6, <2>1 DEF Issued
  <2>3. (\A p, q \in P2 : p.who = q.who => p = q) /\ \A p \in P2 : p.state = "ASSIGNED"
    BY <2>2 DEF Part
  <2> QED
    BY <1>1, <1>5, <2>1, <2>3 DEF RowAgrees
<1>7. CASE t.op # "issue"
  <2>1. P2 = parts /\ t.to \notin {"NONE", "DRAFT", "ISSUED"}
    BY <1>2, <1>3, <1>7 DEF TableOK
  <2> QED
    BY <1>1, <1>5, <2>1 DEF RowAgrees
<1> QED
  BY <1>6, <1>7

(* A proposal with a discount is approved with a note. *)
LEMMA SerialProposal ==
    ASSUME kind = "proposal", NEW t, t.op \notin Special, OpFits(t, kind),
           RowAgrees(kind, state, filled, parts, total), Fresh(t, kind, state, filled, parts)
    PROVE  RowAgrees(kind, t.to, FilledAfter(t), PartsAfter(t), total)
<1>1. PartsAfter(t) = parts
  BY DEF OpFits, PartsAfter
<1>2. TableOK(kind, t.op, state, t.to) /\ (t.to = "APPROVED" /\ "requiresApproval" \in filled => t.note = "text")
  BY DEF Fresh
<1>3. PICK F2 : F2 = FilledAfter(t)
  OBVIOUS
<1>4. /\ "requiresApproval" \in F2 <=> "requiresApproval" \in filled
      /\ "approverNote" \in filled => "approverNote" \in F2
      /\ t.to = "APPROVED" /\ t.note = "text" => "approverNote" \in F2
  BY <1>3 DEF FilledAfter, WrittenBack, Clears, Fills, OpFits
<1>5. RowAgrees(kind, t.to, F2, parts, total)
  BY <1>2, <1>4 DEF RowAgrees, TableOK
<1> QED
  BY <1>1, <1>3, <1>5

(* A contract that becomes effective covers its milestones. *)
LEMMA SerialContract ==
    ASSUME kind = "contract", PartsOK(kind, parts), NEW t, t.op \notin Special, OpFits(t, kind),
           RowAgrees(kind, state, filled, parts, total), Fresh(t, kind, state, filled, parts),
           t.to = "EFFECTIVE" => "signature" \in filled
    PROVE  RowAgrees(kind, t.to, FilledAfter(t), PartsAfter(t), total)
<1>1. TableOK(kind, t.op, state, t.to)
  BY DEF Fresh
<1>2. PICK F2 : F2 = FilledAfter(t)
  OBVIOUS
<1>3. "signature" \in F2 <=> "signature" \in filled
  BY <1>2 DEF FilledAfter, WrittenBack, Clears, Fills, OpFits
<1>4. CASE t.to = "EFFECTIVE"
  <2>1. PICK O : O = Obligations
    OBVIOUS
  <2>2. PICK P2 : P2 = parts \cup O
    OBVIOUS
  <2>3. PartsAfter(t) = P2
    BY <1>4, <2>1, <2>2 DEF OpFits, PartsAfter
  <2>4. \A o \in O : o.who = "obligation"
    BY <2>1 DEF Obligations
  <2>5. From(P2, "line") = From(parts, "line") /\ From(parts, "obligation") \subseteq From(P2, "obligation")
    BY <2>2, <2>4 DEF From
  <2>6. Covered(P2)
    <3>1. CASE From(parts, "obligation") # {}
      <4>1. Covered(parts)
        BY <3>1 DEF RowAgrees
      <4> QED
        BY <2>5, <4>1 DEF Covered
    <3>2. CASE From(parts, "obligation") = {}
      <4>1. ASSUME NEW l \in From(parts, "line"), l.state = "MILESTONE"
            PROVE  \E p \in From(P2, "obligation") : p.round = l.round
        <5>1. PICK o : o = [who |-> "obligation", round |-> l.round, state |-> "PENDING"]
          OBVIOUS
        <5>2. o \in O
          BY <2>1, <3>2, <4>1, <5>1 DEF Obligations, Of, From
        <5>3. o \in From(P2, "obligation") /\ o.round = l.round
          BY <2>2, <5>1, <5>2 DEF From
        <5> QED
          BY <5>3
      <4> QED
        BY <2>5, <4>1 DEF Covered
    <3> QED
      BY <3>1, <3>2
  <2>7. RowAgrees(kind, t.to, F2, P2, total)
    BY <1>3, <1>4, <2>5, <2>6 DEF RowAgrees, PRE_SIGNING_STATUSES
  <2> QED
    BY <1>2, <2>3, <2>7
<1>5. CASE t.to # "EFFECTIVE"
  <2>1. PartsAfter(t) = parts
    BY <1>5 DEF OpFits, PartsAfter
  <2>2. RowAgrees(kind, t.to, F2, parts, total)
    BY <1>1, <1>3, <1>5 DEF RowAgrees, TableOK
  <2> QED
    BY <1>2, <2>1, <2>2
<1> QED
  BY <1>4, <1>5

(* Leaving DONE forgets the completion. *)
LEMMA SerialWork ==
    ASSUME kind = "work", NEW t, t.op \notin Special, OpFits(t, kind),
           RowAgrees(kind, state, filled, parts, total), Fresh(t, kind, state, filled, parts)
    PROVE  RowAgrees(kind, t.to, FilledAfter(t), PartsAfter(t), total)
<1>1. PartsAfter(t) = parts
  BY DEF OpFits, PartsAfter
<1>2. t.from = state
  BY DEF Fresh
<1>3. "completedAt" \in FilledAfter(t) => t.to = "DONE"
  BY <1>2 DEF FilledAfter, WrittenBack, Clears, Fills, OpFits, RowAgrees
<1> QED
  BY <1>1, <1>3 DEF RowAgrees

(* The kinds for which only the total is of concern. *)
LEMMA OnlyTotal ==
    ASSUME NEW k \in Kinds \ {"request", "directive", "proposal", "contract", "work"},
           NEW s, NEW F, NEW P, NEW tot, NEW s2, NEW F2, NEW P2,
           RowAgrees(k, s, F, P, tot), PartsOK(k, P), PartsOK(k, P2)
    PROVE  RowAgrees(k, s2, F2, P2, tot)
<1>1. From(P, "line") = {} /\ From(P2, "line") = {}
  BY NoLines
<1> QED
  BY <1>1 DEF RowAgrees

LEMMA SerialWrite ==
    ASSUME CaseInv, SerialCase, CaseInv', NEW c \in Callers, Write(c)
    PROVE  SerialCase'
<1>1. PICK t : t = call[c]
  OBVIOUS
<1>2. /\ state' = t.to /\ filled' = FilledAfter(t) /\ parts' = PartsAfter(t) /\ kind' = kind /\ total' = total
      /\ End(c) /\ (kind = "contract" /\ t.to = "EFFECTIVE" => "signature" \in filled)
  BY <1>1 DEF Write
<1>3. t.op \notin Special /\ OpFits(t, kind) /\ t.op # "idle"
  BY <1>1 DEF Write, CaseInv, CallInv, MoveInv, Special
<1>4. kind \in Kinds /\ PartsOK(kind, parts) /\ PartsOK(kind, PartsAfter(t))
  BY <1>2 DEF CaseInv
<1>5. ASSUME RowAgrees(kind, state, filled, parts, total), Fresh(t, kind, state, filled, parts)
      PROVE  RowAgrees(kind, t.to, FilledAfter(t), PartsAfter(t), total)
  <2>1. CASE kind = "request"
    BY <1>3, <1>4, <1>5, <2>1, SerialRequest
  <2>2. CASE kind = "directive"
    BY <1>3, <1>4, <1>5, <2>2, SerialDirective
  <2>3. CASE kind = "proposal"
    BY <1>3, <1>4, <1>5, <2>3, SerialProposal
  <2>4. CASE kind = "contract"
    BY <1>2, <1>3, <1>4, <1>5, <2>4, SerialContract
  <2>5. CASE kind = "work"
    BY <1>3, <1>4, <1>5, <2>5, SerialWork
  <2>6. CASE kind \notin {"request", "directive", "proposal", "contract", "work"}
    BY <1>4, <1>5, <2>6, OnlyTotal
  <2> QED
    BY <2>1, <2>2, <2>3, <2>4, <2>5, <2>6
<1> QED
  BY <1>1, <1>2, <1>3, <1>5, SerialEnds

-----------------------------------------------------------------------------
(* The other writes, when nobody else is at work *)

LEMMA SerialWriteCommitment ==
    ASSUME CaseInv, SerialCase, CaseInv', NEW c \in Callers, WriteCommitment(c)
    PROVE  SerialCase'
<1>1. PICK t : t = call[c]
  OBVIOUS
<1>2. kind = "directive" /\ PartOK(t.part) /\ t.op = "commitment" /\ t.op # "idle"
  BY <1>1 DEF WriteCommitment, CaseInv, CallInv
<1>3. PICK x : x = [t.part EXCEPT !.state = t.next]
  OBVIOUS
<1>4. /\ parts' = {p \in parts : <<p.who, p.round>> # <<t.part.who, t.part.round>>} \cup {x}
      /\ state' = IF t.progress THEN "IN_PROGRESS" ELSE state
      /\ kind' = kind /\ total' = total /\ End(c)
  BY <1>1, <1>3 DEF WriteCommitment
<1>5. x.who = t.part.who
  BY <1>2, <1>3 DEF PartOK
<1>6. From(parts, "line") = {} /\ From(parts', "line") = {}
  BY <1>2, <1>4, NoLines DEF CaseInv, Kinds
<1>7. ASSUME RowAgrees(kind, state, filled, parts, total), Fresh(t, kind, state, filled, parts)
      PROVE  RowAgrees(kind', state', filled', parts', total')
  <2>1. t.part \in parts /\ (state = "ISSUED" => t.progress)
    BY <1>2, <1>7 DEF Fresh
  <2>2. (\A p, q \in parts : p.who = q.who => p = q) /\ state \notin {"NONE", "DRAFT"}
    BY <1>2, <1>7, <2>1 DEF RowAgrees
  <2>3. \A p \in parts' : p = x \/ (p \in parts /\ p # t.part)
    BY <1>4
  <2>4. \A p, q \in parts' : p.who = q.who => p = q
    BY <1>5, <2>1, <2>2, <2>3
  <2>5. state' \notin {"NONE", "DRAFT", "ISSUED"}
    BY <1>4, <2>1, <2>2
  <2>6. total = Cardinality(From(parts', "line"))
    BY <1>6, <1>7 DEF RowAgrees
  <2> QED
    BY <1>2, <1>4, <2>4, <2>5, <2>6 DEF RowAgrees
<1> QED
  BY <1>1, <1>2, <1>4, <1>7, SerialEnds

LEMMA SerialWriteOther ==
    ASSUME CaseInv, SerialCase, CaseInv', NEW c \in Callers, WriteStamp(c) \/ WriteColumn(c) \/ EscalateLink(c)
    PROVE  SerialCase'
<1>1. /\ kind \in {"announcement", "ticket", "support"} /\ call[c].op # "idle"
      /\ kind' = kind /\ total' = total /\ End(c)
  BY DEF WriteStamp, WriteColumn, EscalateLink, CaseInv, CallInv
<1>2. PartsOK(kind, parts) /\ PartsOK(kind, parts')
  BY <1>1 DEF CaseInv
<1>3. ASSUME RowAgrees(kind, state, filled, parts, total) PROVE RowAgrees(kind', state', filled', parts', total')
  <2>1. RowAgrees(kind, state', filled', parts', total)
    BY <1>1, <1>2, <1>3, OnlyTotal DEF Kinds
  <2> QED
    BY <1>1, <2>1
<1> QED
  BY <1>1, <1>3, SerialEnds

LEMMA SerialEscalatePost ==
    ASSUME CaseInv, SerialCase, NEW c \in Callers, EscalatePost(c)
    PROVE  SerialCase'
<1>1. PICK q : q = [op |-> "link"]
  OBVIOUS
<1>2. /\ q.op = "link" /\ call' = [call EXCEPT ![c] = q] /\ raced' = raced /\ call[c].op # "idle"
      /\ kind' = kind /\ state' = state /\ filled' = filled /\ parts' = parts /\ total' = total
  BY <1>1 DEF EscalatePost
<1>3. Fresh(q, kind, state, filled, parts)
  BY <1>2 DEF Fresh, Special
<1> QED
  BY <1>2, <1>3, SerialCloses

LEMMA SerialWriteLine ==
    ASSUME CaseInv, SerialCase, NEW c \in Callers, WriteLine(c)
    PROVE  SerialCase'
<1>1. PICK t : t = call[c]
  OBVIOUS
<1>2. kind \in {"proposal", "contract"} /\ PartsOK(kind, parts) /\ t.op = "sum"
  BY <1>1 DEF WriteLine, CaseInv, CallInv
<1>3. PICK x : x = Part("line", t.line)
  OBVIOUS
<1>4. /\ parts' = parts \cup {x} /\ state' = state /\ kind' = kind /\ total' = t.sum /\ End(c)
      /\ filled' = (filled \ {"requiresApproval"}) \cup IF t.approval THEN {"requiresApproval"} ELSE {}
  BY <1>1, <1>3 DEF WriteLine
<1>5. x.who = "line" /\ x.state = t.line /\ x \notin parts
  BY <1>2, <1>3, NewRound
<1>6. /\ From(parts', "line") = From(parts, "line") \cup {x} /\ x \notin From(parts, "line")
      /\ From(parts', "obligation") = From(parts, "obligation")
  BY <1>4, <1>5 DEF From
<1>7. Cardinality(From(parts', "line")) = Cardinality(From(parts, "line")) + 1
  <2>1. IsFiniteSet(From(parts, "line"))
    BY <1>2, FS_Subset DEF PartsOK, From
  <2> QED
    BY <1>6, <2>1, FS_AddElement
<1>8. ASSUME RowAgrees(kind, state, filled, parts, total), Fresh(t, kind, state, filled, parts)
      PROVE  RowAgrees(kind', state', filled', parts', total')
  <2>1. /\ kind = "contract" => state \in PRE_SIGNING_STATUSES
        /\ kind = "proposal" => state = "DRAFT"
        /\ t.sum = Cardinality(From(parts, "line")) + 1
        /\ kind = "proposal" => (t.approval <=> t.line = "discounted" \/ Discounted(parts))
    BY <1>2, <1>8 DEF Fresh
  <2>2. total' = Cardinality(From(parts', "line"))
    BY <1>4, <1>7, <2>1
  <2>3. CASE kind = "proposal"
    <3>1. Discounted(parts') <=> t.line = "discounted" \/ Discounted(parts)
      BY <1>4, <1>5 DEF Discounted
    <3>2. "requiresApproval" \in filled' <=> Discounted(parts')
      BY <1>4, <2>1, <2>3, <3>1
    <3> QED
      BY <1>4, <2>1, <2>2, <2>3, <3>2 DEF RowAgrees
  <2>4. CASE kind = "contract"
    <3>1. "signature" \notin filled /\ "signature" \notin filled' /\ From(parts, "obligation") = {}
      BY <1>4, <1>8, <2>1, <2>4 DEF RowAgrees
    <3>2. state \notin Live
      BY <2>1, <2>4 DEF PRE_SIGNING_STATUSES, Live
    <3> QED
      BY <1>4, <1>6, <2>2, <2>4, <3>1, <3>2 DEF RowAgrees
  <2> QED
    BY <1>2, <2>3, <2>4
<1> QED
  BY <1>1, <1>2, <1>4, <1>8, SerialEnds

LEMMA SerialWriteSign ==
    ASSUME CaseInv, SerialCase, NEW c \in Callers, WriteSign(c)
    PROVE  SerialCase'
<1>1. PICK t : t = call[c]
  OBVIOUS
<1>2. kind = "contract" /\ t.op = "sign"
  BY <1>1 DEF WriteSign, CaseInv, CallInv
<1>3. /\ filled' = filled \cup {"signature"} /\ state' = IF t.moves THEN "SIGNING" ELSE state
      /\ kind' = kind /\ parts' = parts /\ total' = total /\ End(c)
  BY <1>1 DEF WriteSign
<1>4. ASSUME RowAgrees(kind, state, filled, parts, total), Fresh(t, kind, state, filled, parts)
      PROVE  RowAgrees(kind', state', filled', parts', total')
  <2>1. state \in {"APPROVED", "SIGNING"} /\ (t.moves <=> state = "APPROVED")
    BY <1>2, <1>4 DEF Fresh
  <2>2. state' = "SIGNING"
    BY <1>3, <2>1
  <2> QED
    BY <1>2, <1>3, <1>4, <2>2 DEF RowAgrees, PRE_SIGNING_STATUSES, Live
<1> QED
  BY <1>1, <1>2, <1>3, <1>4, SerialEnds

LEMMA SerialWriteBill ==
    ASSUME CaseInv, SerialCase, NEW c \in Callers, WriteBill(c)
    PROVE  SerialCase'
<1>1. PICK t : t = call[c]
  OBVIOUS
<1>2. kind = "contract" /\ t.op = "bill"
  BY <1>1 DEF WriteBill, CaseInv, CallInv
<1>3. PICK x : x = [who |-> "bill", round |-> t.part.round,
                    state |-> IF t.part.state = "COMPLETED" THEN "READY" ELSE "BLOCKED"]
  OBVIOUS
<1>4. /\ parts' = parts \cup {x} /\ state' = state /\ kind' = kind /\ filled' = filled /\ total' = total
      /\ End(c) /\ x.who = "bill"
  BY <1>1, <1>3 DEF WriteBill
<1>5. From(parts', "line") = From(parts, "line") /\ From(parts', "obligation") = From(parts, "obligation")
  BY <1>4 DEF From
<1>6. ASSUME RowAgrees(kind, state, filled, parts, total)
      PROVE  RowAgrees(kind', state', filled', parts', total')
  BY <1>2, <1>4, <1>5, <1>6 DEF RowAgrees, Covered
<1> QED
  BY <1>1, <1>2, <1>4, <1>6, SerialEnds

LEMMA SerialGiveUp ==
    ASSUME CaseInv, SerialCase, NEW c \in Callers, GiveUp(c)
    PROVE  SerialCase'
<1>1. /\ kind' = kind /\ state' = state /\ filled' = filled /\ parts' = parts /\ total' = total
      /\ call' = [call EXCEPT ![c] = NoCall] /\ raced' = raced
  BY DEF GiveUp, End, row
<1>2. \A d \in Callers : call'[d] = IF d = c THEN NoCall ELSE call[d]
  BY <1>1 DEF CaseInv
<1> QED
  BY <1>1, <1>2, NoCallFresh DEF SerialCase

(* The only write without a handler: it leaves the lines alone. *)
LEMMA SerialObligation ==
    ASSUME CaseInv, SerialCase, NEW p \in parts, CompleteObligation(p)
    PROVE  SerialCase'
<1>1. p \in From(parts, "obligation") /\ kind = "contract" /\ PartOK(p)
  BY CaseworkAssumption DEF CompleteObligation, Of, From, CaseInv, PartsOK, Hanging
<1>2. PICK x : x = [p EXCEPT !.state = "COMPLETED"]
  OBVIOUS
<1>3. /\ parts' = (parts \ {p}) \cup {x} /\ state' = state /\ kind' = kind /\ filled' = filled
      /\ total' = total /\ call' = call /\ raced' = raced
  BY <1>2 DEF CompleteObligation
<1>4. x.who = "obligation" /\ x.round = p.round
  BY <1>1, <1>2 DEF PartOK, From
<1>5. /\ From(parts', "line") = From(parts, "line")
      /\ From(parts', "obligation") = (From(parts, "obligation") \ {p}) \cup {x}
  BY <1>1, <1>3, <1>4 DEF From
<1>6. Covered(parts) => Covered(parts')
  BY <1>4, <1>5 DEF Covered
<1>7. RowAgrees(kind, state, filled, parts, total) => RowAgrees(kind, state, filled, parts', total)
  BY <1>1, <1>5, <1>6 DEF RowAgrees
<1>8. ASSUME NEW d \in Callers, Fresh(call[d], kind, state, filled, parts)
      PROVE  Fresh(call[d], kind, state, filled, parts')
  <2>1. call[d].op # "commitment"
    BY <1>1 DEF CaseInv, CallInv
  <2> QED
    BY <1>1, <1>5, <1>8, <2>1 DEF Fresh, TableOK
<1> QED
  BY <1>3, <1>7, <1>8 DEF SerialCase

LEMMA SerialCreate ==
    ASSUME CaseInv, SerialCase, Create
    PROVE  SerialCase'
<1>1. /\ kind' = kind /\ parts' = parts /\ call' = call /\ total' = total /\ raced' = raced
      /\ parts = {} /\ \A c \in Callers : call[c] = NoCall
      /\ state' \in Initially /\ state = "NONE"
  BY DEF Create, CaseInv
<1>2. "signature" \notin filled' /\ "completedAt" \notin filled' /\ "requiresApproval" \notin filled'
  BY DEF Create
<1>3. kind \in {"request", "directive", "proposal", "contract"} => state' = "DRAFT"
  BY <1>1 DEF Initially
<1>4. From(parts, "line") = {} /\ From(parts, "obligation") = {} /\ ~Discounted(parts)
  BY <1>1 DEF From, Discounted
<1>5. RowAgrees(kind, state, filled, parts, total) => RowAgrees(kind, state', filled', parts, total)
  BY <1>1, <1>2, <1>3, <1>4 DEF RowAgrees, Live
<1> QED
  BY <1>1, <1>5, NoCallFresh DEF SerialCase

LEMMA InitSerial ==
    CaseInit => SerialCase
<1> SUFFICES ASSUME CaseInit PROVE SerialCase
  OBVIOUS
<1>1. /\ kind \in Kinds /\ state = "NONE" /\ filled = {} /\ parts = {} /\ total = 0
      /\ \A c \in Callers : call[c] = NoCall
  BY DEF CaseInit
<1>2. From(parts, "line") = {} /\ From(parts, "obligation") = {} /\ ~Discounted(parts)
  BY <1>1 DEF From, Discounted
<1>3. RowAgrees(kind, state, filled, parts, total)
  BY <1>1, <1>2, FS_EmptySet DEF RowAgrees, Live
<1> QED
  BY <1>1, <1>3, NoCallFresh DEF SerialCase

LEMMA NextSerial ==
    CaseInv /\ CaseInv' /\ SerialCase /\ [CaseNext]_caseVars => SerialCase'
<1> SUFFICES ASSUME CaseInv, CaseInv', SerialCase, [CaseNext]_caseVars PROVE SerialCase'
  OBVIOUS
<1>1. ASSUME NEW c \in Callers,
             \E r \in Table, p \in parts \cup {NoPart}, note \in Notes : Load(c, r, p, note)
      PROVE  SerialCase'
  BY <1>1, SerialLoad
<1>2. ASSUME NEW c \in Callers, \E r \in COMMITMENT_TRANSITIONS : \E p \in parts : LoadCommitment(c, r, p)
      PROVE  SerialCase'
  BY <1>2, SerialLoadCommitment
<1>3. ASSUME NEW c \in Callers,
             \/ \E p \in parts, s \in {"READ", "ACKNOWLEDGED"} : Stamp(c, p, s)
             \/ LoadCsat(c) \/ LoadAssign(c) \/ EscalateLoad(c)
             \/ \E p \in parts : LoadBill(c, p)
      PROVE  SerialCase'
  <2>1. \E q : Begin(c, q) /\ q.op \in {"stamp", "column", "escalate", "bill"}
    <3>1. ASSUME NEW p \in parts, NEW s, Stamp(c, p, s)
          PROVE  \E q : Begin(c, q) /\ q.op \in {"stamp", "column", "escalate", "bill"}
      <4>1. PICK q : q = [op |-> "stamp", part |-> p, next |-> s]
        OBVIOUS
      <4> QED
        BY <3>1, <4>1 DEF Stamp
    <3>2. ASSUME LoadCsat(c) \/ LoadAssign(c)
          PROVE  \E q : Begin(c, q) /\ q.op \in {"stamp", "column", "escalate", "bill"}
      <4>1. PICK q : (q = [op |-> "column", col |-> "csatScore"] \/ q = [op |-> "column", col |-> "assigneeId"])
                     /\ Begin(c, q)
        BY <3>2 DEF LoadCsat, LoadAssign
      <4> QED
        BY <4>1
    <3>3. ASSUME EscalateLoad(c)
          PROVE  \E q : Begin(c, q) /\ q.op \in {"stamp", "column", "escalate", "bill"}
      <4>1. PICK q : q = [op |-> "escalate"]
        OBVIOUS
      <4> QED
        BY <3>3, <4>1 DEF EscalateLoad
    <3>4. ASSUME NEW p \in parts, LoadBill(c, p)
          PROVE  \E q : Begin(c, q) /\ q.op \in {"stamp", "column", "escalate", "bill"}
      <4>1. PICK q : q = [op |-> "bill", part |-> p]
        OBVIOUS
      <4> QED
        BY <3>4, <4>1 DEF LoadBill
    <3> QED
      BY <1>3, <3>1, <3>2, <3>3, <3>4
  <2> QED
    BY <2>1, SerialReads
<1>5. ASSUME NEW c \in Callers, \E k \in LineKinds : LoadLine(c, k) PROVE SerialCase'
  BY <1>5, SerialLoadLine
<1>7. ASSUME NEW p \in parts, CompleteObligation(p) PROVE SerialCase'
  BY <1>7, SerialObligation
<1>8. ASSUME UNCHANGED caseVars PROVE SerialCase'
  BY <1>8 DEF caseVars, row, SerialCase
<1> QED
  BY <1>1, <1>2, <1>3, <1>5, <1>7, <1>8, SerialCreate, SerialWrite, SerialWriteCommitment, SerialWriteOther,
     SerialEscalatePost, SerialSumLines, SerialWriteLine, SerialLoadSign, SerialWriteSign, SerialWriteBill, SerialGiveUp
  DEF CaseNext

(* As long as no two handlers of a row overlap, the row agrees exactly     *)
(* with what hangs on it: executions, commitments, totals, approvals,      *)
(* obligations and completion dates.  What the one open handler has read   *)
(* when it writes is still so, and the tables do the rest.                 *)
THEOREM CaseAgrees ==
    CaseSpec => []AgreesUnlessRaced
<1>1. CaseInv /\ SerialCase => AgreesUnlessRaced
  <2> SUFFICES ASSUME CaseInv, SerialCase, ~raced PROVE AgreesUnlessRaced
    BY DEF AgreesUnlessRaced
  <2>1. Of("obligation") = From(parts, "obligation") /\ Of("line") = From(parts, "line")
        /\ (Has("discounted") <=> Discounted(parts))
    BY DEF Of, From, Has, Discounted
  <2>2. RowAgrees(kind, state, filled, parts, total)
    BY DEF SerialCase
  <2>3. kind = "request" =>
            Cardinality({p \in parts : p.state = "pending"}) = IF state = "EXECUTING" THEN 1 ELSE 0
    <3>1. ASSUME kind = "request", state = "EXECUTING"
          PROVE  Cardinality({p \in parts : p.state = "pending"}) = 1
      <4>1. PICK x \in parts : parts = {x} /\ x.state = "pending"
        BY <2>2, <3>1 DEF RowAgrees
      <4>2. {p \in parts : p.state = "pending"} = {x}
        BY <4>1
      <4> QED
        BY <4>2, FS_Singleton
    <3>2. ASSUME kind = "request", state # "EXECUTING"
          PROVE  Cardinality({p \in parts : p.state = "pending"}) = 0
      <4>1. {p \in parts : p.state = "pending"} = {}
        BY <2>2, <3>2 DEF RowAgrees
      <4> QED
        BY <4>1, FS_EmptySet
    <3> QED
      BY <3>1, <3>2
  <2> QED
    BY <2>1, <2>2, <2>3 DEF RowAgrees, AgreesUnlessRaced, Covered
<1> QED
  BY <1>1, AlwaysCaseInv, InitSerial, NextSerial, PTL DEF CaseSpec
=============================================================================
