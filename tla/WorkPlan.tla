------------------------------ MODULE WorkPlan ------------------------------
(***************************************************************************)
(* The plan of the work items (work-projects.service.ts, work.service.ts): *)
(* dependencies with a cycle guard, and dates that the Gantt's reschedule  *)
(* checks against the finish-to-start dependencies.                        *)
(*                                                                         *)
(* addDependency and reschedule read, test and later write, in one READ    *)
(* COMMITTED transaction: tx[c] is what the handler of client c will       *)
(* write.  removeDependency and the PATCH of an item test nothing they     *)
(* have read, and are one step.                                            *)
(***************************************************************************)
EXTENDS Naturals, FiniteSets

CONSTANTS
    Clients,    \* requests that may be in flight at the same time
    Items,      \* NativeWorkItem rows of one tenant
    Types,      \* dependency types
    None,       \* a date that is not set
    Spans,      \* the pairs of dates, plannedStart and dueAt, that clients send
    MaxDeps,    \* bound: dependency rows
    MaxMoves    \* bound: changes of dates

ASSUME PlanAssumption ==
    /\ "FS" \in Types
    /\ None \notin Nat
    /\ Spans \subseteq (Nat \cup {None}) \X (Nat \cup {None})
    /\ MaxDeps \in Nat /\ MaxMoves \in Nat

VARIABLES
    deps,       \* WorkDependency rows
    start,      \* plannedStart of each item
    due,        \* dueAt of each item
    tx,         \* open transactions
    vetted,     \* history: FS dependencies a reschedule has tested since the
                \* dates of their ends were last patched
    addsRaced,  \* history: two addDependency were open at the same time
    movesRaced, \* history: dates or a dependency were written while a
                \* reschedule was open
    moves       \* history: changes of dates

vars == <<deps, start, due, tx, vetted, addsRaced, movesRaced, moves>>

Dep == [pre : Items, suc : Items, type : Types]

-----------------------------------------------------------------------------
Idle == [op |-> "idle"]
Adding(c) == tx[c].op = "add"
Moving(c) == tx[c].op = "move"

(* The search from the successor along the dependencies, of any type, ends *)
(* with the smallest set that holds it and is closed under them: it meets  *)
(* the predecessor exactly if every such set does.                         *)
Closed(R) == \A d \in deps : d.pre \in R => d.suc \in R

(* Mutant: only direct dependencies are looked at. *)
WouldCycleDirect(p, s) == \E d \in deps : d.pre = s /\ d.suc = p

WouldCycle(p, s) == \A R \in SUBSET Items : s \in R /\ Closed(R) => p \in R

(* addDependency: the guard, then the row under its unique index. *)
AddBegin(c, d) ==
    /\ tx[c] = Idle
    /\ d.pre # d.suc
    /\ ~WouldCycle(d.pre, d.suc)
    /\ d \notin deps
    /\ Cardinality(deps) < MaxDeps
    /\ tx' = [tx EXCEPT ![c] = [op |-> "add", dep |-> d]]
    /\ addsRaced' = (addsRaced \/ \E b \in Clients : Adding(b))
    /\ UNCHANGED <<deps, start, due, vetted, movesRaced, moves>>

AddCommit(c) ==
    /\ Adding(c)
    /\ tx[c].dep \notin deps
    /\ Cardinality(deps) < MaxDeps
    /\ deps' = deps \cup {tx[c].dep}
    /\ tx' = [tx EXCEPT ![c] = Idle]
    /\ movesRaced' = (movesRaced \/ \E b \in Clients : Moving(b))
    /\ UNCHANGED <<start, due, vetted, addsRaced, moves>>

RemoveDependency(d) ==
    /\ d \in deps
    /\ deps' = deps \ {d}
    /\ vetted' = vetted \ {d}
    /\ UNCHANGED <<start, due, tx, addsRaced, movesRaced, moves>>

-----------------------------------------------------------------------------
FS(x) == {d \in deps : d.type = "FS" /\ x \in {d.pre, d.suc}}

(* A finish-to-start dependency holds unless both dates are set and the    *)
(* predecessor ends after the successor starts.                            *)
InOrder(finish, begin) == finish # None /\ begin # None => finish <= begin

(* Mutant: only the predecessors of the item are tested. *)
FitsPredecessors(x, s, f) ==
    /\ InOrder(s, f)
    /\ \A d \in FS(x) : d.suc = x => InOrder(due[d.pre], s)

(* What reschedule tests: the item's own dates, its FS predecessors and    *)
(* its FS successors.                                                      *)
Fits(x, s, f) ==
    /\ InOrder(s, f)
    /\ \A d \in FS(x) : /\ d.suc = x => InOrder(due[d.pre], s)
                        /\ d.pre = x => InOrder(f, start[d.suc])

(* reschedule: a date that is not given is written back as it was read. *)
MoveBegin(c, x, s, f) ==
    /\ tx[c] = Idle
    /\ moves < MaxMoves
    /\ Fits(x, s, f)
    /\ tx' = [tx EXCEPT ![c] = [op |-> "move", item |-> x, start |-> s, due |-> f]]
    /\ UNCHANGED <<deps, start, due, vetted, addsRaced, movesRaced, moves>>

SetDates(x, s, f) ==
    /\ moves < MaxMoves
    /\ moves' = moves + 1
    /\ start' = [start EXCEPT ![x] = s]
    /\ due' = [due EXCEPT ![x] = f]

MoveCommit(c) ==
    LET t == tx[c] IN
    /\ Moving(c)
    /\ SetDates(t.item, t.start, t.due)
    /\ vetted' = vetted \cup FS(t.item)
    /\ tx' = [tx EXCEPT ![c] = Idle]
    /\ movesRaced' = (movesRaced \/ \E b \in Clients \ {c} : Moving(b))
    /\ UNCHANGED <<deps, addsRaced>>

(* PATCH of an item: no date is tested. *)
Update(x, s, f) ==
    /\ SetDates(x, s, f)
    /\ vetted' = {d \in vetted : x \notin {d.pre, d.suc}}
    /\ movesRaced' = (movesRaced \/ \E b \in Clients : Moving(b))
    /\ UNCHANGED <<deps, tx, addsRaced>>

(* An exception, the unique index, the time limit. *)
Rollback(c) ==
    /\ tx[c] # Idle
    /\ tx' = [tx EXCEPT ![c] = Idle]
    /\ UNCHANGED <<deps, start, due, vetted, addsRaced, movesRaced, moves>>

-----------------------------------------------------------------------------
Init ==
    /\ deps = {}
    /\ start = [x \in Items |-> None]
    /\ due = [x \in Items |-> None]
    /\ tx = [c \in Clients |-> Idle]
    /\ vetted = {}
    /\ addsRaced = FALSE
    /\ movesRaced = FALSE
    /\ moves = 0

Next ==
    \/ \E c \in Clients :
        \/ \E d \in Dep : AddBegin(c, d)
        \/ AddCommit(c)
        \/ \E x \in Items, p \in Spans : MoveBegin(c, x, p[1], p[2])
        \/ MoveCommit(c)
        \/ Rollback(c)
    \/ \E d \in deps : RemoveDependency(d)
    \/ \E x \in Items, p \in Spans : Update(x, p[1], p[2])

Spec == Init /\ [][Next]_vars

-----------------------------------------------------------------------------
(* Every set of items has one that depends on none of them. *)
Acyclic ==
    \A S \in SUBSET Items : S # {} =>
        \E x \in S : \A d \in deps : d.suc = x => d.pre \notin S

(* The cycle guard of addDependency keeps the dependencies acyclic, with   *)
(* removals and moves in between, as long as no two additions overlap.     *)
CycleFree == ~addsRaced => Acyclic

(* A finish-to-start dependency that a reschedule of one end has tested    *)
(* holds, and later reschedules of either end keep it, until an item is    *)
(* patched or two writers of dates overlap.                                *)
ScheduleHolds ==
    ~movesRaced => \A d \in vetted : InOrder(due[d.pre], start[d.suc])
=============================================================================
