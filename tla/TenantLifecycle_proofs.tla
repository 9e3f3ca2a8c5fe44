----------------------- MODULE TenantLifecycle_proofs -----------------------
(***************************************************************************)
(* What holds for any number of requests and any checklist, and for the    *)
(* backups that a reset and an activation rely on.                         *)
(***************************************************************************)
EXTENDS TenantLifecycle, Backups, TLAPS

Requests == Operators \cup Clerks
Kinds == {"DEMO_BASELINE", "RESET_SAFETY", "PRE_GOLIVE", "GOLIVE_BASELINE"}
Ats == {"idle", "checklist", "pre", "clear", "flip", "baseline", "mark", "safety", "load"}
Pc == [at : Ats] \cup [at : {"patch"}, done : SUBSET Keys]

(* Where an activation stands shows what it has done: activate is in order *)
(* because each of its transactions relies on those before it.             *)
OnTheWay ==
    \A o \in Requests :
        /\ pc[o].at \in {"clear", "flip"} => "PRE_GOLIVE" \in snaps
        /\ pc[o].at \in {"baseline", "mark"} => mode = "LIVE"
        /\ pc[o].at = "mark" => "GOLIVE_BASELINE" \in snaps

IInv == TypeOK /\ GoLiveInOrder /\ ReadyMeansDone /\ OnTheWay

-----------------------------------------------------------------------------
LEMMA InitIInv == Init => IInv
<1> SUFFICES ASSUME Init PROVE IInv
  OBVIOUS
<1> USE LifecycleAssumption DEF Init
<1>1. \A o \in Requests : pc[o] = Idle
  BY DEF Requests
<1>2. Idle \in Pc /\ Idle.at = "idle"
  BY DEF Idle, Pc, Ats
<1>3. TypeOK
  BY <1>2 DEF TypeOK, Pc, Ats, Requests
<1>4. OnTheWay
  BY <1>1, <1>2 DEF OnTheWay
<1> QED
  BY <1>3, <1>4 DEF IInv, GoLiveInOrder, ReadyMeansDone

(* A request that moves on: the table of requests stays well typed, and    *)
(* what the others rely on is still there if mode and snaps only grow.     *)
LEMMA GotoInv ==
    ASSUME TypeOK, OnTheWay, NEW o \in Requests, NEW q \in Pc, Goto(o, q),
           mode = "LIVE" => mode' = "LIVE", snaps \subseteq snaps',
           q.at \in {"clear", "flip"} => "PRE_GOLIVE" \in snaps',
           q.at \in {"baseline", "mark"} => mode' = "LIVE",
           q.at = "mark" => "GOLIVE_BASELINE" \in snaps'
    PROVE  pc' \in [Requests -> Pc] /\ OnTheWay'
<1>1. pc \in [Requests -> Pc]
  BY DEF TypeOK, Requests, Pc, Ats
<1>2. pc' = [pc EXCEPT ![o] = q]
  BY DEF Goto
<1>3. pc' \in [Requests -> Pc]
  BY <1>1, <1>2
<1>4. pc'[o] = q /\ \A r \in Requests : r # o => pc'[r] = pc[r]
  BY <1>1, <1>2
<1> QED
  BY <1>3, <1>4 DEF OnTheWay

(* The records Goto stores. *)
LEMMA AtInPc ==
    ASSUME NEW a \in Ats
    PROVE  [at |-> a] \in Pc /\ [at |-> a].at = a
BY DEF Pc

(* One step per action of Next. *)
LEMMA NextIInv == IInv /\ [Next]_vars => IInv'
<1> SUFFICES ASSUME IInv, [Next]_vars PROVE IInv'
  OBVIOUS
<1> USE LifecycleAssumption DEF Fault
<1>t. /\ pc \in [Requests -> Pc] /\ TypeOK /\ OnTheWay /\ GoLiveInOrder /\ ReadyMeansDone
      /\ "idle" \in Ats /\ Idle = [at |-> "idle"]
      /\ Operators \subseteq Requests /\ Clerks \subseteq Requests
  BY DEF IInv, TypeOK, Requests, Pc, Ats, Idle
<1>q. Idle \in Pc /\ Idle.at = "idle"
  BY <1>t, AtInPc
<1>1. CASE CreateProgress
  BY <1>1, <1>t DEF CreateProgress, IInv, TypeOK, GoLiveInOrder, ReadyMeansDone, OnTheWay
<1>2. CASE EnsureDemoBaseline
  BY <1>2, <1>t DEF EnsureDemoBaseline, Snapshot, IInv, TypeOK, GoLiveInOrder, ReadyMeansDone, OnTheWay
<1>3. CASE UserWrites
  BY <1>3, <1>t DEF UserWrites, IInv, TypeOK, GoLiveInOrder, ReadyMeansDone, OnTheWay
<1>4. ASSUME NEW o \in Operators, ActivateReadTenant(o) PROVE IInv'
  <2>1. Goto(o, [at |-> "checklist"]) /\ UNCHANGED <<mode, gl, done, rows, snaps, faults>>
    BY <1>4 DEF ActivateReadTenant
  <2>2. pc' \in [Requests -> Pc] /\ OnTheWay'
    BY <1>t, <2>1, AtInPc, GotoInv DEF Ats
  <2> QED
    BY <1>t, <2>1, <2>2 DEF IInv, TypeOK, GoLiveInOrder, ReadyMeansDone, Requests, Pc, Ats
<1>5. ASSUME NEW o \in Operators, ActivateChecklist(o) PROVE IInv'
  <2>1. /\ Goto(o, [at |-> "pre"]) \/ Goto(o, Idle)
        /\ UNCHANGED <<mode, gl, done, rows, snaps, faults>>
    BY <1>5 DEF ActivateChecklist
  <2>2. pc' \in [Requests -> Pc] /\ OnTheWay'
    BY <1>t, <1>q, <2>1, AtInPc, GotoInv DEF Ats
  <2> QED
    BY <1>t, <2>1, <2>2 DEF IInv, TypeOK, GoLiveInOrder, ReadyMeansDone, Requests, Pc, Ats
<1>6. ASSUME NEW o \in Operators, ActivateSnapshot(o) PROVE IInv'
  <2>1. /\ Goto(o, [at |-> "clear"]) /\ snaps' = snaps \cup {"PRE_GOLIVE"}
        /\ UNCHANGED <<mode, gl, done, rows, faults>>
    BY <1>6 DEF ActivateSnapshot, Snapshot
  <2>2. pc' \in [Requests -> Pc] /\ OnTheWay'
    BY <1>t, <2>1, AtInPc, GotoInv DEF Ats
  <2> QED
    BY <1>t, <2>1, <2>2 DEF IInv, TypeOK, GoLiveInOrder, ReadyMeansDone, Requests, Pc, Ats
<1>7. ASSUME NEW o \in Operators, ActivateClear(o) PROVE IInv'
  <2>1. /\ pc[o].at = "clear" /\ Goto(o, [at |-> "flip"])
        /\ UNCHANGED <<mode, gl, done, snaps>>
        /\ rows' \in {rows, {}} /\ faults' \in 0 .. MaxFaults
    BY <1>7, <1>t DEF ActivateClear, TypeOK
  <2>2. "PRE_GOLIVE" \in snaps
    BY <1>t, <2>1 DEF OnTheWay
  <2>3. pc' \in [Requests -> Pc] /\ OnTheWay'
    BY <1>t, <2>1, <2>2, AtInPc, GotoInv DEF Ats
  <2> QED
    BY <1>t, <2>1, <2>3 DEF IInv, TypeOK, GoLiveInOrder, ReadyMeansDone, Requests, Pc, Ats
<1>8. ASSUME NEW o \in Operators, ActivateFlip(o) PROVE IInv'
  <2>1. /\ pc[o].at = "flip" /\ Goto(o, [at |-> "baseline"]) /\ mode' = "LIVE"
        /\ UNCHANGED <<gl, done, rows, snaps, faults>>
    BY <1>8 DEF ActivateFlip
  <2>2. "PRE_GOLIVE" \in snaps
    BY <1>t, <2>1 DEF OnTheWay
  <2>3. pc' \in [Requests -> Pc] /\ OnTheWay'
    BY <1>t, <2>1, AtInPc, GotoInv DEF Ats
  <2> QED
    BY <1>t, <2>1, <2>2, <2>3 DEF IInv, TypeOK, GoLiveInOrder, ReadyMeansDone, Requests, Pc, Ats
<1>9. ASSUME NEW o \in Operators, ActivateBaseline(o) PROVE IInv'
  <2>1. /\ pc[o].at = "baseline" /\ Goto(o, [at |-> "mark"])
        /\ snaps' = snaps \cup {"GOLIVE_BASELINE"}
        /\ UNCHANGED <<mode, gl, done, rows, faults>>
    BY <1>9 DEF ActivateBaseline, Snapshot
  <2>2. mode = "LIVE"
    BY <1>t, <2>1 DEF OnTheWay
  <2>3. pc' \in [Requests -> Pc] /\ OnTheWay'
    BY <1>t, <2>1, <2>2, AtInPc, GotoInv DEF Ats
  <2> QED
    BY <1>t, <2>1, <2>3 DEF IInv, TypeOK, GoLiveInOrder, ReadyMeansDone, Requests, Pc, Ats
<1>10. ASSUME NEW o \in Operators, ActivateMark(o) PROVE IInv'
  <2>1. /\ pc[o].at = "mark" /\ Goto(o, Idle) /\ gl' = "LIVE"
        /\ UNCHANGED <<mode, done, rows, snaps, faults>>
    BY <1>10 DEF ActivateMark
  <2>2. mode = "LIVE" /\ "GOLIVE_BASELINE" \in snaps
    BY <1>t, <2>1 DEF OnTheWay
  <2>3. pc' \in [Requests -> Pc] /\ OnTheWay'
    BY <1>t, <1>q, <2>1, GotoInv
  <2> QED
    BY <1>t, <2>1, <2>2, <2>3 DEF IInv, TypeOK, GoLiveInOrder, ReadyMeansDone, Requests, Pc, Ats
<1>11. ASSUME NEW o \in Operators, ResetRead(o) PROVE IInv'
  <2>1. Goto(o, [at |-> "safety"]) /\ UNCHANGED <<mode, gl, done, rows, snaps, faults>>
    BY <1>11 DEF ResetRead
  <2>2. pc' \in [Requests -> Pc] /\ OnTheWay'
    BY <1>t, <2>1, AtInPc, GotoInv DEF Ats
  <2> QED
    BY <1>t, <2>1, <2>2 DEF IInv, TypeOK, GoLiveInOrder, ReadyMeansDone, Requests, Pc, Ats
<1>12. ASSUME NEW o \in Operators, ResetSnapshot(o) PROVE IInv'
  <2>1. /\ Goto(o, [at |-> "load"]) /\ snaps' = snaps \cup {"RESET_SAFETY"}
        /\ UNCHANGED <<mode, gl, done, rows, faults>>
    BY <1>12 DEF ResetSnapshot, Snapshot
  <2>2. pc' \in [Requests -> Pc] /\ OnTheWay'
    BY <1>t, <2>1, AtInPc, GotoInv DEF Ats
  <2> QED
    BY <1>t, <2>1, <2>2 DEF IInv, TypeOK, GoLiveInOrder, ReadyMeansDone, Requests, Pc, Ats
<1>13. ASSUME NEW o \in Operators, ResetLoad(o) PROVE IInv'
  <2>1. Goto(o, Idle) /\ rows' = {"demo"} /\ UNCHANGED <<mode, gl, done, snaps, faults>>
    BY <1>13 DEF ResetLoad
  <2>2. pc' \in [Requests -> Pc] /\ OnTheWay'
    BY <1>t, <1>q, <2>1, GotoInv
  <2> QED
    BY <1>t, <2>1, <2>2 DEF IInv, TypeOK, GoLiveInOrder, ReadyMeansDone, Requests, Pc, Ats
<1>14. ASSUME NEW o \in Clerks, NEW k \in Keys, NEW s \in {"TODO", "DONE"}, PatchLoad(o, k, s)
       PROVE  IInv'
  <2> DEFINE d == IF s = "DONE" THEN done \cup {k} ELSE done \ {k}
             q == [at |-> "patch", done |-> d]
  <2>1. Goto(o, q) /\ UNCHANGED <<mode, gl, done, rows, snaps, faults>>
    BY <1>14 DEF PatchLoad
  <2>2. d \in SUBSET Keys
    BY <1>t DEF TypeOK
  <2> HIDE DEF d
  <2>3. q \in Pc /\ q.at = "patch"
    BY <2>2 DEF Pc
  <2> HIDE DEF q
  <2>4. pc' \in [Requests -> Pc] /\ OnTheWay'
    BY <1>t, <2>1, <2>3, GotoInv
  <2> QED
    BY <1>t, <2>1, <2>4 DEF IInv, TypeOK, GoLiveInOrder, ReadyMeansDone, Requests, Pc, Ats
<1>15. ASSUME NEW o \in Clerks, PatchWrite(o) PROVE IInv'
  <2>1. /\ pc[o].at = "patch" /\ Goto(o, Idle) /\ done' = pc[o].done
        /\ gl' = ProgressOf(pc[o].done) /\ UNCHANGED <<mode, rows, snaps, faults>>
    BY <1>15 DEF PatchWrite
  <2>2. pc[o].done \in SUBSET Keys
    BY <1>t, <2>1 DEF Pc, Ats
  <2>3. pc' \in [Requests -> Pc] /\ OnTheWay'
    BY <1>t, <1>q, <2>1, GotoInv
  <2>4. GoLiveInOrder' /\ ReadyMeansDone' /\ gl' \in {"READY", "IN_PROGRESS"}
    BY <1>t, <2>1 DEF ProgressOf, GoLiveInOrder, ReadyMeansDone
  <2> QED
    BY <1>t, <2>1, <2>2, <2>3, <2>4 DEF IInv, TypeOK, Requests, Pc, Ats
<1>16. ASSUME NEW o \in Requests, Crash(o) PROVE IInv'
  <2>1. /\ Goto(o, Idle) /\ UNCHANGED <<mode, gl, done, rows, snaps>>
        /\ faults' \in 0 .. MaxFaults
    BY <1>16, <1>t DEF Crash, TypeOK
  <2>2. pc' \in [Requests -> Pc] /\ OnTheWay'
    BY <1>t, <1>q, <2>1, GotoInv
  <2> QED
    BY <1>t, <2>1, <2>2 DEF IInv, TypeOK, GoLiveInOrder, ReadyMeansDone, Requests, Pc, Ats
<1>17. CASE UNCHANGED vars
  BY <1>17 DEF vars, IInv, TypeOK, GoLiveInOrder, ReadyMeansDone, OnTheWay
<1> QED
  BY <1>1, <1>2, <1>3, <1>4, <1>5, <1>6, <1>7, <1>8, <1>9, <1>10, <1>11, <1>12, <1>13,
     <1>14, <1>15, <1>16, <1>17 DEF Next, Work, Requests

LEMMA Invariant == Spec => []IInv
BY InitIInv, NextIInv, PTL DEF Spec

(* Every reachable state is well typed. *)
THEOREM TypeCorrect == Spec => []TypeOK
BY Invariant, PTL DEF IInv

(* Wherever activate is cut off, and whatever activations, resets and      *)
(* patches run at once, a LIVE tenant has its pre-go-live snapshot and a   *)
(* LIVE progress row its tenant and its baseline.                          *)
THEOREM ActivationInOrder == Spec => []GoLiveInOrder
BY Invariant, PTL DEF IInv

(* Racing calls of patchStep may lose a step, but never make the status    *)
(* differ from the steps that are stored.                                  *)
THEOREM ReadyIsDone == Spec => []ReadyMeansDone
BY Invariant, PTL DEF IInv

-----------------------------------------------------------------------------
(* One activation or reset at a time. *)
OneAtATime == \A o, p \in Operators : o = p

(* Until it flips the mode, the request that tested DEMO can rely on it:   *)
(* this is what a second request in flight breaks.                         *)
StillDemo ==
    \A o \in Operators :
        pc[o].at \in {"checklist", "pre", "clear", "flip", "safety", "load"} => mode = "DEMO"

LEMMA InitStillDemo == Init => StillDemo
BY DEF Init, StillDemo, Idle

(* Only a request between its test of the mode and its last write, or its  *)
(* flip, can disturb StillDemo.                                            *)
LEMMA NextStillDemo ==
    ASSUME OneAtATime
    PROVE  IInv /\ StillDemo /\ [Next]_vars => StillDemo'
<1> SUFFICES ASSUME IInv, StillDemo, [Next]_vars, NEW o \in Operators,
                    pc'[o].at \in {"checklist", "pre", "clear", "flip", "safety", "load"}
             PROVE  mode' = "DEMO"
  BY DEF StillDemo
<1> USE DEF Goto, Idle
<1>t. pc \in [Requests -> Pc] /\ mode \in {"DEMO", "LIVE"} /\ o \in Requests
  BY DEF IInv, TypeOK, Requests, Pc, Ats
<1>o. \A p \in Operators : p = o
  BY DEF OneAtATime
<1>d. pc[o].at \in {"checklist", "pre", "clear", "flip", "safety", "load"} => mode = "DEMO"
  BY DEF StillDemo
<1>1. CASE ActivateReadTenant(o)
  BY <1>1, <1>t DEF ActivateReadTenant
<1>2. CASE ResetRead(o)
  BY <1>2 DEF ResetRead
<1>3. CASE Work(o)
  BY <1>3, <1>t, <1>d DEF Work, ActivateChecklist, ActivateSnapshot, ActivateClear, ActivateFlip,
        ActivateBaseline, ActivateMark, ResetSnapshot, ResetLoad
<1>4. ASSUME NEW c \in Clerks, NEW k \in Keys, NEW s \in {"TODO", "DONE"}, PatchLoad(c, k, s)
      PROVE  mode' = "DEMO"
  BY <1>4, <1>t, <1>d DEF PatchLoad
<1>5. ASSUME NEW c \in Clerks, PatchWrite(c) PROVE mode' = "DEMO"
  BY <1>5, <1>t, <1>d DEF PatchWrite
<1>6. ASSUME NEW c \in Requests, Crash(c) PROVE mode' = "DEMO"
  BY <1>6, <1>t, <1>d DEF Crash
<1>7. CASE CreateProgress \/ EnsureDemoBaseline \/ UserWrites \/ UNCHANGED vars
  BY <1>7, <1>d DEF CreateProgress, EnsureDemoBaseline, UserWrites, vars
<1> QED
  BY <1>o, <1>1, <1>2, <1>3, <1>4, <1>5, <1>6, <1>7 DEF Next, Requests

(* Rows are taken away only by requests that can rely on DEMO. *)
LEMMA NextKeeps ==
    ASSUME IInv, StillDemo, [Next]_vars
    PROVE  mode = "LIVE" /\ "prod" \in rows => "prod" \in rows'
<1>1. ASSUME NEW o \in Operators, ActivateClear(o) \/ ResetLoad(o)
      PROVE  mode = "DEMO"
  BY <1>1 DEF StillDemo, ActivateClear, ResetLoad
<1>2. CASE rows \subseteq rows'
  BY <1>2
<1>3. CASE \E o \in Operators : ActivateClear(o) \/ ResetLoad(o)
  BY <1>1, <1>3
<1>4. (\E o \in Operators : ActivateClear(o) \/ ResetLoad(o)) \/ rows \subseteq rows'
  BY DEF Next, Work, vars, CreateProgress, EnsureDemoBaseline, UserWrites, PatchLoad, PatchWrite,
         Crash, ActivateReadTenant, ActivateChecklist, ActivateSnapshot, ActivateFlip,
         ActivateBaseline, ActivateMark, ResetRead, ResetSnapshot
<1> QED
  BY <1>2, <1>3, <1>4

(* With one activation or reset at a time, what the users of a LIVE tenant *)
(* have written is never wiped, wherever the request is cut off.           *)
THEOREM SerialProductionKept ==
    ASSUME OneAtATime
    PROVE  Spec => ProductionKept
<1>1. Spec => []StillDemo
  BY Invariant, InitStillDemo, NextStillDemo, PTL DEF Spec
<1>2. IInv /\ StillDemo /\ [Next]_vars =>
        [mode = "LIVE" /\ "prod" \in rows => "prod" \in rows']_vars
  BY NextKeeps
<1> QED
  BY <1>1, <1>2, Invariant, PTL DEF Spec, ProductionKept

-----------------------------------------------------------------------------
(* Backups: what resetToBaseline loads and what activate leaves behind are *)
(* rows of the backup component.  Its specification is another one, over   *)
(* variables of its own.                                                   *)

(* The ordinary backups of tenant t in the table jb. *)
Ordinary(jb, t) == {j \in Jobs : jb[j].tenant = t /\ jb[j].kind # "DEMO_BASELINE"}

(* Row j is ordinary and not the newest of its tenant. *)
Spare(jb, j) ==
    jb[j].kind # "DEMO_BASELINE" /\ \E k \in Ordinary(jb, jb[j].tenant) : k > j

(* Every row of V is spare, or gone already. *)
Expendable(jb, V) == \A v \in V : jb[v] # NoJob => Spare(jb, v)

(* The table without the rows of V. *)
Without(jb, V) == [j \in Jobs |-> IF j \in V THEN NoJob ELSE jb[j]]

(* The other rows stay what they are, and spare where they were. *)
KeepsRest(jb, V, new) ==
    \A j \in Jobs : new[j] # NoJob =>
        j \notin V /\ new[j] = jb[j] /\ (Spare(jb, j) => Spare(new, j))

(* A tenant with an ordinary backup before has one afterwards. *)
KeepsOne(jb, new) == \A t \in Tenants : Ordinary(jb, t) # {} => Ordinary(new, t) # {}

Busy == {"begin", "write", "commit", "scan", "prune", "mark", "failed"}

(* What a worker has in hand. *)
HandInv ==
    /\ \A w \in Workers : worker[w].at \in Busy => worker[w].t \in Tenants
    /\ \A w \in Workers : worker[w].at \in {"write", "commit"} =>
            /\ worker[w].j \in 1 .. started
            /\ job[worker[w].j] = NoJob
            /\ worker[w].at = "commit" => worker[w].j \in bundle
    /\ \A w, x \in Workers :
            /\ w # x
            /\ worker[w].at \in {"write", "commit"} /\ worker[x].at \in {"write", "commit"}
            => worker[w].j # worker[x].j

NewestIn(jb) ==
    \A t \in Tenants : Ordinary(jb, t) # {} =>
        \E m \in Ordinary(jb, t) : \A k \in Ordinary(jb, t) : k <= m

VictimInv ==
    \A w \in Workers : worker[w].at = "prune" => \A v \in worker[w].victims :
        /\ v <= cutoff
        /\ job[v] # NoJob => Spare(job, v)
        /\ \A x \in Workers : worker[x].at \in {"write", "commit"} => worker[x].j # v

KeptInv ==
    \A j \in Jobs : job[j] # NoJob =>
        /\ j <= started
        /\ j \in bundle \/ (j <= cutoff /\ Spare(job, j))

BInv == BackupTypeOK /\ HandInv /\ NewestIn(job) /\ VictimInv /\ KeptInv

USE DEF Jobs, BackupKinds

LEMMA InitB == BackupInit => BInv
<1> SUFFICES ASSUME BackupInit PROVE BInv
  OBVIOUS
<1> USE BackupAssumption DEF BackupInit
<1>1. NoWork \in WorkerType /\ NoWork.at = "idle"
  BY DEF NoWork, WorkerType, Places
<1>2. BackupTypeOK
  BY <1>1 DEF BackupTypeOK, RowType
<1>3. \A w \in Workers : worker[w].at = "idle"
  BY <1>1
<1>4. HandInv /\ VictimInv
  BY <1>3 DEF HandInv, VictimInv, Busy
<1>5. KeptInv
  BY DEF KeptInv
<1>6. \A t \in Tenants : Ordinary(job, t) = {}
  BY DEF Ordinary, NoJob
<1>7. NewestIn(job)
  BY <1>6 DEF NewestIn
<1> QED
  BY <1>2, <1>4, <1>5, <1>7 DEF BInv

(* Worker w goes to p. *)
LEMMA Moves ==
    ASSUME BackupTypeOK, NEW w \in Workers, NEW p \in WorkerType, TurnsTo(w, p)
    PROVE  /\ worker' \in [Workers -> WorkerType]
           /\ worker'[w] = p
           /\ \A x \in Workers : x # w => worker'[x] = worker[x]
BY DEF BackupTypeOK, TurnsTo

(* A step that moves one worker, to where it writes and prunes nothing,    *)
(* and leaves the rows and bundles alone.                                  *)
LEMMA QuietStep ==
    ASSUME BInv, NEW w \in Workers, NEW p \in WorkerType, TurnsTo(w, p),
           p.at \notin {"write", "commit", "prune"}, p.at \in Busy => p.t \in Tenants,
           UNCHANGED <<job, started, bundle, cutoff>>,
           enabled' \in SUBSET Tenants, due' \in SUBSET Tenants, failures' \in 0 .. MaxFailures
    PROVE  BInv'
<1> USE DEF BInv
<1>1. /\ worker' \in [Workers -> WorkerType]
      /\ worker'[w] = p
      /\ \A x \in Workers : x # w => worker'[x] = worker[x]
  BY Moves
<1>2. BackupTypeOK'
  BY <1>1 DEF BackupTypeOK
<1>3. HandInv'
  BY <1>1 DEF HandInv
<1>4. VictimInv'
  BY <1>1 DEF VictimInv
<1>5. KeptInv' /\ NewestIn(job)'
  BY DEF KeptInv, NewestIn
<1> QED
  BY <1>2, <1>3, <1>4, <1>5

LEMMA AtType ==
    ASSUME NEW at \in Places, NEW via \in {"sweep", "now", "baseline"},
           NEW todo \in SUBSET Tenants, NEW t \in Tenants \cup {"none"}
    PROVE  /\ At(at, via, todo, t) \in WorkerType
           /\ At(at, via, todo, t).at = at
           /\ At(at, via, todo, t).t = t
BY BackupAssumption DEF At, WorkerType

LEMMA EditAt ==
    ASSUME NEW r \in WorkerType, NEW a \in Places, NEW q, q = [r EXCEPT !.at = a]
    PROVE  q \in WorkerType /\ q.at = a /\ q.j = r.j /\ q.t = r.t
BY DEF WorkerType

LEMMA EditJob ==
    ASSUME NEW r \in WorkerType, NEW a \in Places, NEW n \in 0 .. MaxJobs,
           NEW q, q = [r EXCEPT !.at = a, !.j = n]
    PROVE  q \in WorkerType /\ q.at = a /\ q.j = n /\ q.t = r.t
<1>1. q = [at |-> a, via |-> r.via, todo |-> r.todo, t |-> r.t, j |-> n, victims |-> r.victims]
  BY DEF WorkerType
<1> QED
  BY <1>1 DEF WorkerType

LEMMA EditVictims ==
    ASSUME NEW r \in WorkerType, NEW a \in Places, NEW V \in SUBSET (Jobs),
           NEW q, q = [r EXCEPT !.at = a, !.victims = V]
    PROVE  q \in WorkerType /\ q.at = a /\ q.victims = V /\ q.t = r.t
<1>1. q = [at |-> a, via |-> r.via, todo |-> r.todo, t |-> r.t, j |-> r.j, victims |-> V]
  BY DEF WorkerType
<1> QED
  BY <1>1 DEF WorkerType

LEMMA IdleType ==
    NoWork \in WorkerType /\ NoWork.at = "idle"
BY BackupAssumption DEF NoWork, WorkerType, Places

(* Requests and sweeps start, move on and end. *)
LEMMA QuietSteps ==
    ASSUME BInv, NEW w \in Workers,
           \/ \E force \in BOOLEAN : SweepStart(w, force)
           \/ \E t \in Tenants : RunNow(w, t) \/ StartBaseline(w, t)
           \/ SweepNext(w) \/ MarkCompleted(w) \/ MarkFailed(w) \/ Throw(w) \/ Dies(w)
    PROVE  BInv'
<1> USE IdleType, AtType DEF Places
<1>0. /\ worker[w] \in WorkerType /\ worker[w].todo \in SUBSET Tenants
      /\ enabled \in SUBSET Tenants /\ due \in SUBSET Tenants /\ failures \in 0 .. MaxFailures
      /\ worker[w].at \in Busy => worker[w].t \in Tenants
  BY DEF BInv, BackupTypeOK, HandInv, WorkerType
<1>1. ASSUME NEW force \in BOOLEAN, SweepStart(w, force) PROVE BInv'
  <2> DEFINE todo == IF force THEN enabled ELSE enabled \cap due
             p == At("next", "sweep", todo, "none")
  <2>1. p \in WorkerType /\ p.at = "next"
    BY <1>0
  <2>2. TurnsTo(w, p) /\ UNCHANGED <<job, started, bundle, cutoff, enabled, due, failures>>
    BY <1>1 DEF SweepStart
  <2> HIDE DEF p
  <2> QED
    BY <1>0, <2>1, <2>2, QuietStep DEF Busy
<1>2. ASSUME NEW t \in Tenants, NEW via \in {"now", "baseline"},
             TurnsTo(w, At("begin", via, {}, t)),
             UNCHANGED <<job, started, bundle, cutoff, enabled, due, failures>>
      PROVE BInv'
  <2> DEFINE p == At("begin", via, {}, t)
  <2>1. p \in WorkerType /\ p.at = "begin" /\ p.t = t
    BY <1>0
  <2>2. TurnsTo(w, p)
    BY <1>2
  <2> HIDE DEF p
  <2> QED
    BY <1>0, <1>2, <2>1, <2>2, QuietStep
<1>3. CASE \E t \in Tenants : RunNow(w, t) \/ StartBaseline(w, t)
  BY <1>2, <1>3 DEF RunNow, StartBaseline
<1>4. ASSUME TurnsTo(w, NoWork), UNCHANGED <<job, started, bundle, cutoff, enabled>>,
             due' \in SUBSET Tenants, failures' \in 0 .. MaxFailures
      PROVE BInv'
  BY <1>0, <1>4, QuietStep DEF Busy
<1>5. ASSUME TurnsTo(w, At("next", "sweep", worker[w].todo, "none")),
             UNCHANGED <<job, started, bundle, cutoff, enabled>>,
             due' \in SUBSET Tenants, failures' \in 0 .. MaxFailures
      PROVE BInv'
  <2> DEFINE p == At("next", "sweep", worker[w].todo, "none")
  <2>1. p \in WorkerType /\ p.at = "next"
    BY <1>0
  <2>2. TurnsTo(w, p)
    BY <1>5
  <2> HIDE DEF p
  <2> QED
    BY <1>0, <1>5, <2>1, <2>2, QuietStep DEF Busy
<1>6. CASE SweepNext(w)
  <2>1. CASE worker[w].todo = {}
    BY <1>0, <1>4, <1>6, <2>1 DEF SweepNext
  <2>2. ASSUME NEW t \in worker[w].todo,
               TurnsTo(w, At("begin", "sweep", worker[w].todo \ {t}, t))
        PROVE  BInv'
    <3> DEFINE p == At("begin", "sweep", worker[w].todo \ {t}, t)
    <3>1. p \in WorkerType /\ p.at = "begin" /\ p.t = t /\ t \in Tenants
      BY <1>0
    <3>2. TurnsTo(w, p) /\ UNCHANGED <<job, started, bundle, cutoff, enabled, due, failures>>
      BY <1>6, <2>2 DEF SweepNext
    <3> HIDE DEF p
    <3> QED
      BY <1>0, <3>1, <3>2, QuietStep
  <2> QED
    BY <1>6, <2>1, <2>2 DEF SweepNext
<1>7. CASE MarkCompleted(w)
  <2>1. due' \in SUBSET Tenants /\ failures' \in 0 .. MaxFailures
    BY <1>0, <1>7 DEF MarkCompleted
  <2> QED
    BY <1>4, <1>5, <1>7, <2>1 DEF MarkCompleted
<1>8. CASE MarkFailed(w)
  <2>1. due' \in SUBSET Tenants /\ failures' \in 0 .. MaxFailures
    BY <1>0, <1>8 DEF MarkFailed
  <2> QED
    BY <1>5, <1>8, <2>1 DEF MarkFailed
<1>9. CASE Throw(w)
  <2>1. /\ failures' \in 0 .. MaxFailures
        /\ worker[w].at \in Busy
    BY <1>0, <1>9, BackupAssumption DEF Throw, Throws, Failure, Busy
  <2>2. due' \in SUBSET Tenants /\ UNCHANGED <<job, started, bundle, cutoff, enabled>>
    BY <1>0, <1>9 DEF Throw
  <2>3. CASE worker[w].via = "sweep"
    <3> DEFINE p == At("failed", "sweep", worker[w].todo, worker[w].t)
    <3>3. p \in WorkerType /\ p.at = "failed" /\ p.t \in Tenants
      BY <1>0, <2>1
    <3>2. TurnsTo(w, p)
      BY <1>9, <2>3 DEF Throw
    <3> HIDE DEF p
    <3> QED
      BY <1>0, <2>1, <2>2, <3>2, <3>3, QuietStep
  <2> QED
    BY <1>4, <1>9, <2>1, <2>2, <2>3 DEF Throw
<1>10. CASE Dies(w)
  <2>1. /\ failures' \in 0 .. MaxFailures /\ due' \in SUBSET Tenants
        /\ UNCHANGED <<job, started, bundle, cutoff, enabled>> /\ TurnsTo(w, NoWork)
    BY <1>0, <1>10, BackupAssumption DEF Dies, Failure
  <2> QED
    BY <1>4, <2>1
<1> QED
  BY <1>1, <1>3, <1>6, <1>7, <1>8, <1>9, <1>10

(* A backup begins: it gets the next number, which nobody has. *)
LEMMA BeginStep ==
    ASSUME BInv, NEW w \in Workers, BackupBegin(w)
    PROVE  BInv'
<1> USE DEF BInv
<1>n. PICK n : n = started + 1
  OBVIOUS
<1>p. PICK p : p = [worker[w] EXCEPT !.at = "write", !.j = n]
  OBVIOUS
<1>0. /\ worker[w] \in WorkerType /\ worker[w].t \in Tenants
      /\ started \in 0 .. MaxJobs /\ MaxJobs \in Nat /\ started < MaxJobs
      /\ started' = started + 1 /\ TurnsTo(w, p)
      /\ UNCHANGED <<job, bundle, cutoff, enabled, due, failures>>
  BY <1>n, <1>p, BackupAssumption DEF BackupTypeOK, HandInv, Busy, BackupBegin
<1>1. n \in 0 .. MaxJobs /\ n = started + 1
  BY <1>0, <1>n
<1>2. p \in WorkerType /\ p.at = "write" /\ p.j = n /\ p.t = worker[w].t
  <2>1. worker[w] \in WorkerType /\ n \in 0 .. MaxJobs /\ "write" \in Places
    BY <1>0, <1>1 DEF Places
  <2> QED
    BY <1>p, <2>1 DEF WorkerType
<1>3. /\ worker' \in [Workers -> WorkerType]
      /\ worker'[w] = p
      /\ \A x \in Workers : x # w => worker'[x] = worker[x]
  BY <1>0, <1>2, Moves
<1>4. BackupTypeOK'
  BY <1>0, <1>3 DEF BackupTypeOK
<1>5. job[started + 1] = NoJob
  BY <1>0 DEF KeptInv
<1>6. HandInv'
  <2>1. \A x \in Workers : worker'[x].at \in Busy => worker'[x].t \in Tenants
    BY <1>0, <1>2, <1>3 DEF HandInv
  <2>2. \A x \in Workers : x # w /\ worker'[x].at \in {"write", "commit"} =>
            /\ worker'[x].j \in 1 .. started
            /\ job[worker'[x].j] = NoJob
            /\ worker'[x].at = "commit" => worker'[x].j \in bundle
    BY <1>3 DEF HandInv
  <2>3. \A x, y \in Workers :
            /\ x # y
            /\ worker'[x].at \in {"write", "commit"} /\ worker'[y].at \in {"write", "commit"}
            => worker'[x].j # worker'[y].j
    <3> SUFFICES ASSUME NEW x \in Workers, NEW y \in Workers, x # y,
                        worker'[x].at \in {"write", "commit"}, worker'[y].at \in {"write", "commit"}
                 PROVE  worker'[x].j # worker'[y].j
      OBVIOUS
    <3>1. CASE x # w /\ y # w
      BY <1>3, <3>1 DEF HandInv
    <3>2. CASE x = w
      BY <1>0, <1>1, <1>2, <1>3, <2>2, <3>2
    <3>3. CASE y = w
      BY <1>0, <1>1, <1>2, <1>3, <2>2, <3>3
    <3> QED
      BY <3>1, <3>2, <3>3
  <2>4. \A x \in Workers : worker'[x].at \in {"write", "commit"} =>
            /\ worker'[x].j \in 1 .. started'
            /\ job'[worker'[x].j] = NoJob
            /\ worker'[x].at = "commit" => worker'[x].j \in bundle'
    BY <1>0, <1>1, <1>2, <1>3, <1>5, <2>2
  <2> QED
    BY <2>1, <2>3, <2>4 DEF HandInv
<1>7. VictimInv'
  <2> SUFFICES ASSUME NEW x \in Workers, worker'[x].at = "prune", NEW v \in worker'[x].victims
               PROVE  /\ v <= cutoff'
                      /\ job'[v] # NoJob => Spare(job', v)
                      /\ \A y \in Workers : worker'[y].at \in {"write", "commit"} => worker'[y].j # v
    BY DEF VictimInv
  <2>1. x # w /\ worker'[x] = worker[x]
    BY <1>2, <1>3
  <2>2. /\ v <= cutoff
        /\ job[v] # NoJob => Spare(job, v)
        /\ \A y \in Workers : worker[y].at \in {"write", "commit"} => worker[y].j # v
    BY <2>1 DEF VictimInv
  <2>3. v < started + 1 /\ cutoff \in 0 .. started /\ v \in Jobs
    BY <1>0, <2>1, <2>2 DEF BackupTypeOK, WorkerType
  <2> QED
    BY <1>0, <1>1, <1>2, <1>3, <2>2, <2>3
<1>8. KeptInv'
  BY <1>0 DEF KeptInv
<1>9. NewestIn(job)'
  BY <1>0 DEF NewestIn
<1> QED
  BY <1>4, <1>6, <1>7, <1>8, <1>9

(* The bundle of a backup is written. *)
LEMMA WriteStep ==
    ASSUME BInv, NEW w \in Workers, BackupWrite(w)
    PROVE  BInv'
<1> USE DEF BInv
<1>p. PICK p : p = [worker[w] EXCEPT !.at = "commit"]
  OBVIOUS
<1>0. /\ worker[w] \in WorkerType /\ worker[w].at = "write"
      /\ worker[w].j \in 1 .. started /\ worker[w].t \in Tenants
      /\ bundle' = bundle \cup {worker[w].j} /\ TurnsTo(w, p)
      /\ UNCHANGED <<job, started, cutoff, enabled, due, failures>>
  BY <1>p DEF BackupTypeOK, HandInv, Busy, BackupWrite
<1>2. p \in WorkerType /\ p.at = "commit" /\ p.j = worker[w].j /\ p.t = worker[w].t
  BY <1>0, <1>p, EditAt DEF Places
<1>3. /\ worker' \in [Workers -> WorkerType]
      /\ worker'[w] = p
      /\ \A x \in Workers : x # w => worker'[x] = worker[x]
  BY <1>0, <1>2, Moves
<1>4. BackupTypeOK'
  BY <1>0, <1>3 DEF BackupTypeOK
<1>5. \A x \in Workers :
        /\ worker'[x].at \in {"write", "commit"} <=> worker[x].at \in {"write", "commit"}
        /\ worker'[x].at \in Busy => worker[x].at \in Busy
        /\ worker'[x].j = worker[x].j /\ worker'[x].t = worker[x].t
        /\ worker'[x].at = "prune" => worker'[x] = worker[x]
  BY <1>0, <1>2, <1>3 DEF Busy
<1>6. HandInv'
  <2>1. \A x \in Workers : worker'[x].at = "commit" => worker'[x].j \in bundle'
    BY <1>0, <1>2, <1>3 DEF HandInv
  <2> QED
    BY <1>0, <1>5, <2>1 DEF HandInv
<1>7. VictimInv'
  BY <1>0, <1>5 DEF VictimInv
<1>8. KeptInv'
  BY <1>0 DEF KeptInv
<1>9. NewestIn(job)'
  BY <1>0 DEF NewestIn
<1> QED
  BY <1>4, <1>6, <1>7, <1>8, <1>9

(* A row is added: what was spare stays spare, and somebody is newest. *)
LEMMA AddRow ==
    ASSUME NEW jb \in [Jobs -> RowType], NewestIn(jb),
           NEW n \in Jobs, jb[n] = NoJob,
           NEW r \in [tenant : Tenants, kind : BackupKinds],
           NEW new, new = [jb EXCEPT ![n] = r]
    PROVE  /\ new \in [Jobs -> RowType]
           /\ new[n] = r /\ \A j \in Jobs : j # n => new[j] = jb[j]
           /\ NewestIn(new)
           /\ \A j \in Jobs : jb[j] # NoJob /\ Spare(jb, j) => Spare(new, j)
<1>0. MaxJobs \in Nat /\ n \in Nat /\ Jobs \subseteq Nat
  BY BackupAssumption
<1>1. /\ new \in [Jobs -> RowType]
      /\ new[n] = r /\ \A j \in Jobs : j # n => new[j] = jb[j]
  BY DEF RowType
<1>2. r.tenant \in Tenants /\ NoJob.tenant \notin Tenants
  BY BackupAssumption DEF NoJob
<1>3. \A t \in Tenants : /\ Ordinary(jb, t) \subseteq Ordinary(new, t)
                         /\ Ordinary(new, t) \subseteq Ordinary(jb, t) \cup {n}
                         /\ Ordinary(new, t) \subseteq Nat
  BY <1>0, <1>1, <1>2 DEF Ordinary
<1>4. ASSUME NEW t \in Tenants, Ordinary(new, t) # {}
      PROVE  \E m \in Ordinary(new, t) : \A k \in Ordinary(new, t) : k <= m
  <2>1. CASE n \notin Ordinary(new, t)
    <3>1. Ordinary(new, t) = Ordinary(jb, t)
      BY <1>3, <2>1
    <3> QED
      BY <1>4, <3>1 DEF NewestIn
  <2>0. CASE n \in Ordinary(new, t) /\ Ordinary(jb, t) = {}
    <3>1. \A k \in Ordinary(new, t) : k = n
      BY <1>3, <2>0
    <3>2. n <= n
      BY <1>0
    <3> QED
      BY <2>0, <3>1, <3>2
  <2>2. CASE n \in Ordinary(new, t) /\ Ordinary(jb, t) # {}
    <3>1. PICK m \in Ordinary(jb, t) : \A k \in Ordinary(jb, t) : k <= m
      BY <2>2 DEF NewestIn
    <3>2. m \in Nat /\ n \in Nat
      BY <1>0, <1>3
    <3>3. CASE n <= m
      <4>1. \A k \in Ordinary(new, t) : k <= m
        BY <1>3, <3>1, <3>2, <3>3
      <4> QED
        BY <1>3, <4>1
    <3>4. CASE m <= n
      <4>1. SUFFICES ASSUME NEW k \in Ordinary(new, t) PROVE k <= n
        BY <2>2
      <4>2. k \in Nat /\ (k = n \/ k \in Ordinary(jb, t))
        BY <1>3
      <4> QED
        BY <3>1, <3>2, <3>4, <4>2
    <3>5. n <= m \/ m <= n
      BY <3>2
    <3> QED
      BY <3>3, <3>4, <3>5
  <2> QED
    BY <2>0, <2>1, <2>2
<1>5. ASSUME NEW j \in Jobs, jb[j] # NoJob, Spare(jb, j) PROVE Spare(new, j)
  <2>1. jb[j].tenant \in Tenants /\ new[j] = jb[j]
    BY <1>1, <1>5 DEF RowType
  <2> QED
    BY <1>3, <1>5, <2>1 DEF Spare
<1> QED
  BY <1>1, <1>4, <1>5 DEF NewestIn

(* Spare rows are deleted: each tenant keeps its newest, so what is left   *)
(* and was spare still is.                                                 *)
LEMMA DeleteRows ==
    ASSUME NEW jb \in [Jobs -> RowType], NewestIn(jb),
           NEW V \in SUBSET (Jobs),
           Expendable(jb, V),
           NEW new, new = Without(jb, V)
    PROVE  /\ new \in [Jobs -> RowType]
           /\ NewestIn(new)
           /\ KeepsRest(jb, V, new)
           /\ KeepsOne(jb, new)
<1>1. /\ new \in [Jobs -> RowType]
      /\ \A j \in V : new[j] = NoJob
      /\ \A j \in Jobs : j \notin V => new[j] = jb[j]
  BY DEF RowType, Without
<1>2. NoJob.tenant \notin Tenants
  BY BackupAssumption DEF NoJob
<1>3. \A t \in Tenants : Ordinary(new, t) \subseteq Ordinary(jb, t) /\ Ordinary(jb, t) \subseteq Jobs
  BY <1>1, <1>2 DEF Ordinary
<1>4. ASSUME NEW t \in Tenants, NEW m \in Ordinary(jb, t), \A k \in Ordinary(jb, t) : k <= m
      PROVE  m \in Ordinary(new, t)
  <2>1. jb[m].tenant = t /\ jb[m] # NoJob /\ m \in Jobs
    BY <1>2 DEF Ordinary
  <2>2. ~Spare(jb, m)
    BY <1>3, <1>4, <2>1 DEF Spare
  <2>3. m \notin V
    BY <2>1, <2>2 DEF Expendable
  <2> QED
    BY <1>1, <2>1, <2>3 DEF Ordinary
<1>5. ASSUME NEW t \in Tenants, Ordinary(jb, t) # {}
      PROVE  \E m \in Ordinary(new, t) : \A k \in Ordinary(jb, t) : k <= m
  BY <1>4, <1>5 DEF NewestIn
<1>6. NewestIn(new)
  BY <1>3, <1>5 DEF NewestIn
<1>7. ASSUME NEW j \in Jobs, new[j] # NoJob, Spare(jb, j) PROVE Spare(new, j)
  <2>1. new[j] = jb[j] /\ jb[j].tenant \in Tenants
    BY <1>1, <1>7 DEF RowType
  <2>2. PICK k \in Ordinary(jb, jb[j].tenant) : k > j
    BY <1>7 DEF Spare
  <2>3. PICK m \in Ordinary(new, jb[j].tenant) : \A i \in Ordinary(jb, jb[j].tenant) : i <= m
    BY <1>5, <2>1, <2>2
  <2>4. m > j
    BY <1>3, <2>1, <2>2, <2>3
  <2> QED
    BY <1>7, <2>1, <2>3, <2>4 DEF Spare
<1>8. KeepsOne(jb, new)
  BY <1>5 DEF KeepsOne
<1>9. KeepsRest(jb, V, new)
  BY <1>1, <1>7 DEF KeepsRest
<1> QED
  BY <1>1, <1>6, <1>8, <1>9

(* The row of a backup is committed: it has its bundle, and it was nobody's *)
(* before.                                                                  *)
LEMMA CommitStep ==
    ASSUME BInv, NEW w \in Workers, BackupCommit(w)
    PROVE  BInv'
<1> USE DEF BInv
<1>r. PICK r : r = [tenant |-> worker[w].t,
                    kind |-> IF worker[w].via = "baseline" THEN "DEMO_BASELINE"
                             ELSE "LOGICAL_TENANT"]
  OBVIOUS
<1>0. /\ worker[w] \in WorkerType /\ worker[w].at = "commit"
      /\ worker[w].j \in 1 .. started /\ worker[w].t \in Tenants /\ worker[w].j \in bundle
      /\ job[worker[w].j] = NoJob
      /\ job' = [job EXCEPT ![worker[w].j] = r]
      /\ UNCHANGED <<started, bundle, cutoff, enabled, due, failures>>
  BY <1>r DEF BackupTypeOK, HandInv, Busy, BackupCommit
<1>1. PICK p \in WorkerType : TurnsTo(w, p) /\ p.at \in {"idle", "scan"} /\ (p.at = "scan" => p.t \in Tenants)
  <2>0. PICK z \in 0 .. MaxJobs : z = 0
    BY BackupAssumption
  <2>1. PICK q : q = [worker[w] EXCEPT !.at = "scan", !.j = z]
    OBVIOUS
  <2>2. q \in WorkerType /\ q.at = "scan" /\ q.t = worker[w].t
    BY <1>0, <2>1 DEF WorkerType, Places
  <2>3. TurnsTo(w, q) \/ TurnsTo(w, NoWork)
    BY <2>0, <2>1 DEF BackupCommit
  <2> QED
    BY <1>0, <2>2, <2>3, IdleType
<1>2. /\ worker' \in [Workers -> WorkerType]
      /\ worker'[w] = p
      /\ \A x \in Workers : x # w => worker'[x] = worker[x]
  BY <1>1, Moves
<1>3. PICK n \in Jobs : n = worker[w].j
  BY <1>0, BackupAssumption DEF BackupTypeOK
<1>4. r \in [tenant : Tenants, kind : BackupKinds]
  BY <1>0, <1>r
<1>5. job \in [Jobs -> RowType] /\ job[n] = NoJob /\ job' = [job EXCEPT ![n] = r]
  BY <1>0, <1>3 DEF BackupTypeOK
<1>6. /\ job' \in [Jobs -> RowType]
      /\ job'[n] = r /\ \A j \in Jobs : j # n => job'[j] = job[j]
      /\ NewestIn(job')
      /\ \A j \in Jobs : job[j] # NoJob /\ Spare(job, j) => Spare(job', j)
  BY <1>4, <1>5, AddRow
<1>7. BackupTypeOK'
  BY <1>0, <1>2, <1>6 DEF BackupTypeOK
<1>8. \A x \in Workers : worker'[x].at \in {"write", "commit"} \/ worker'[x].at = "prune" =>
            x # w /\ worker'[x] = worker[x]
  BY <1>1, <1>2
<1>9. HandInv'
  <2>1. \A x \in Workers : worker'[x].at \in Busy => worker'[x].t \in Tenants
    BY <1>1, <1>2 DEF HandInv, Busy
  <2>2. ASSUME NEW x \in Workers, worker'[x].at \in {"write", "commit"}
        PROVE  /\ worker'[x].j \in 1 .. started'
               /\ job'[worker'[x].j] = NoJob
               /\ worker'[x].at = "commit" => worker'[x].j \in bundle'
    <3>1. x # w /\ worker'[x] = worker[x] /\ worker[x].j # worker[w].j
      BY <1>0, <1>8, <2>2 DEF HandInv
    <3>2. /\ worker[x].j \in 1 .. started /\ job[worker[x].j] = NoJob
          /\ worker[x].at = "commit" => worker[x].j \in bundle
      BY <2>2, <3>1 DEF HandInv
    <3>3. worker[x].j \in Jobs
      BY <3>2, BackupAssumption DEF BackupTypeOK
    <3> QED
      BY <1>0, <1>3, <1>6, <3>1, <3>2, <3>3
  <2>3. \A x, y \in Workers :
            /\ x # y
            /\ worker'[x].at \in {"write", "commit"} /\ worker'[y].at \in {"write", "commit"}
            => worker'[x].j # worker'[y].j
    BY <1>8 DEF HandInv
  <2> QED
    BY <2>1, <2>2, <2>3 DEF HandInv
<1>10. VictimInv'
  <2> SUFFICES ASSUME NEW x \in Workers, worker'[x].at = "prune", NEW v \in worker'[x].victims
               PROVE  /\ v <= cutoff'
                      /\ job'[v] # NoJob => Spare(job', v)
                      /\ \A y \in Workers : worker'[y].at \in {"write", "commit"} => worker'[y].j # v
    BY DEF VictimInv
  <2>1. worker'[x] = worker[x] /\ v \in Jobs
    BY <1>2, <1>8 DEF WorkerType
  <2>2. /\ v <= cutoff
        /\ job[v] # NoJob => Spare(job, v)
        /\ \A y \in Workers : worker[y].at \in {"write", "commit"} => worker[y].j # v
    BY <2>1 DEF VictimInv
  <2>3. v # n
    BY <1>0, <1>3, <2>2
  <2> QED
    BY <1>0, <1>6, <1>8, <2>1, <2>2, <2>3
<1>11. KeptInv'
  <2> SUFFICES ASSUME NEW j \in Jobs, job'[j] # NoJob
               PROVE  /\ j <= started'
                      /\ j \in bundle' \/ (j <= cutoff' /\ Spare(job', j))
    BY DEF KeptInv
  <2>1. CASE j = n
    BY <1>0, <1>3, <2>1
  <2>2. CASE j # n
    BY <1>0, <1>6, <2>2 DEF KeptInv
  <2> QED
    BY <2>1, <2>2
<1> QED
  BY <1>6, <1>7, <1>9, <1>10, <1>11

(* pruneRetention looks for its victims. *)
LEMMA ScanStep ==
    ASSUME BInv, NEW w \in Workers, PruneScan(w)
    PROVE  BInv'
<1> USE DEF BInv
<1>v. PICK V : V = Victims(worker[w].t)
  OBVIOUS
<1>p. PICK p : p = [worker[w] EXCEPT !.at = "prune", !.victims = V]
  OBVIOUS
<1>0. /\ worker[w] \in WorkerType /\ worker[w].t \in Tenants /\ TurnsTo(w, p)
      /\ UNCHANGED <<job, started, bundle, cutoff, enabled, due, failures>>
  BY <1>p, <1>v DEF BackupTypeOK, HandInv, Busy, PruneScan
<1>1. /\ V \in SUBSET (Jobs)
      /\ \A v \in V : v <= cutoff /\ job[v].tenant = worker[w].t /\ Spare(job, v)
  BY <1>v DEF Victims, Prunable, Completed, Spare, Ordinary
<1>2. p \in WorkerType /\ p.at = "prune" /\ p.victims = V /\ p.t = worker[w].t
  BY <1>0, <1>1, <1>p DEF WorkerType, Places
<1>3. /\ worker' \in [Workers -> WorkerType]
      /\ worker'[w] = p
      /\ \A x \in Workers : x # w => worker'[x] = worker[x]
  BY <1>0, <1>2, Moves
<1>4. BackupTypeOK'
  BY <1>0, <1>3 DEF BackupTypeOK
<1>5. HandInv'
  BY <1>0, <1>2, <1>3 DEF HandInv
<1>6. VictimInv'
  <2>1. NoJob.tenant \notin Tenants
    BY BackupAssumption DEF NoJob
  <2>2. \A v \in V : \A x \in Workers : worker[x].at \in {"write", "commit"} => worker[x].j # v
    BY <1>0, <1>1, <2>1 DEF HandInv
  <2>3. \A x \in Workers : worker'[x].at \in {"write", "commit"} => worker'[x] = worker[x]
    BY <1>2, <1>3
  <2> SUFFICES ASSUME NEW x \in Workers, worker'[x].at = "prune", NEW v \in worker'[x].victims
               PROVE  /\ v <= cutoff
                      /\ job[v] # NoJob => Spare(job, v)
                      /\ \A y \in Workers : worker[y].at \in {"write", "commit"} => worker[y].j # v
    BY <1>0, <2>3 DEF VictimInv
  <2>4. CASE x = w
    BY <1>1, <1>2, <1>3, <2>2, <2>4
  <2>5. CASE x # w
    BY <1>3, <2>5 DEF VictimInv
  <2> QED
    BY <2>4, <2>5
<1>7. KeptInv' /\ NewestIn(job)'
  BY <1>0 DEF KeptInv, NewestIn
<1> QED
  BY <1>4, <1>5, <1>6, <1>7

(* The folder of a victim goes: the row is spare, or has gone already. *)
LEMMA FolderStep ==
    ASSUME BInv, NEW w \in Workers, PruneFolder(w)
    PROVE  BInv'
<1> USE DEF BInv
<1>1. PICK v \in worker[w].victims : bundle' = bundle \ {v}
  BY DEF PruneFolder
<1>0. worker[w].at = "prune" /\ UNCHANGED <<job, started, cutoff, enabled, due, worker, failures>>
  BY DEF PruneFolder
<1>2. /\ v <= cutoff
      /\ job[v] # NoJob => Spare(job, v)
      /\ \A x \in Workers : worker[x].at \in {"write", "commit"} => worker[x].j # v
  BY <1>0 DEF VictimInv
<1>3. BackupTypeOK'
  BY <1>0, <1>1 DEF BackupTypeOK
<1>4. HandInv'
  BY <1>0, <1>1, <1>2 DEF HandInv
<1>5. VictimInv' /\ NewestIn(job)'
  BY <1>0 DEF VictimInv, NewestIn
<1>6. KeptInv'
  BY <1>0, <1>1, <1>2 DEF KeptInv
<1> QED
  BY <1>3, <1>4, <1>5, <1>6

(* The rows of the victims go. *)
LEMMA PruneStep ==
    ASSUME BInv, NEW w \in Workers, PruneCommit(w)
    PROVE  BInv'
<1> USE DEF BInv
<1>v. PICK V : V = worker[w].victims
  OBVIOUS
<1>p. PICK p : p = [worker[w] EXCEPT !.at = "mark", !.victims = {}]
  OBVIOUS
<1>0. /\ worker[w] \in WorkerType /\ worker[w].at = "prune" /\ worker[w].t \in Tenants /\ TurnsTo(w, p)
      /\ job' = Without(job, V)
      /\ UNCHANGED <<started, bundle, cutoff, enabled, due, failures>>
  BY <1>p, <1>v DEF BackupTypeOK, HandInv, Busy, PruneCommit, Without
<1>1. V \in SUBSET (Jobs) /\ Expendable(job, V)
  BY <1>0, <1>v DEF VictimInv, WorkerType, Expendable
<1>2. p \in WorkerType /\ p.at = "mark" /\ p.t = worker[w].t
  BY <1>0, <1>p DEF WorkerType, Places
<1>3. /\ worker' \in [Workers -> WorkerType]
      /\ worker'[w] = p
      /\ \A x \in Workers : x # w => worker'[x] = worker[x]
  BY <1>0, <1>2, Moves
<1>4. job \in [Jobs -> RowType]
  BY DEF BackupTypeOK
<1>r. job' \in [Jobs -> RowType] /\ NewestIn(job') /\ KeepsRest(job, V, job')
  BY <1>0, <1>1, <1>4, DeleteRows
<1>5. /\ job' \in [Jobs -> RowType]
      /\ NewestIn(job')
      /\ \A j \in Jobs : job'[j] # NoJob => j \notin V /\ job'[j] = job[j]
      /\ \A j \in Jobs : job'[j] # NoJob /\ Spare(job, j) => Spare(job', j)
  BY <1>r DEF KeepsRest
<1>6. BackupTypeOK'
  BY <1>0, <1>3, <1>5 DEF BackupTypeOK
<1>7. \A x \in Workers : worker'[x].at \in {"write", "commit"} \/ worker'[x].at = "prune" =>
            x # w /\ worker'[x] = worker[x]
  BY <1>2, <1>3
<1>8. HandInv'
  <2>1. \A x \in Workers : worker'[x].at \in Busy => worker'[x].t \in Tenants
    BY <1>0, <1>2, <1>3 DEF HandInv
  <2>2. ASSUME NEW x \in Workers, worker'[x].at \in {"write", "commit"}
        PROVE  /\ worker'[x].j \in 1 .. started'
               /\ job'[worker'[x].j] = NoJob
               /\ worker'[x].at = "commit" => worker'[x].j \in bundle'
    <3>2. /\ worker[x].j \in 1 .. started /\ job[worker[x].j] = NoJob
          /\ worker[x].at = "commit" => worker[x].j \in bundle
          /\ worker'[x] = worker[x]
      BY <1>7, <2>2 DEF HandInv
    <3>3. worker[x].j \in Jobs
      BY <3>2, BackupAssumption DEF BackupTypeOK
    <3> QED
      BY <1>0, <1>5, <3>2, <3>3
  <2>3. \A x, y \in Workers :
            /\ x # y
            /\ worker'[x].at \in {"write", "commit"} /\ worker'[y].at \in {"write", "commit"}
            => worker'[x].j # worker'[y].j
    BY <1>7 DEF HandInv
  <2> QED
    BY <2>1, <2>2, <2>3 DEF HandInv
<1>9. VictimInv'
  <2> SUFFICES ASSUME NEW x \in Workers, worker'[x].at = "prune", NEW v \in worker'[x].victims
               PROVE  /\ v <= cutoff'
                      /\ job'[v] # NoJob => Spare(job', v)
                      /\ \A y \in Workers : worker'[y].at \in {"write", "commit"} => worker'[y].j # v
    BY DEF VictimInv
  <2>1. worker'[x] = worker[x] /\ v \in Jobs
    BY <1>3, <1>7 DEF WorkerType
  <2>2. /\ v <= cutoff
        /\ job[v] # NoJob => Spare(job, v)
        /\ \A y \in Workers : worker[y].at \in {"write", "commit"} => worker[y].j # v
    BY <2>1 DEF VictimInv
  <2> QED
    BY <1>0, <1>5, <1>7, <2>1, <2>2
<1>10. KeptInv'
  BY <1>0, <1>5 DEF KeptInv
<1> QED
  BY <1>5, <1>6, <1>8, <1>9, <1>10

(* A tenant that has an ordinary backup has one after a prune. *)
LEMMA PruneKeepsOne ==
    ASSUME BInv, NEW w \in Workers, PruneCommit(w)
    PROVE  KeepsOne(job, job')
<1>1. PICK V : V = worker[w].victims
  OBVIOUS
<1>2. /\ V \in SUBSET (Jobs) /\ Expendable(job, V)
      /\ job \in [Jobs -> RowType] /\ NewestIn(job)
  BY <1>1 DEF BInv, BackupTypeOK, VictimInv, WorkerType, Expendable, PruneCommit, Without
<1>3. job' = Without(job, V)
  BY <1>1 DEF PruneCommit, Without
<1> QED
  BY <1>2, <1>3, DeleteRows

(* Owners change schedules, and time passes. *)
LEMMA ClockStep ==
    ASSUME BInv,
           \/ \E t \in Tenants : BecomeDue(t) \/ \E on \in BOOLEAN : UpsertSchedule(t, on)
           \/ Age
    PROVE  BInv'
<1> USE DEF BInv
<1>1. CASE Age
  <2>1. /\ cutoff' = cutoff + 1 /\ cutoff < started /\ cutoff \in Nat /\ started \in Nat
        /\ UNCHANGED <<job, started, bundle, enabled, due, worker, failures>>
    BY <1>1, BackupAssumption DEF Age, BackupTypeOK
  <2>2. BackupTypeOK'
    BY <2>1 DEF BackupTypeOK
  <2>3. HandInv' /\ NewestIn(job)'
    BY <2>1 DEF HandInv, NewestIn
  <2>4. VictimInv'
    <3> SUFFICES ASSUME NEW x \in Workers, worker[x].at = "prune", NEW v \in worker[x].victims
                 PROVE  v <= cutoff + 1
      BY <2>1 DEF VictimInv
    <3>1. v <= cutoff /\ v \in Jobs
      BY DEF VictimInv, BackupTypeOK, WorkerType
    <3> QED
      BY <2>1, <3>1, BackupAssumption
  <2>5. KeptInv'
    BY <2>1 DEF KeptInv
  <2> QED
    BY <2>2, <2>3, <2>4, <2>5
<1>2. CASE \E t \in Tenants : BecomeDue(t) \/ \E on \in BOOLEAN : UpsertSchedule(t, on)
  <2>1. /\ enabled' \in SUBSET Tenants /\ due' \in SUBSET Tenants
        /\ UNCHANGED <<job, started, bundle, cutoff, worker, failures>>
    BY <1>2 DEF BecomeDue, UpsertSchedule, BackupTypeOK
  <2>2. BackupTypeOK'
    BY <2>1 DEF BackupTypeOK
  <2>3. HandInv' /\ NewestIn(job)' /\ VictimInv' /\ KeptInv'
    BY <2>1 DEF HandInv, NewestIn, VictimInv, KeptInv
  <2> QED
    BY <2>2, <2>3
<1> QED
  BY <1>1, <1>2

LEMMA NextB == BInv /\ [BackupNext]_backupVars => BInv'
<1> SUFFICES ASSUME BInv, [BackupNext]_backupVars PROVE BInv'
  OBVIOUS
<1>1. CASE UNCHANGED backupVars
  <2> USE <1>1 DEF backupVars
  <2>1. BackupTypeOK'
    BY DEF BInv, BackupTypeOK
  <2>2. HandInv' /\ NewestIn(job)' /\ VictimInv' /\ KeptInv'
    BY DEF BInv, HandInv, NewestIn, VictimInv, KeptInv
  <2> QED
    BY <2>1, <2>2 DEF BInv
<1>2. CASE BackupNext
  <2>1. ASSUME NEW w \in Workers, WorkOn(w) PROVE BInv'
    BY <2>1, QuietSteps, BeginStep, WriteStep, CommitStep, ScanStep, FolderStep, PruneStep DEF WorkOn
  <2>2. ASSUME NEW w \in Workers,
               \/ Dies(w)
               \/ \E force \in BOOLEAN : SweepStart(w, force)
               \/ \E t \in Tenants : RunNow(w, t) \/ StartBaseline(w, t)
        PROVE  BInv'
    BY <2>2, QuietSteps
  <2> QED
    BY <1>2, <2>1, <2>2, ClockStep DEF BackupNext
<1> QED
  BY <1>1, <1>2

(* What the retention promises to keep can be restored, for any tenants,   *)
(* any number of sweeps and requests in flight, and any faults.            *)
THEOREM BackupsRestorable == BackupSpec => []Restorable
<1>1. BInv => Restorable
  <2> SUFFICES ASSUME BInv, NEW t \in Tenants, NEW j \in Completed(t),
                      \/ j > cutoff
                      \/ job[j].kind = "DEMO_BASELINE"
                      \/ \A k \in Prunable(t) : k <= j
               PROVE  j \in bundle
    BY DEF Restorable
  <2>0. cutoff \in Nat /\ j \in Nat /\ Prunable(t) \subseteq Nat
    BY BackupAssumption DEF BInv, BackupTypeOK, Prunable, Completed
  <2>1. j \in Jobs /\ job[j].tenant = t /\ job[j] # NoJob
    BY BackupAssumption DEF Completed, NoJob
  <2>2. CASE j <= cutoff /\ Spare(job, j)
    <3>1. job[j].kind # "DEMO_BASELINE" /\ \E k \in Prunable(t) : k > j
      BY <2>1, <2>2 DEF Spare, Ordinary, Prunable, Completed
    <3> QED
      BY <2>0, <2>2, <3>1
  <2> QED
    BY <2>1, <2>2 DEF BInv, KeptInv
<1> QED
  BY <1>1, InitB, NextB, PTL DEF BackupSpec

(* No step takes the last backup of a tenant, or a golden baseline. *)
THEOREM NeverLosesAll == BackupSpec => NeverBackupless
<1> DEFINE Keeps == \A t \in Tenants :
        /\ Completed(t) # {} => (Completed(t))' # {}
        /\ \A j \in Completed(t) : job[j].kind = "DEMO_BASELINE" => job'[j] = job[j]
<1>1. BInv /\ [BackupNext]_backupVars => [Keeps]_backupVars
  <2> SUFFICES ASSUME BInv, BackupNext, NEW t \in Tenants
               PROVE  /\ Completed(t) # {} => (Completed(t))' # {}
                      /\ \A j \in Completed(t) : job[j].kind = "DEMO_BASELINE" => job'[j] = job[j]
    BY Zenon
  <2>0. /\ Completed(t) = {j \in Jobs : job[j].tenant = t}
        /\ (Completed(t))' = {j \in Jobs : job'[j].tenant = t}
        /\ NoJob.tenant # t
    BY BackupAssumption DEF Completed, NoJob
  <2>1. CASE job' = job
    BY <2>0, <2>1
  <2>2. ASSUME NEW w \in Workers, BackupCommit(w)
        PROVE  \A j \in Jobs : job[j] # NoJob => job'[j] = job[j]
    <3>1. /\ job \in [Jobs -> RowType] /\ job[worker[w].j] = NoJob
      BY <2>2 DEF BInv, BackupTypeOK, HandInv, BackupCommit
    <3>2. \A j \in Jobs : j # worker[w].j => job'[j] = job[j]
      BY <2>2, <3>1 DEF BackupCommit
    <3> QED
      BY <3>1, <3>2
  <2>3. ASSUME NEW w \in Workers, PruneCommit(w)
        PROVE  /\ Completed(t) # {} => (Completed(t))' # {}
               /\ \A j \in Completed(t) : job[j].kind = "DEMO_BASELINE" => job'[j] = job[j]
    <3>1. PICK V : V = worker[w].victims
      OBVIOUS
    <3>2. /\ V \in SUBSET (Jobs) /\ Expendable(job, V)
          /\ job \in [Jobs -> RowType] /\ NewestIn(job)
          /\ job' = Without(job, V)
      BY <2>3, <3>1 DEF BInv, BackupTypeOK, VictimInv, WorkerType, Expendable, PruneCommit, Without
    <3>3. Ordinary(job, t) # {} => Ordinary(job', t) # {}
      BY <2>3, PruneKeepsOne DEF KeepsOne
    <3>4. \A j \in Jobs : j \notin V => job'[j] = job[j]
      BY <3>2 DEF Without
    <3>5. \A j \in Completed(t) : j \in V => Spare(job, j)
      BY <2>0, <3>2 DEF Expendable
    <3>6. \A j \in Completed(t) : job[j].kind = "DEMO_BASELINE" => job'[j] = job[j]
      BY <2>0, <3>4, <3>5 DEF Spare
    <3>7. ASSUME NEW j \in Completed(t) PROVE (Completed(t))' # {}
      <4>1. CASE j \notin V
        BY <2>0, <3>4, <4>1
      <4>2. CASE j \in V
        <5>1. j \in Ordinary(job, t)
          BY <2>0, <3>5, <4>2 DEF Spare, Ordinary
        <5> QED
          BY <2>0, <3>3, <5>1 DEF Ordinary
      <4> QED
        BY <4>1, <4>2
    <3> QED
      BY <3>6, <3>7
  <2>4. CASE \E w \in Workers : BackupCommit(w)
    BY <2>0, <2>2, <2>4
  <2>5. CASE \E w \in Workers : PruneCommit(w)
    BY <2>3, <2>5
  <2>6. \/ job' = job
        \/ \E w \in Workers : BackupCommit(w) \/ PruneCommit(w)
    BY DEF BackupNext, WorkOn, SweepNext, BackupBegin, BackupWrite, PruneScan, PruneFolder,
           MarkCompleted, Throw, MarkFailed, Dies, SweepStart, RunNow,
           StartBaseline, UpsertSchedule, BecomeDue, Age
  <2> QED
    BY <2>1, <2>4, <2>5, <2>6
<1>2. NeverBackupless <=> [][Keeps]_backupVars
  BY DEF NeverBackupless
<1> HIDE DEF Keeps
<1> QED
  BY <1>1, <1>2, InitB, NextB, PTL DEF BackupSpec
=============================================================================
