-------------------------- MODULE TenantLifecycle --------------------------
(***************************************************************************)
(* From demo to production: the go-live checklist and its activation       *)
(* (platform/lifecycle/tenant-golive.service.ts), and the reset of a demo  *)
(* tenant to its baseline (BackupService.resetToBaseline).                 *)
(*                                                                         *)
(* activate and resetToBaseline are chains of transactions of their own:   *)
(* the users of the tenant write between them, and the server may die      *)
(* there.  A createBackup is one step here; Backups has its inside, and    *)
(* shows that the baseline a reset loads is there.                         *)
(***************************************************************************)
EXTENDS Naturals

CONSTANTS
    Operators,  \* activate and reset requests in flight at the same time
    Clerks,     \* patchStep requests in flight at the same time
    Keys,       \* steps of the checklist template
    Required,   \* those the template marks required
    MaxFaults   \* bound: transactions that abort and servers that die

ASSUME LifecycleAssumption == Required \subseteq Keys /\ MaxFaults \in Nat

VARIABLES
    mode,       \* Tenant.mode
    gl,         \* TenantGoLive.status, "NONE" when there is no row
    done,       \* its steps that are DONE
    rows,       \* business rows of the tenant: "demo", "prod" or both
    snaps,      \* kinds of the completed backups
    pc,         \* pc[o]: what the request o is doing
    faults

vars == <<mode, gl, done, rows, snaps, pc, faults>>

-----------------------------------------------------------------------------
Idle == [at |-> "idle"]
Goto(o, p) == pc' = [pc EXCEPT ![o] = p]
Snapshot(k) == snaps' = snaps \cup {k}
Fault == faults < MaxFaults /\ faults' = faults + 1

(* createProgress; the unique tenantId admits one row. *)
CreateProgress ==
    /\ gl = "NONE"
    /\ gl' = "IN_PROGRESS"
    /\ done' = {}
    /\ UNCHANGED <<mode, rows, snaps, pc, faults>>

(* patchStep: load the row, test the freeze, change one step of the list   *)
(* that was loaded ...                                                     *)
PatchLoad(o, k, s) ==
    /\ pc[o] = Idle
    /\ gl \notin {"NONE", "LIVE"}
    /\ Goto(o, [at |-> "patch",
                done |-> IF s = "DONE" THEN done \cup {k} ELSE done \ {k}])
    /\ UNCHANGED <<mode, gl, done, rows, snaps, faults>>

ProgressOf(d) == IF Required \subseteq d THEN "READY" ELSE "IN_PROGRESS"

(* Mutant: the list is merged, the status is not computed again. *)
PatchWriteMerges(o) ==
    /\ pc[o].at = "patch"
    /\ done' = done \cup pc[o].done
    /\ gl' = ProgressOf(pc[o].done)
    /\ Goto(o, Idle)
    /\ UNCHANGED <<mode, rows, snaps, faults>>

(* ... and write the whole list, with the status it gives. *)
PatchWrite(o) ==
    /\ pc[o].at = "patch"
    /\ done' = pc[o].done
    /\ gl' = ProgressOf(pc[o].done)
    /\ Goto(o, Idle)
    /\ UNCHANGED <<mode, rows, snaps, faults>>

-----------------------------------------------------------------------------
(* activate *)

ActivateReadTenant(o) ==
    /\ pc[o] = Idle
    /\ mode # "LIVE"
    /\ Goto(o, [at |-> "checklist"])
    /\ UNCHANGED <<mode, gl, done, rows, snaps, faults>>

(* Mutant: the progress row is closed first. *)
ActivateChecklistMarks(o) ==
    /\ pc[o].at = "checklist"
    /\ IF gl # "NONE" /\ Required \subseteq done
       THEN gl' = "LIVE" /\ Goto(o, [at |-> "pre"])
       ELSE UNCHANGED gl /\ Goto(o, Idle)
    /\ UNCHANGED <<mode, done, rows, snaps, faults>>

ActivateChecklist(o) ==
    /\ pc[o].at = "checklist"
    /\ Goto(o, IF gl # "NONE" /\ Required \subseteq done THEN [at |-> "pre"] ELSE Idle)
    /\ UNCHANGED <<mode, gl, done, rows, snaps, faults>>

(* Mutant: the mode is flipped before the demo data are cleared. *)
ActivateSnapshotFlips(o) ==
    /\ pc[o].at = "pre"
    /\ Snapshot("PRE_GOLIVE")
    /\ mode' = "LIVE"
    /\ Goto(o, [at |-> "clear"])
    /\ UNCHANGED <<gl, done, rows, faults>>

ActivateSnapshot(o) ==
    /\ pc[o].at = "pre"
    /\ Snapshot("PRE_GOLIVE")
    /\ Goto(o, [at |-> "clear"])
    /\ UNCHANGED <<mode, gl, done, rows, faults>>

(* clearDemoData deletes by tenant, whatever the rows are.  When one       *)
(* DELETE fails, PostgreSQL refuses the rest of the transaction, every     *)
(* error is swallowed and nothing is deleted; activate goes on.            *)
ActivateClear(o) ==
    /\ pc[o].at = "clear"
    /\ \/ rows' = {} /\ UNCHANGED faults
       \/ UNCHANGED rows /\ Fault
    /\ Goto(o, [at |-> "flip"])
    /\ UNCHANGED <<mode, gl, done, snaps>>

ActivateFlip(o) ==
    /\ pc[o].at = "flip"
    /\ mode' = "LIVE"
    /\ Goto(o, [at |-> "baseline"])
    /\ UNCHANGED <<gl, done, rows, snaps, faults>>

ActivateBaseline(o) ==
    /\ pc[o].at = "baseline"
    /\ Snapshot("GOLIVE_BASELINE")
    /\ Goto(o, [at |-> "mark"])
    /\ UNCHANGED <<mode, gl, done, rows, faults>>

ActivateMark(o) ==
    /\ pc[o].at = "mark"
    /\ gl' = "LIVE"
    /\ Goto(o, Idle)
    /\ UNCHANGED <<mode, done, rows, snaps, faults>>

-----------------------------------------------------------------------------
(* resetToBaseline, and ensureDemoBaseline it depends on *)

EnsureDemoBaseline ==
    /\ "DEMO_BASELINE" \notin snaps
    /\ Snapshot("DEMO_BASELINE")
    /\ UNCHANGED <<mode, gl, done, rows, pc, faults>>

(* The mode and the baseline are read; a baseline is never deleted, so     *)
(* that the two reads may be one step.                                     *)
ResetRead(o) ==
    /\ pc[o] = Idle
    /\ mode = "DEMO"
    /\ "DEMO_BASELINE" \in snaps
    /\ Goto(o, [at |-> "safety"])
    /\ UNCHANGED <<mode, gl, done, rows, snaps, faults>>

ResetSnapshot(o) ==
    /\ pc[o].at = "safety"
    /\ Snapshot("RESET_SAFETY")
    /\ Goto(o, [at |-> "load"])
    /\ UNCHANGED <<mode, gl, done, rows, faults>>

(* loadInPlace: wipe and reload in one transaction; the mode is not read   *)
(* again.                                                                  *)
ResetLoad(o) ==
    /\ pc[o].at = "load"
    /\ rows' = {"demo"}
    /\ Goto(o, Idle)
    /\ UNCHANGED <<mode, gl, done, snaps, faults>>

-----------------------------------------------------------------------------
(* A user of the tenant writes a business row. *)
UserWrites ==
    /\ rows' = rows \cup {IF mode = "LIVE" THEN "prod" ELSE "demo"}
    /\ UNCHANGED <<mode, gl, done, snaps, pc, faults>>

(* A transaction of the request aborts, or its server dies. *)
Crash(o) ==
    /\ pc[o] # Idle
    /\ Fault
    /\ Goto(o, Idle)
    /\ UNCHANGED <<mode, gl, done, rows, snaps>>

Init ==
    /\ mode = "DEMO"
    /\ gl = "NONE"
    /\ done = {}
    /\ rows = {"demo"}
    /\ snaps = {}
    /\ pc = [o \in Operators \cup Clerks |-> Idle]
    /\ faults = 0

Work(o) ==
    \/ ActivateChecklist(o) \/ ActivateSnapshot(o) \/ ActivateClear(o)
    \/ ActivateFlip(o) \/ ActivateBaseline(o) \/ ActivateMark(o)
    \/ ResetSnapshot(o) \/ ResetLoad(o)

Next ==
    \/ CreateProgress
    \/ EnsureDemoBaseline
    \/ UserWrites
    \/ \E o \in Operators : Work(o) \/ ActivateReadTenant(o) \/ ResetRead(o)
    \/ \E o \in Clerks :
        \/ \E k \in Keys, s \in {"TODO", "DONE"} : PatchLoad(o, k, s)
        \/ PatchWrite(o)
    \/ \E o \in Operators \cup Clerks : Crash(o)

Spec == Init /\ [][Next]_vars

-----------------------------------------------------------------------------
(* The rows and the requests have the shapes the schema gives them. *)
TypeOK ==
    /\ mode \in {"DEMO", "LIVE"}
    /\ gl \in {"NONE", "IN_PROGRESS", "READY", "LIVE"}
    /\ done \in SUBSET Keys
    /\ rows \in SUBSET {"demo", "prod"}
    /\ snaps \in SUBSET {"DEMO_BASELINE", "RESET_SAFETY", "PRE_GOLIVE", "GOLIVE_BASELINE"}
    /\ pc \in [Operators \cup Clerks ->
        [at : {"idle", "checklist", "pre", "clear", "flip", "baseline", "mark",
               "safety", "load"}] \cup [at : {"patch"}, done : SUBSET Keys]]
    /\ faults \in 0 .. MaxFaults

(* Activation leaves no gap behind it wherever it stops: a LIVE tenant has *)
(* its pre-go-live snapshot, a progress row marked LIVE has a LIVE tenant  *)
(* and a go-live baseline.                                                 *)
GoLiveInOrder ==
    /\ mode = "LIVE" => "PRE_GOLIVE" \in snaps
    /\ gl = "LIVE" => mode = "LIVE" /\ "GOLIVE_BASELINE" \in snaps

(* READY on the progress row means that the required steps it stores are   *)
(* done, although two patches may overwrite each other's lists.            *)
ReadyMeansDone ==
    /\ gl = "READY" => Required \subseteq done
    /\ gl = "IN_PROGRESS" /\ Required # {} => ~(Required \subseteq done)

(* What the users of a LIVE tenant have written is not wiped: reset-demo   *)
(* "never overwrites a LIVE tenant", go-live clears before it flips.       *)
ProductionKept == [][mode = "LIVE" /\ "prod" \in rows => "prod" \in rows']_vars
=============================================================================
