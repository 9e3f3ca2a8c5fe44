------------------------------ MODULE Backups ------------------------------
(***************************************************************************)
(* Per-tenant backups: BackupService.createBackup, the scheduler with its  *)
(* retention (backup-scheduler.service.ts) and the schedule table          *)
(* (backup-schedule.service.ts).                                           *)
(*                                                                         *)
(* A backup is a row of BackupJob, which appears when the transaction of   *)
(* createBackup commits, and a bundle on disk, which no rollback takes     *)
(* back.  Jobs are numbered in the order of createdAt.  Time is abstract:  *)
(* jobs up to cutoff are older than the retention, and due[t] says that    *)
(* the nextRunAt of a schedule has passed.                                 *)
(***************************************************************************)
EXTENDS Naturals, FiniteSets

CONSTANTS
    Tenants,    \* ACTIVE tenants of the registry
    Broken,     \* tenants whose export always throws
    Workers,    \* hourly sweeps, manual ticks and requests in flight
    MaxJobs,    \* bound: backups the storage has room for
    MaxFailures \* bound: transactions that abort and servers that die

ASSUME BackupAssumption ==
    Broken \subseteq Tenants /\ "none" \notin Tenants /\ MaxJobs \in Nat /\ MaxFailures \in Nat

VARIABLES
    job,        \* job[j]: the committed BackupJob row j, or NoJob
    started,    \* jobs begun so far
    bundle,     \* jobs whose bundle is on disk
    cutoff,     \* jobs 1 .. cutoff are older than the retention
    enabled,    \* tenants with an enabled BackupSchedule
    due,        \* tenants whose schedule has nextRunAt <= now
    worker,     \* worker[w]: what worker w is doing
    failures

backupVars == <<job, started, bundle, cutoff, enabled, due, worker, failures>>

-----------------------------------------------------------------------------
Jobs == 1 .. MaxJobs
NoJob == [tenant |-> "none", kind |-> "none"]
BackupKinds == {"LOGICAL_TENANT", "DEMO_BASELINE"}

(* via: "sweep" (runDueBackups), "now" (runNow) or "baseline"              *)
(* (ensureDemoBaseline); todo: tenants of the snapshot still to do; t, j:  *)
(* the tenant and job in hand; victims: jobs the open prune will delete.   *)
NoWork == [at |-> "idle", via |-> "none", todo |-> {}, t |-> "none", j |-> 0, victims |-> {}]
At(at, via, todo, t) ==
    [at |-> at, via |-> via, todo |-> todo, t |-> t, j |-> 0, victims |-> {}]
TurnsTo(w, p) == worker' = [worker EXCEPT ![w] = p]

Completed(t) == {j \in Jobs : job[j].tenant = t}
Prunable(t) == {j \in Completed(t) : job[j].kind # "DEMO_BASELINE"}
Failure == failures < MaxFailures /\ failures' = failures + 1

-----------------------------------------------------------------------------
(* runDueBackups: the schedules are read once.  A tick may be forced. *)
SweepStart(w, force) ==
    /\ worker[w] = NoWork
    /\ LET todo == IF force THEN enabled ELSE enabled \cap due IN
       /\ todo # {}
       /\ TurnsTo(w, At("next", "sweep", todo, "none"))
    /\ UNCHANGED <<job, started, bundle, cutoff, enabled, due, failures>>

SweepNext(w) ==
    /\ worker[w].at = "next"
    /\ IF worker[w].todo = {} THEN TurnsTo(w, NoWork)
       ELSE \E t \in worker[w].todo :
              TurnsTo(w, At("begin", "sweep", worker[w].todo \ {t}, t))
    /\ UNCHANGED <<job, started, bundle, cutoff, enabled, due, failures>>

(* runNow: any tenant, whatever its schedule. *)
RunNow(w, t) ==
    /\ worker[w] = NoWork
    /\ TurnsTo(w, At("begin", "now", {}, t))
    /\ UNCHANGED <<job, started, bundle, cutoff, enabled, due, failures>>

(* ensureDemoBaseline: an existing baseline is returned; otherwise the     *)
(* export starts in a transaction of its own.                              *)
StartBaseline(w, t) ==
    /\ worker[w] = NoWork
    /\ \A j \in Completed(t) : job[j].kind # "DEMO_BASELINE"
    /\ TurnsTo(w, At("begin", "baseline", {}, t))
    /\ UNCHANGED <<job, started, bundle, cutoff, enabled, due, failures>>

(* Mutant: the job is committed as completed before its files are written. *)
BackupBeginCommits(w) ==
    /\ worker[w].at = "begin"
    /\ worker[w].t \notin Broken
    /\ started < MaxJobs
    /\ started' = started + 1
    /\ job' = [job EXCEPT ![started + 1] = [tenant |-> worker[w].t, kind |-> "LOGICAL_TENANT"]]
    /\ TurnsTo(w, [worker[w] EXCEPT !.at = "write", !.j = started + 1])
    /\ UNCHANGED <<bundle, cutoff, enabled, due, failures>>

(* createBackup: the row, status running, is not visible to others. *)
BackupBegin(w) ==
    /\ worker[w].at = "begin"
    /\ worker[w].t \notin Broken
    /\ started < MaxJobs
    /\ started' = started + 1
    /\ TurnsTo(w, [worker[w] EXCEPT !.at = "write", !.j = started + 1])
    /\ UNCHANGED <<job, bundle, cutoff, enabled, due, failures>>

BackupWrite(w) ==
    /\ worker[w].at = "write"
    /\ bundle' = bundle \cup {worker[w].j}
    /\ TurnsTo(w, [worker[w] EXCEPT !.at = "commit"])
    /\ UNCHANGED <<job, started, cutoff, enabled, due, failures>>

(* The row is completed and the transaction commits.  runNow prunes only   *)
(* for a tenant that has a schedule.                                       *)
BackupCommit(w) ==
    /\ worker[w].at = "commit"
    /\ job' = [job EXCEPT ![worker[w].j] =
                [tenant |-> worker[w].t,
                 kind |-> IF worker[w].via = "baseline" THEN "DEMO_BASELINE"
                          ELSE "LOGICAL_TENANT"]]
    /\ \/ /\ worker[w].via = "sweep" \/ (worker[w].via = "now" /\ worker[w].t \in enabled)
          /\ TurnsTo(w, [worker[w] EXCEPT !.at = "scan", !.j = 0])
       \/ /\ worker[w].via = "baseline" \/ (worker[w].via = "now" /\ worker[w].t \notin enabled)
          /\ TurnsTo(w, NoWork)
    /\ UNCHANGED <<started, bundle, cutoff, enabled, due, failures>>

(* Mutant: the most recent backup is not kept. *)
VictimsAll(t) == {j \in Prunable(t) : j <= cutoff}

(* Completed jobs older than the retention, the newest left out. *)
Victims(t) == {j \in Prunable(t) : j <= cutoff /\ \E k \in Prunable(t) : k > j}

(* pruneRetention: query, then for each victim the folder goes at once and *)
(* the row when the transaction commits.                                   *)
PruneScan(w) ==
    /\ worker[w].at = "scan"
    /\ TurnsTo(w, [worker[w] EXCEPT !.at = "prune", !.victims = Victims(worker[w].t)])
    /\ UNCHANGED <<job, started, bundle, cutoff, enabled, due, failures>>

PruneFolder(w) ==
    /\ worker[w].at = "prune"
    /\ \E j \in worker[w].victims \cap bundle : bundle' = bundle \ {j}
    /\ UNCHANGED <<job, started, cutoff, enabled, due, worker, failures>>

PruneCommit(w) ==
    /\ worker[w].at = "prune"
    /\ worker[w].victims \cap bundle = {}
    /\ job' = [j \in Jobs |-> IF j \in worker[w].victims THEN NoJob ELSE job[j]]
    /\ TurnsTo(w, [worker[w] EXCEPT !.at = "mark", !.victims = {}])
    /\ UNCHANGED <<started, bundle, cutoff, enabled, due, failures>>

(* The schedule row: lastStatus completed, alert off (neither is ever      *)
(* read); a sweep moves nextRunAt past now, runNow leaves it.              *)
MarkCompleted(w) ==
    /\ worker[w].at = "mark"
    /\ due' = IF worker[w].via = "sweep" THEN due \ {worker[w].t} ELSE due
    /\ TurnsTo(w, IF worker[w].via = "sweep" THEN At("next", "sweep", worker[w].todo, "none") ELSE NoWork)
    /\ UNCHANGED <<job, started, bundle, cutoff, enabled, failures>>

(* createBackup throws, or a transaction aborts: rollback.  A sweep        *)
(* catches, the other callers get the error.                               *)
Throws(w) ==
    \/ worker[w].at = "begin" /\ (worker[w].t \in Broken \/ started = MaxJobs) /\ UNCHANGED failures
    \/ worker[w].at \in {"begin", "write", "commit", "scan", "prune", "mark"} /\ Failure

Throw(w) ==
    /\ Throws(w)
    /\ TurnsTo(w, IF worker[w].via = "sweep" THEN At("failed", "sweep", worker[w].todo, worker[w].t) ELSE NoWork)
    /\ UNCHANGED <<job, started, bundle, cutoff, enabled, due>>

(* Mutant: the exception ends the sweep. *)
MarkFailedStops(w) ==
    /\ worker[w].at = "failed"
    /\ TurnsTo(w, NoWork)
    /\ UNCHANGED <<job, started, bundle, cutoff, enabled, due, failures>>

(* The catch block: FAILED, nextRunAt moved on; the sweep goes on. *)
MarkFailed(w) ==
    /\ worker[w].at = "failed"
    /\ due' = due \ {worker[w].t}
    /\ TurnsTo(w, At("next", "sweep", worker[w].todo, "none"))
    /\ UNCHANGED <<job, started, bundle, cutoff, enabled, failures>>

(* The server dies. *)
Dies(w) ==
    /\ worker[w] # NoWork
    /\ Failure
    /\ TurnsTo(w, NoWork)
    /\ UNCHANGED <<job, started, bundle, cutoff, enabled, due>>

(* upsert of a schedule: enabled or not, nextRunAt recomputed from now. *)
UpsertSchedule(t, on) ==
    /\ enabled' = IF on THEN enabled \cup {t} ELSE enabled \ {t}
    /\ due' = due \ {t}
    /\ UNCHANGED <<job, started, bundle, cutoff, worker, failures>>

(* Time passes. *)
BecomeDue(t) ==
    /\ t \in enabled \ due
    /\ due' = due \cup {t}
    /\ UNCHANGED <<job, started, bundle, cutoff, enabled, worker, failures>>

Age ==
    /\ cutoff < started
    /\ cutoff' = cutoff + 1
    /\ UNCHANGED <<job, started, bundle, enabled, due, worker, failures>>

-----------------------------------------------------------------------------
BackupInit ==
    /\ job = [j \in Jobs |-> NoJob]
    /\ started = 0
    /\ bundle = {}
    /\ cutoff = 0
    /\ enabled = {}
    /\ due = {}
    /\ worker = [w \in Workers |-> NoWork]
    /\ failures = 0

WorkOn(w) ==
    \/ SweepNext(w) \/ BackupBegin(w) \/ BackupWrite(w) \/ BackupCommit(w)
    \/ PruneScan(w) \/ PruneFolder(w) \/ PruneCommit(w) \/ MarkCompleted(w)
    \/ Throw(w) \/ MarkFailed(w)

BackupNext ==
    \/ \E w \in Workers :
        \/ WorkOn(w)
        \/ Dies(w)
        \/ \E force \in BOOLEAN : SweepStart(w, force)
        \/ \E t \in Tenants : RunNow(w, t) \/ StartBaseline(w, t)
    \/ \E t \in Tenants :
        \/ \E on \in BOOLEAN : UpsertSchedule(t, on)
        \/ BecomeDue(t)
    \/ Age

BackupSpec == BackupInit /\ [][BackupNext]_backupVars

(* What was begun is carried on, and the interval timer fires again and    *)
(* again.                                                                  *)
BackupFairness ==
    /\ \A w \in Workers : WF_backupVars(WorkOn(w))
    /\ SF_backupVars(\E w \in Workers : SweepStart(w, FALSE))

BackupFairSpec == BackupSpec /\ BackupFairness

-----------------------------------------------------------------------------
Places == {"idle", "next", "begin", "write", "commit", "scan", "prune", "mark", "failed"}

WorkerType ==
    [at : Places, via : {"none", "sweep", "now", "baseline"}, todo : SUBSET Tenants,
     t : Tenants \cup {"none"}, j : 0 .. MaxJobs, victims : SUBSET Jobs]

RowType == {NoJob} \cup [tenant : Tenants, kind : BackupKinds]

(* The rows and the workers have the shapes the schema gives them. *)
BackupTypeOK ==
    /\ job \in [Jobs -> RowType]
    /\ started \in 0 .. MaxJobs
    /\ bundle \in SUBSET (1 .. started)
    /\ cutoff \in 0 .. started
    /\ enabled \in SUBSET Tenants
    /\ due \in SUBSET Tenants
    /\ worker \in [Workers -> WorkerType]
    /\ failures \in 0 .. MaxFailures

(* What the retention promises to keep can be restored: the bundle of a    *)
(* completed backup is on disk when the backup is recent, the newest of    *)
(* its tenant, or the golden baseline, whatever prunes overlap or die      *)
(* after the folder is gone and before the row is.                         *)
Restorable ==
    \A t \in Tenants : \A j \in Completed(t) :
        \/ j > cutoff
        \/ job[j].kind = "DEMO_BASELINE"
        \/ \A k \in Prunable(t) : k <= j
        => j \in bundle

(* A tenant that has a backup never again has none, and a golden baseline  *)
(* is never deleted.                                                       *)
NeverBackupless ==
    [][\A t \in Tenants :
        /\ Completed(t) # {} => Completed(t)' # {}
        /\ \A j \in Completed(t) : job[j].kind = "DEMO_BASELINE" => job'[j] = job[j]]_backupVars

(* A schedule that is due is served, or switched off or moved by its       *)
(* owner: a tenant whose export always throws does not hold up the others. *)
DueIsServed == \A t \in Tenants : t \in due ~> t \notin due
=============================================================================
