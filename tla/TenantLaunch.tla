---------------------------- MODULE TenantLaunch ----------------------------
(***************************************************************************)
(* The launch factory that provisions a customer tenant                    *)
(* (platform/launch/tenant-launch.service.ts) and its caller, the delivery *)
(* engagement (delivery/engagements.service.ts).                           *)
(*                                                                         *)
(* The platform handlers hold no transaction around their work: every      *)
(* withBypass or withTenant commits on its own.  One action is one of      *)
(* these transactions; the server may die between any two of them, and     *)
(* nothing stops two runs of one launch.  pc[r] is what the request r      *)
(* still knows.  All launches of the model aim at the same tenant.         *)
(***************************************************************************)
EXTENDS Naturals, Sequences, FiniteSets

CONSTANTS
    Runners,    \* requests that may be in flight at the same time
    Desks,      \* clients that move the engagement through its stages
    Launches,   \* primary keys a launch row may get
    Opened,     \* stages an engagement of the model may start from
    Steps,      \* the pipeline: STEP_KEYS, or a part of it on a small instance
    MaxFaults   \* bound: handlers that throw and servers that die

ASSUME FaultsAssumption == MaxFaults \in Nat

VARIABLES
    status,     \* status[l]: TenantLaunch.status, "NONE" when there is no row l
    step,       \* step[l][i]: TenantLaunchStep.status of the row with seq i
    tenant,     \* Tenant.status of the target, "NONE" when there is no row
    made,       \* seqs of the steps whose rows exist in the target tenant
    backups,    \* BackupJob rows of the tenant: 0, 1, 2 (two or more)
    pc,         \* pc[r]: the request r
    eng,        \* the engagement: stage, status, launchId
    desk,       \* desk[d]: the open engagement transaction of client d
    faults      \* faults so far

launchVars == <<status, step, tenant, made, backups, pc, faults>>
vars == <<status, step, tenant, made, backups, pc, eng, desk, faults>>

-----------------------------------------------------------------------------
STEP_KEYS == <<"register", "identity-baseline", "enable-apps", "apply-blueprint",
               "load-seed-pack", "provision-backup", "isolation-test", "handover">>

ASSUME StepsAssumption ==
    /\ Steps \in Seq({STEP_KEYS[i] : i \in 1 .. 8})
    /\ Steps # <<>>
    /\ \A i \in 1 .. Len(Steps) : Steps[i] = "handover" => i = Len(Steps)
    /\ \E i \in 1 .. Len(Steps) : Steps[i] = "provision-backup"

Seqs == 1 .. Len(Steps)
NoLaunch == "none"

Idle == [at |-> "idle"]
(* A request inside run: the launch it works on, the steps its snapshot    *)
(* showed unfinished, the step in hand, and whether launchTenant waits for *)
(* it ("link") or the operator called it ("call").                         *)
In(at, l, todo, i, via) == [at |-> at, l |-> l, todo |-> todo, i |-> i, via |-> via]
Goto(r, p) == pc' = [pc EXCEPT ![r] = p]

Fault == faults < MaxFaults /\ faults' = faults + 1
Existing == {l \in Launches : status[l] # "NONE"}

(* create: the launch and all its step rows in one transaction. *)
CreateRows(l) ==
    /\ status[l] = "NONE"
    /\ status' = [status EXCEPT ![l] = "QUEUED"]
    /\ step' = [step EXCEPT ![l] = [i \in Seqs |-> "PENDING"]]

(* Bound: an id is left for every launchTenant that is about to create. *)
IdLeft == Cardinality({r \in Runners : pc[r].at = "create"})
            < Cardinality({l \in Launches : status[l] = "NONE"})

Create(l) ==
    /\ IdLeft
    /\ CreateRows(l)
    /\ UNCHANGED <<tenant, made, backups, pc, eng, desk, faults>>

-----------------------------------------------------------------------------
(* run *)

(* Mutant: a launch that says RUNNING is taken to be in good hands. *)
RunReadSkipsRunning(r, l) ==
    /\ pc[r] = Idle
    /\ l \in Existing
    /\ status[l] \notin {"COMPLETED", "RUNNING"}
    /\ Goto(r, In("mark", l, {}, 0, "call"))
    /\ UNCHANGED <<status, step, tenant, made, backups, eng, desk, faults>>

(* A launch that is not COMPLETED is run, whatever else its status says. *)
RunRead(r, l) ==
    /\ pc[r] = Idle
    /\ l \in Existing
    /\ status[l] # "COMPLETED"
    /\ Goto(r, In("mark", l, {}, 0, "call"))
    /\ UNCHANGED <<status, step, tenant, made, backups, eng, desk, faults>>

(* retry: one FAILED step, if there is one, goes back to PENDING; then run. *)
RetryReset(r, l) ==
    /\ pc[r] = Idle
    /\ l \in Existing
    /\ \E i \in Seqs :
        /\ step[l][i] = "FAILED"
        /\ step' = [step EXCEPT ![l][i] = "PENDING"]
    /\ Goto(r, In("read", l, {}, 0, "call"))
    /\ UNCHANGED <<status, tenant, made, backups, eng, desk, faults>>

(* The read at the head of run, for a request that retry or launchTenant   *)
(* brought there.                                                          *)
RunReadAgain(r) ==
    /\ pc[r].at = "read"
    /\ LET p == pc[r] IN
       Goto(r, IF status[p.l] # "COMPLETED" THEN In("mark", p.l, {}, 0, p.via)
               ELSE IF p.via = "link" THEN In("link", p.l, {}, 0, p.via) ELSE Idle)
    /\ UNCHANGED <<status, step, tenant, made, backups, eng, desk, faults>>

RunMark(r) ==
    /\ pc[r].at = "mark"
    /\ status' = [status EXCEPT ![pc[r].l] = "RUNNING"]
    /\ Goto(r, [pc[r] EXCEPT !.at = "snapshot"])
    /\ UNCHANGED <<step, tenant, made, backups, eng, desk, faults>>

(* Mutant: steps that a dead server left RUNNING are taken to be finished. *)
RunSnapshotSkipsRunning(r) ==
    /\ pc[r].at = "snapshot"
    /\ LET l == pc[r].l IN
       Goto(r, [pc[r] EXCEPT !.at = "drain",
                !.todo = {i \in Seqs : step[l][i] \notin {"DONE", "RUNNING"}}])
    /\ UNCHANGED <<status, step, tenant, made, backups, eng, desk, faults>>

(* The step rows are read once; the drain works from this snapshot. *)
RunSnapshot(r) ==
    /\ pc[r].at = "snapshot"
    /\ LET l == pc[r].l IN
       Goto(r, [pc[r] EXCEPT !.at = "drain", !.todo = {i \in Seqs : step[l][i] # "DONE"}])
    /\ UNCHANGED <<status, step, tenant, made, backups, eng, desk, faults>>

(* executeStep, first transaction; attempts only counts, so it is left out. *)
StepStart(r) ==
    /\ pc[r].at = "drain"
    /\ \E i \in pc[r].todo :
        /\ \A j \in pc[r].todo : i <= j
        /\ step' = [step EXCEPT ![pc[r].l][i] = "RUNNING"]
        /\ Goto(r, [pc[r] EXCEPT !.at = "handle", !.i = i])
    /\ UNCHANGED <<status, tenant, made, backups, eng, desk, faults>>

(* What the handler of a step leaves behind.  register upserts the         *)
(* registry row, back to PROVISIONING when it exists; handover activates   *)
(* it; provision-backup makes one more backup; the other steps upsert rows *)
(* under fixed ids.                                                        *)
Handler(i) ==
    /\ tenant' = CASE Steps[i] = "register" -> "PROVISIONING"
                   [] Steps[i] = "handover" -> "ACTIVE"
                   [] OTHER -> tenant
    /\ backups' = IF Steps[i] = "provision-backup" /\ backups < 2
                  THEN backups + 1 ELSE backups
    /\ made' = made \cup {i}

StepHandle(r) ==
    /\ pc[r].at = "handle"
    /\ Handler(pc[r].i)
    /\ Goto(r, [pc[r] EXCEPT !.at = "record"])
    /\ UNCHANGED <<status, step, eng, desk, faults>>

(* The handler throws before it commits, or the write of DONE does after. *)
StepThrow(r) ==
    /\ pc[r].at \in {"handle", "record"}
    /\ Fault
    /\ Goto(r, [pc[r] EXCEPT !.at = "fail"])
    /\ UNCHANGED <<status, step, tenant, made, backups, eng, desk>>

StepDone(r) ==
    /\ pc[r].at = "record"
    /\ step' = [step EXCEPT ![pc[r].l][pc[r].i] = "DONE"]
    /\ Goto(r, [pc[r] EXCEPT !.at = "drain", !.todo = @ \ {pc[r].i}])
    /\ UNCHANGED <<status, tenant, made, backups, eng, desk, faults>>

(* Mutant: the drain goes on after a failed step. *)
StepFailedGoesOn(r) ==
    /\ pc[r].at = "fail"
    /\ step' = [step EXCEPT ![pc[r].l][pc[r].i] = "FAILED"]
    /\ Goto(r, [pc[r] EXCEPT !.at = "drain", !.todo = @ \ {pc[r].i}])
    /\ UNCHANGED <<status, tenant, made, backups, eng, desk, faults>>

StepFailed(r) ==
    /\ pc[r].at = "fail"
    /\ step' = [step EXCEPT ![pc[r].l][pc[r].i] = "FAILED"]
    /\ Goto(r, [pc[r] EXCEPT !.at = "stop"])
    /\ UNCHANGED <<status, tenant, made, backups, eng, desk, faults>>

(* The end of run: FAILED at the failed step, or COMPLETED when the        *)
(* snapshot is drained.                                                    *)
RunEnd(r) ==
    /\ \/ /\ pc[r].at = "stop"
          /\ status' = [status EXCEPT ![pc[r].l] = "FAILED"]
       \/ /\ pc[r].at = "drain" /\ pc[r].todo = {}
          /\ status' = [status EXCEPT ![pc[r].l] = "COMPLETED"]
    /\ Goto(r, IF pc[r].via = "link" THEN [pc[r] EXCEPT !.at = "link"] ELSE Idle)
    /\ UNCHANGED <<step, tenant, made, backups, eng, desk, faults>>

(* The server that serves r dies. *)
Crash(r) ==
    /\ pc[r] # Idle
    /\ Fault
    /\ Goto(r, Idle)
    /\ UNCHANGED <<status, step, tenant, made, backups, eng, desk>>

-----------------------------------------------------------------------------
(* engagements.fsm.ts and engagements.service.ts *)

STAGE_ORDER == <<"LEAD", "QUALIFIED", "SURVEY", "SOLUTION_DESIGN", "PROPOSAL", "WON",
                 "IMPLEMENTATION", "MIGRATION", "UAT", "GO_LIVE", "HYPERCARE",
                 "CUSTOMER_SUCCESS">>
PRESALES == {"LEAD", "QUALIFIED", "SURVEY", "SOLUTION_DESIGN", "PROPOSAL"}

(* Each action of the table but lose takes a stage to the next one. *)
ENGAGEMENT_TRANSITIONS ==
    {<<STAGE_ORDER[i], STAGE_ORDER[i + 1]>> : i \in 1 .. Len(STAGE_ORDER) - 1}
    \cup {<<s, "LOST">> : s \in PRESALES}

statusForStage(s) ==
    CASE s = "LOST" -> "LOST"
      [] s \in {"WON", "IMPLEMENTATION", "MIGRATION", "UAT"} -> "WON"
      [] s \in {"GO_LIVE", "HYPERCARE", "CUSTOMER_SUCCESS"} -> "LIVE"
      [] OTHER -> "OPEN"

isLaunchReady(s) == s \in {"GO_LIVE", "HYPERCARE", "CUSTOMER_SUCCESS"}

Ops == {"transition", "hold", "resume"}
NoOp == [op |-> "none"]

(* transition, hold, resume: load the engagement and test; [to, status] is *)
(* what the handler will write, computed from what it loaded.              *)
EngLoad(d, op) ==
    /\ desk[d] = NoOp
    /\ \/ /\ op = "transition" /\ eng.status # "ON_HOLD"
          /\ \E t \in ENGAGEMENT_TRANSITIONS :
                /\ t[1] = eng.stage
                /\ desk' = [desk EXCEPT ![d] =
                        [op |-> op, to |-> t[2], status |-> statusForStage(t[2])]]
       \/ /\ op = "hold" /\ eng.status # "ON_HOLD"
          /\ eng.stage \notin {"LOST", "CUSTOMER_SUCCESS"}
          /\ desk' = [desk EXCEPT ![d] = [op |-> op, to |-> eng.stage, status |-> "ON_HOLD"]]
       \/ /\ op = "resume" /\ eng.status = "ON_HOLD"
          /\ desk' = [desk EXCEPT ![d] =
                        [op |-> op, to |-> eng.stage, status |-> statusForStage(eng.stage)]]
    /\ UNCHANGED <<launchVars, eng>>

(* UPDATE ... WHERE id, and commit: only transition writes the stage. *)
EngWrite(d) ==
    /\ desk[d] # NoOp
    /\ eng' = [eng EXCEPT !.status = desk[d].status,
                          !.stage = IF desk[d].op = "transition" THEN desk[d].to ELSE @]
    /\ desk' = [desk EXCEPT ![d] = NoOp]
    /\ UNCHANGED launchVars

(* launchTenant: load and test in one transaction ... *)
LaunchTenant(r) ==
    /\ pc[r] = Idle
    /\ isLaunchReady(eng.stage)
    /\ eng.launchId = NoLaunch
    /\ IdLeft
    /\ Goto(r, [at |-> "create"])
    /\ UNCHANGED <<status, step, tenant, made, backups, eng, desk, faults>>

(* Mutant: the reference is stored as soon as the launch exists. *)
LaunchTenantCreateLinks(r, l) ==
    /\ pc[r] = [at |-> "create"]
    /\ CreateRows(l)
    /\ eng' = [eng EXCEPT !.launchId = l]
    /\ Goto(r, In("read", l, {}, 0, "link"))
    /\ UNCHANGED <<tenant, made, backups, desk, faults>>

(* ... then POST /launches and POST /launches/:id/run ... *)
LaunchTenantCreate(r, l) ==
    /\ pc[r] = [at |-> "create"]
    /\ CreateRows(l)
    /\ Goto(r, In("read", l, {}, 0, "link"))
    /\ UNCHANGED <<tenant, made, backups, eng, desk, faults>>

(* ... and, once run has answered, the reference in a third transaction. *)
LaunchTenantLink(r) ==
    /\ pc[r].at = "link"
    /\ eng' = [eng EXCEPT !.launchId = pc[r].l]
    /\ Goto(r, Idle)
    /\ UNCHANGED <<status, step, tenant, made, backups, desk, faults>>

(* The caller of POST /launches/:id/run is gone (its own server died, or   *)
(* fetch gave up waiting); the run goes on.                                *)
CallerGone(r) ==
    /\ pc[r].at \notin {"idle", "create", "link"} /\ pc[r].via = "link"
    /\ Fault
    /\ Goto(r, [pc[r] EXCEPT !.via = "call"])
    /\ UNCHANGED <<status, step, tenant, made, backups, eng, desk>>

-----------------------------------------------------------------------------
Init ==
    /\ status = [l \in Launches |-> "NONE"]
    /\ step = [l \in Launches |-> [i \in Seqs |-> "PENDING"]]
    /\ tenant = "NONE"
    /\ made = {}
    /\ backups = 0
    /\ pc = [r \in Runners |-> Idle]
    /\ eng \in {[stage |-> s, status |-> statusForStage(s), launchId |-> NoLaunch] :
                s \in Opened}
    /\ desk = [d \in Desks |-> NoOp]
    /\ faults = 0

(* What a request does once it has been made. *)
Work(r) ==
    \/ RunReadAgain(r) \/ RunMark(r) \/ RunSnapshot(r)
    \/ StepStart(r) \/ StepHandle(r) \/ StepDone(r) \/ StepFailed(r) \/ RunEnd(r)
    \/ (\E l \in Launches : LaunchTenantCreate(r, l))
    \/ LaunchTenantLink(r)

(* An operator presses run or retry on a launch. *)
Call(r, l) == RunRead(r, l) \/ RetryReset(r, l)

Next ==
    \/ \E r \in Runners :
        \/ Work(r)
        \/ \E l \in Launches : Call(r, l)
        \/ LaunchTenant(r)
        \/ StepThrow(r) \/ Crash(r) \/ CallerGone(r)
    \/ \E l \in Launches : Create(l)
    \/ \E d \in Desks : (\E op \in Ops : EngLoad(d, op)) \/ EngWrite(d)

Spec == Init /\ [][Next]_vars

(* A request that was made is worked on, and an operator does not leave an *)
(* unfinished launch alone for ever: nothing in the code resumes one.      *)
Fairness ==
    /\ \A r \in Runners : WF_vars(Work(r))
    /\ \A l \in Launches : SF_vars(\E r \in Runners : RunRead(r, l))

FairSpec == Spec /\ Fairness

-----------------------------------------------------------------------------
(* A tenant that is ACTIVE has been prepared: every step before handover   *)
(* has left its rows, a backup and the isolation test among them, however  *)
(* many runs of however many launches were interleaved, failed or died.    *)
ActiveIsPrepared ==
    tenant = "ACTIVE" => made = Seqs /\ backups > 0

(* A step row that says DONE is one whose handler has committed: what a    *)
(* later run skips really exists, and so do the rows of every step before  *)
(* it.                                                                     *)
DoneIsMade ==
    \A l \in Existing, i \in Seqs : step[l][i] = "DONE" => 1 .. i \subseteq made

(* An engagement that refers to a launch is live, and the launch has been  *)
(* run: the reference outlives every later move of the engagement.         *)
LinkedIsLive ==
    eng.launchId # NoLaunch =>
        isLaunchReady(eng.stage) /\ status[eng.launchId] \notin {"NONE", "QUEUED"}

(* Wherever faults leave a launch, running it again gets it COMPLETED. *)
LaunchesComplete ==
    \A l \in Launches : status[l] = "QUEUED" ~> status[l] = "COMPLETED"
=============================================================================
