------------------------ MODULE TenantLaunch_proofs ------------------------
(***************************************************************************)
(* What the launch factory guarantees for any pipeline, any number of      *)
(* launches, overlapping runs and faults.                                  *)
(***************************************************************************)
EXTENDS TenantLaunch, TLAPS

-----------------------------------------------------------------------------
(* Types *)

InRun == [at : {"read", "mark", "snapshot", "drain", "handle", "record", "fail", "stop", "link"},
          l : Launches, todo : SUBSET Seqs, i : 0 .. Len(Steps), via : {"call", "link"}]

Creating == [at |-> "create"]

Stages == Opened \cup {STAGE_ORDER[i] : i \in 1 .. 12} \cup {"LOST"}

EngType == [stage : Stages, status : {"OPEN", "WON", "LIVE", "LOST", "ON_HOLD"},
            launchId : Launches \cup {NoLaunch}]

OpenOp == [op : Ops, to : Stages, status : {"OPEN", "WON", "LIVE", "LOST", "ON_HOLD"}]

TypeInv ==
    /\ status \in [Launches -> {"NONE", "QUEUED", "RUNNING", "FAILED", "COMPLETED"}]
    /\ step \in [Launches -> [Seqs -> {"PENDING", "RUNNING", "DONE", "FAILED"}]]
    /\ tenant \in {"NONE", "PROVISIONING", "ACTIVE"}
    /\ backups \in 0 .. 2
    /\ pc \in [Runners -> {Idle, Creating} \cup InRun]
    /\ eng \in EngType
    /\ desk \in [Desks -> {NoOp} \cup OpenOp]
    /\ faults \in Nat

LEMMA LenSteps == Len(Steps) \in Nat
BY StepsAssumption

(* A request that is past its first read is inside run. *)
LEMMA InsideRun ==
    ASSUME TypeInv, NEW r \in Runners, pc[r].at \notin {"idle", "create"}
    PROVE  pc[r] \in InRun
<1>1. pc[r] \in {Idle, Creating} \cup InRun
  BY DEF TypeInv
<1> QED
  BY <1>1 DEF Idle, Creating

LEMMA InType ==
    ASSUME NEW at \in {"read", "mark", "snapshot", "drain", "handle", "record", "fail", "stop", "link"},
           NEW l \in Launches, NEW todo \in SUBSET Seqs, NEW i \in 0 .. Len(Steps),
           NEW via \in {"call", "link"}
    PROVE  /\ In(at, l, todo, i, via) \in InRun
           /\ In(at, l, todo, i, via).at = at
           /\ In(at, l, todo, i, via).l = l
           /\ In(at, l, todo, i, via).via = via
BY DEF In, InRun

LEMMA GotoType ==
    ASSUME TypeInv, NEW r \in Runners, NEW p \in {Idle, Creating} \cup InRun, Goto(r, p)
    PROVE  /\ pc' \in [Runners -> {Idle, Creating} \cup InRun]
           /\ pc'[r] = p
           /\ \A b \in Runners : b # r => pc'[b] = pc[b]
BY DEF TypeInv, Goto

LEMMA statusForStageType ==
    ASSUME NEW s
    PROVE  statusForStage(s) \in {"OPEN", "WON", "LIVE", "LOST", "ON_HOLD"}
BY DEF statusForStage

LEMMA TransitionStages ==
    ASSUME NEW t \in ENGAGEMENT_TRANSITIONS
    PROVE  t[2] \in Stages
<1>1. Len(STAGE_ORDER) = 12
  BY DEF STAGE_ORDER
<1>2. CASE t \in {<<STAGE_ORDER[i], STAGE_ORDER[i + 1]>> : i \in 1 .. Len(STAGE_ORDER) - 1}
  <2>1. PICK i \in 1 .. 11 : t = <<STAGE_ORDER[i], STAGE_ORDER[i + 1]>>
    BY <1>1, <1>2
  <2>2. i + 1 \in 1 .. 12
    OBVIOUS
  <2> QED
    BY <2>1, <2>2 DEF Stages
<1>3. CASE t \in {<<s, "LOST">> : s \in PRESALES}
  BY <1>3 DEF Stages
<1> QED
  BY <1>2, <1>3 DEF ENGAGEMENT_TRANSITIONS

LEMMA InitType == Init => TypeInv
<1> SUFFICES ASSUME Init
             PROVE  TypeInv
  OBVIOUS
<1>1. eng \in EngType
  <2>1. PICK s \in Opened :
            eng = [stage |-> s, status |-> statusForStage(s), launchId |-> NoLaunch]
    BY DEF Init
  <2> QED
    BY <2>1, statusForStageType DEF EngType, Stages
<1>2. pc \in [Runners -> {Idle, Creating} \cup InRun]
  BY DEF Init
<1>3. desk \in [Desks -> {NoOp} \cup OpenOp]
  BY DEF Init
<1> QED
  BY <1>1, <1>2, <1>3 DEF Init, TypeInv

LEMMA NextType == TypeInv /\ [Next]_vars => TypeInv'
<1> SUFFICES ASSUME TypeInv, [Next]_vars
             PROVE  TypeInv'
  OBVIOUS
<1>g. ASSUME NEW r \in Runners, NEW p \in {Idle, Creating} \cup InRun, Goto(r, p),
             UNCHANGED <<status, step, tenant, made, backups, eng, desk>>, faults' \in Nat
      PROVE  TypeInv'
  BY <1>g, GotoType DEF TypeInv
<1>f. Fault => faults' \in Nat
  BY DEF Fault, TypeInv
<1>1. ASSUME NEW r \in Runners, NEW l \in Launches, RunRead(r, l)
      PROVE  TypeInv'
  <2>1. In("mark", l, {}, 0, "call") \in InRun
    BY LenSteps, InType
  <2> QED
    BY <1>1, <1>g, <2>1 DEF RunRead, TypeInv
<1>2. ASSUME NEW r \in Runners, NEW l \in Launches, RetryReset(r, l)
      PROVE  TypeInv'
  <2>1. In("read", l, {}, 0, "call") \in InRun
    BY LenSteps, InType
  <2>2. PICK i \in Seqs : step' = [step EXCEPT ![l][i] = "PENDING"]
    BY <1>2 DEF RetryReset
  <2>3. step' \in [Launches -> [Seqs -> {"PENDING", "RUNNING", "DONE", "FAILED"}]]
    BY <2>2 DEF TypeInv
  <2>4. pc' \in [Runners -> {Idle, Creating} \cup InRun]
    BY <1>2, <2>1, GotoType DEF RetryReset
  <2> QED
    BY <1>2, <2>3, <2>4 DEF RetryReset, TypeInv
<1>3. ASSUME NEW r \in Runners, RunReadAgain(r)
      PROVE  TypeInv'
  <2> DEFINE p == pc[r]
  <2>1. p \in InRun
    BY <1>3, InsideRun DEF RunReadAgain
  <2>2. p.l \in Launches /\ p.via \in {"call", "link"}
    BY <2>1 DEF InRun
  <2>3. /\ In("mark", p.l, {}, 0, p.via) \in InRun
        /\ In("link", p.l, {}, 0, p.via) \in InRun
    BY <2>2, LenSteps, InType
  <2>4. PICK q \in {Idle, Creating} \cup InRun : Goto(r, q)
    BY <1>3, <2>3 DEF RunReadAgain
  <2> QED
    BY <1>3, <1>g, <2>4 DEF RunReadAgain, TypeInv
<1>4. ASSUME NEW r \in Runners, RunMark(r)
      PROVE  TypeInv'
  <2>1. pc[r] \in InRun
    BY <1>4, InsideRun DEF RunMark
  <2>2. [pc[r] EXCEPT !.at = "snapshot"] \in InRun /\ pc[r].l \in Launches
    BY <2>1 DEF InRun
  <2>3. pc' \in [Runners -> {Idle, Creating} \cup InRun]
    BY <1>4, <2>2, GotoType DEF RunMark
  <2> QED
    BY <1>4, <2>2, <2>3 DEF RunMark, TypeInv
<1>5. ASSUME NEW r \in Runners, RunSnapshot(r)
      PROVE  TypeInv'
  <2> DEFINE S == {i \in Seqs : step[pc[r].l][i] # "DONE"}
             q == [pc[r] EXCEPT !.at = "drain", !.todo = S]
  <2>1. pc[r] \in InRun
    BY <1>5, InsideRun DEF RunSnapshot
  <2>2. S \subseteq Seqs /\ Goto(r, q)
    BY <1>5 DEF RunSnapshot
  <2> HIDE DEF S
  <2>3. q \in InRun
    BY <2>1, <2>2 DEF InRun
  <2> QED
    BY <1>5, <1>g, <2>2, <2>3 DEF RunSnapshot, TypeInv
<1>6. ASSUME NEW r \in Runners, StepStart(r)
      PROVE  TypeInv'
  <2>1. pc[r] \in InRun
    BY <1>6, InsideRun DEF StepStart
  <2>2. PICK i \in pc[r].todo :
            /\ step' = [step EXCEPT ![pc[r].l][i] = "RUNNING"]
            /\ Goto(r, [pc[r] EXCEPT !.at = "handle", !.i = i])
    BY <1>6 DEF StepStart
  <2>3. i \in Seqs /\ i \in 0 .. Len(Steps) /\ pc[r].l \in Launches
    BY <2>1, <2>2, LenSteps DEF InRun, Seqs
  <2>4. [pc[r] EXCEPT !.at = "handle", !.i = i] \in InRun
    BY <2>1, <2>3 DEF InRun
  <2>5. pc' \in [Runners -> {Idle, Creating} \cup InRun]
    BY <2>2, <2>4, GotoType
  <2>6. step' \in [Launches -> [Seqs -> {"PENDING", "RUNNING", "DONE", "FAILED"}]]
    BY <2>2, <2>3 DEF TypeInv
  <2> QED
    BY <1>6, <2>5, <2>6 DEF StepStart, TypeInv
<1>7. ASSUME NEW r \in Runners, StepHandle(r)
      PROVE  TypeInv'
  <2>1. pc[r] \in InRun
    BY <1>7, InsideRun DEF StepHandle
  <2>2. [pc[r] EXCEPT !.at = "record"] \in InRun
    BY <2>1 DEF InRun
  <2>3. pc' \in [Runners -> {Idle, Creating} \cup InRun]
    BY <1>7, <2>2, GotoType DEF StepHandle
  <2>4. tenant' \in {"NONE", "PROVISIONING", "ACTIVE"} /\ backups' \in 0 .. 2
    BY <1>7 DEF StepHandle, Handler, TypeInv
  <2> QED
    BY <1>7, <2>3, <2>4 DEF StepHandle, TypeInv
<1>8. ASSUME NEW r \in Runners, StepThrow(r)
      PROVE  TypeInv'
  <2>1. pc[r] \in InRun
    BY <1>8, InsideRun DEF StepThrow
  <2>2. [pc[r] EXCEPT !.at = "fail"] \in InRun
    BY <2>1 DEF InRun
  <2> QED
    BY <1>8, <1>f, <1>g, <2>2 DEF StepThrow
<1>9. ASSUME NEW r \in Runners, StepDone(r)
      PROVE  TypeInv'
  <2> DEFINE S == pc[r].todo \ {pc[r].i}
             q == [pc[r] EXCEPT !.at = "drain", !.todo = S]
  <2>1. pc[r] \in InRun
    BY <1>9, InsideRun DEF StepDone
  <2>2. S \subseteq Seqs /\ pc[r].l \in Launches
    BY <2>1 DEF InRun
  <2>3. Goto(r, q)
    BY <1>9, <2>1 DEF StepDone, InRun
  <2> HIDE DEF S
  <2>4. q \in InRun
    BY <2>1, <2>2 DEF InRun
  <2>5. pc' \in [Runners -> {Idle, Creating} \cup InRun]
    BY <2>3, <2>4, GotoType
  <2>6. step' \in [Launches -> [Seqs -> {"PENDING", "RUNNING", "DONE", "FAILED"}]]
    BY <1>9, <2>2 DEF StepDone, TypeInv
  <2> QED
    BY <1>9, <2>5, <2>6 DEF StepDone, TypeInv
<1>10. ASSUME NEW r \in Runners, StepFailed(r)
       PROVE  TypeInv'
  <2>1. pc[r] \in InRun
    BY <1>10, InsideRun DEF StepFailed
  <2>2. [pc[r] EXCEPT !.at = "stop"] \in InRun /\ pc[r].l \in Launches
    BY <2>1 DEF InRun
  <2>3. pc' \in [Runners -> {Idle, Creating} \cup InRun]
    BY <1>10, <2>2, GotoType DEF StepFailed
  <2>4. step' \in [Launches -> [Seqs -> {"PENDING", "RUNNING", "DONE", "FAILED"}]]
    BY <1>10, <2>2 DEF StepFailed, TypeInv
  <2> QED
    BY <1>10, <2>3, <2>4 DEF StepFailed, TypeInv
<1>11. ASSUME NEW r \in Runners, RunEnd(r)
       PROVE  TypeInv'
  <2>1. pc[r] \in InRun
    BY <1>11, InsideRun DEF RunEnd
  <2>2. [pc[r] EXCEPT !.at = "link"] \in InRun /\ pc[r].l \in Launches
    BY <2>1 DEF InRun
  <2>3. PICK q \in {Idle, Creating} \cup InRun : Goto(r, q)
    BY <1>11, <2>2 DEF RunEnd
  <2>4. pc' \in [Runners -> {Idle, Creating} \cup InRun]
    BY <2>3, GotoType
  <2>5. status' \in [Launches -> {"NONE", "QUEUED", "RUNNING", "FAILED", "COMPLETED"}]
    BY <1>11, <2>2 DEF RunEnd, TypeInv
  <2> QED
    BY <1>11, <2>4, <2>5 DEF RunEnd, TypeInv
<1>12. ASSUME NEW r \in Runners, Crash(r)
       PROVE  TypeInv'
  BY <1>12, <1>f, <1>g DEF Crash
<1>13. ASSUME NEW r \in Runners, LaunchTenant(r)
       PROVE  TypeInv'
  BY <1>13, <1>g DEF LaunchTenant, Creating, TypeInv
<1>c. ASSUME NEW l \in Launches, CreateRows(l)
      PROVE  /\ status' \in [Launches -> {"NONE", "QUEUED", "RUNNING", "FAILED", "COMPLETED"}]
             /\ step' \in [Launches -> [Seqs -> {"PENDING", "RUNNING", "DONE", "FAILED"}]]
  BY <1>c DEF CreateRows, TypeInv
<1>14. ASSUME NEW r \in Runners, NEW l \in Launches, LaunchTenantCreate(r, l)
       PROVE  TypeInv'
  <2>1. In("read", l, {}, 0, "link") \in InRun
    BY LenSteps, InType
  <2>2. pc' \in [Runners -> {Idle, Creating} \cup InRun]
    BY <1>14, <2>1, GotoType DEF LaunchTenantCreate
  <2> QED
    BY <1>14, <1>c, <2>2 DEF LaunchTenantCreate, TypeInv
<1>15. ASSUME NEW r \in Runners, LaunchTenantLink(r)
       PROVE  TypeInv'
  <2>1. pc[r] \in InRun
    BY <1>15, InsideRun DEF LaunchTenantLink
  <2>2. pc[r].l \in Launches
    BY <2>1 DEF InRun
  <2>3. eng' \in EngType
    BY <1>15, <2>2 DEF LaunchTenantLink, EngType, TypeInv
  <2>4. pc' \in [Runners -> {Idle, Creating} \cup InRun]
    BY <1>15, GotoType DEF LaunchTenantLink
  <2> QED
    BY <1>15, <2>3, <2>4 DEF LaunchTenantLink, TypeInv
<1>16. ASSUME NEW r \in Runners, CallerGone(r)
       PROVE  TypeInv'
  <2>1. pc[r] \in InRun
    BY <1>16, InsideRun DEF CallerGone
  <2>2. [pc[r] EXCEPT !.via = "call"] \in InRun
    BY <2>1 DEF InRun
  <2> QED
    BY <1>16, <1>f, <1>g, <2>2 DEF CallerGone
<1>17. ASSUME NEW l \in Launches, Create(l)
       PROVE  TypeInv'
  BY <1>17, <1>c DEF Create, TypeInv
<1>18. ASSUME NEW d \in Desks, NEW op \in Ops, EngLoad(d, op)
       PROVE  TypeInv'
  <2>1. eng.stage \in Stages
    BY DEF TypeInv, EngType
  <2>2. PICK q \in OpenOp : desk' = [desk EXCEPT ![d] = q]
    <3>1. ASSUME NEW t \in ENGAGEMENT_TRANSITIONS,
                 desk' = [desk EXCEPT ![d] =
                    [op |-> op, to |-> t[2], status |-> statusForStage(t[2])]]
          PROVE  \E q \in OpenOp : desk' = [desk EXCEPT ![d] = q]
      <4>1. [op |-> op, to |-> t[2], status |-> statusForStage(t[2])] \in OpenOp
        BY TransitionStages, statusForStageType DEF OpenOp
      <4> QED
        BY <3>1, <4>1
    <3>2. [op |-> op, to |-> eng.stage, status |-> "ON_HOLD"] \in OpenOp
      BY <2>1 DEF OpenOp
    <3>3. [op |-> op, to |-> eng.stage, status |-> statusForStage(eng.stage)] \in OpenOp
      BY <2>1, statusForStageType DEF OpenOp
    <3> QED
      BY <1>18, <3>1, <3>2, <3>3 DEF EngLoad
  <2>3. desk' \in [Desks -> {NoOp} \cup OpenOp]
    BY <2>2 DEF TypeInv
  <2> QED
    BY <1>18, <2>3 DEF EngLoad, launchVars, TypeInv
<1>19. ASSUME NEW d \in Desks, EngWrite(d)
       PROVE  TypeInv'
  <2>1. desk[d] \in OpenOp
    BY <1>19 DEF EngWrite, TypeInv
  <2>2. /\ desk[d].status \in {"OPEN", "WON", "LIVE", "LOST", "ON_HOLD"}
        /\ desk[d].to \in Stages
    BY <2>1 DEF OpenOp
  <2>3. eng' \in EngType
    BY <1>19, <2>2 DEF EngWrite, EngType, TypeInv
  <2>4. desk' \in [Desks -> {NoOp} \cup OpenOp]
    BY <1>19 DEF EngWrite, TypeInv
  <2> QED
    BY <1>19, <2>3, <2>4 DEF EngWrite, launchVars, TypeInv
<1>20. CASE UNCHANGED vars
  BY <1>20 DEF vars, TypeInv
<1> QED
  BY <1>1, <1>2, <1>3, <1>4, <1>5, <1>6, <1>7, <1>8, <1>9, <1>10, <1>11, <1>12, <1>13,
     <1>14, <1>15, <1>16, <1>17, <1>18, <1>19, <1>20 DEF Next, Work, Call

-----------------------------------------------------------------------------
(* The drain.  Whatever a run's snapshot showed finished, and whatever it  *)
(* has finished itself, is made; the step in hand is the first of the      *)
(* others.                                                                 *)
Drains(p, m) ==
    /\ p.at \in {"drain", "handle", "record"} => Seqs \ p.todo \subseteq m
    /\ p.at \in {"handle", "record"} => p.i \in p.todo /\ \A j \in p.todo : p.i <= j
    /\ p.at = "record" => p.i \in m

DrainInv == \A r \in Runners : Drains(pc[r], made)

(* DoneIsMade without its restriction to the rows that are there. *)
DoneInv == \A l \in Launches, i \in Seqs : step[l][i] = "DONE" => 1 .. i \subseteq made

BackupInv == \A i \in made : Steps[i] = "provision-backup" => backups > 0

MadeInv ==
    /\ TypeInv
    /\ made \subseteq Seqs
    /\ DrainInv
    /\ DoneInv
    /\ BackupInv
    /\ ActiveIsPrepared

LEMMA DrainsMore ==
    ASSUME NEW p, NEW m, NEW n, m \subseteq n, Drains(p, m)
    PROVE  Drains(p, n)
BY DEF Drains

(* Requests that are not draining. *)
LEMMA NotDraining ==
    ASSUME NEW p, NEW m, p.at \notin {"drain", "handle", "record"}
    PROVE  Drains(p, m)
BY DEF Drains

(* A step that makes nothing and only moves one request. *)
LEMMA MovesOne ==
    ASSUME MadeInv, NEW r \in Runners, NEW p \in {Idle, Creating} \cup InRun,
           Goto(r, p), Drains(p, made), UNCHANGED <<tenant, made, backups>>
    PROVE  (made \subseteq Seqs /\ DrainInv /\ BackupInv /\ ActiveIsPrepared)'
<1>1. TypeInv
  BY DEF MadeInv
<1>2. pc'[r] = p /\ \A b \in Runners : b # r => pc'[b] = pc[b]
  BY <1>1, GotoType
<1>3. DrainInv'
  BY <1>2 DEF MadeInv, DrainInv
<1> QED
  BY <1>3 DEF MadeInv, BackupInv, ActiveIsPrepared

(* The handler of the first unfinished step. *)
LEMMA HandlerMakes ==
    ASSUME MadeInv, NEW i \in Seqs, \A j \in 1 .. i - 1 : j \in made, Handler(i)
    PROVE  (made \subseteq Seqs /\ BackupInv /\ ActiveIsPrepared)'
<1>1. made' = made \cup {i} /\ backups \in 0 .. 2 /\ made \subseteq Seqs
  BY DEF Handler, MadeInv, TypeInv
<1>2. BackupInv'
  <2>1. Steps[i] = "provision-backup" => backups' > 0
    BY <1>1 DEF Handler
  <2>2. backups > 0 => backups' > 0
    BY <1>1 DEF Handler
  <2> QED
    BY <1>1, <2>1, <2>2 DEF MadeInv, BackupInv
<1>3. ASSUME tenant' = "ACTIVE"
      PROVE  made' = Seqs /\ backups' > 0
  <2>1. CASE Steps[i] = "handover"
    <3>1. i = Len(Steps)
      BY <2>1, StepsAssumption DEF Seqs
    <3>2. made' = Seqs
      <4>1. \A j \in Seqs : j = i \/ j \in 1 .. i - 1
        BY <3>1, LenSteps DEF Seqs
      <4> QED
        BY <1>1, <4>1
    <3>3. PICK k \in Seqs : Steps[k] = "provision-backup"
      BY StepsAssumption DEF Seqs
    <3> QED
      BY <1>2, <3>2, <3>3 DEF BackupInv
  <2>2. CASE Steps[i] # "handover"
    <3>1. tenant = "ACTIVE"
      BY <1>3, <2>2 DEF Handler
    <3>2. made = Seqs /\ backups > 0
      BY <3>1 DEF MadeInv, ActiveIsPrepared
    <3> QED
      BY <1>1, <3>2 DEF Handler
  <2> QED
    BY <2>1, <2>2
<1> QED
  BY <1>1, <1>2, <1>3 DEF ActiveIsPrepared

LEMMA NextMade == MadeInv /\ [Next]_vars => MadeInv'
<1> SUFFICES ASSUME MadeInv, [Next]_vars
             PROVE  MadeInv'
  OBVIOUS
<1>0. TypeInv /\ TypeInv'
  BY NextType DEF MadeInv
<1>d. UNCHANGED <<step, made>> => DoneInv'
  BY DEF MadeInv, DoneInv
(* A step that touches no step row and moves one request off the drain. *)
<1>m. ASSUME NEW r \in Runners, NEW p \in {Idle, Creating} \cup InRun, Goto(r, p),
             Drains(p, made), UNCHANGED <<step, tenant, made, backups>>
      PROVE  MadeInv'
  <2>1. (made \subseteq Seqs /\ DrainInv /\ BackupInv /\ ActiveIsPrepared)'
    BY <1>m, MovesOne
  <2> QED
    BY <1>0, <1>d, <1>m, <2>1 DEF MadeInv
<1>i. Drains(Idle, made) /\ Drains(Creating, made)
  BY NotDraining DEF Idle, Creating
<1>1. ASSUME NEW r \in Runners, NEW l \in Launches, RunRead(r, l)
      PROVE  MadeInv'
  <2> DEFINE p == In("mark", l, {}, 0, "call")
  <2>1. p \in InRun
    BY LenSteps, InType
  <2>2. Drains(p, made)
    BY DEF Drains, In
  <2> QED
    BY <1>1, <1>m, <2>1, <2>2 DEF RunRead
<1>2. ASSUME NEW r \in Runners, NEW l \in Launches, RetryReset(r, l)
      PROVE  MadeInv'
  <2> DEFINE p == In("read", l, {}, 0, "call")
  <2>1. p \in InRun
    BY LenSteps, InType
  <2>2. Drains(p, made)
    BY DEF Drains, In
  <2>3. (made \subseteq Seqs /\ DrainInv /\ BackupInv /\ ActiveIsPrepared)'
    BY <1>2, <2>1, <2>2, MovesOne DEF RetryReset
  <2>4. PICK i \in Seqs : step' = [step EXCEPT ![l][i] = "PENDING"]
    BY <1>2 DEF RetryReset
  <2>5. \A m \in Launches, j \in Seqs : step'[m][j] = "DONE" => step[m][j] = "DONE"
    BY <1>0, <2>4 DEF TypeInv
  <2>6. DoneInv'
    BY <1>2, <2>5 DEF RetryReset, MadeInv, DoneInv
  <2> QED
    BY <1>0, <2>3, <2>6 DEF MadeInv
<1>3. ASSUME NEW r \in Runners, RunReadAgain(r)
      PROVE  MadeInv'
  <2> DEFINE p == pc[r]
             m == In("mark", p.l, {}, 0, p.via)
             k == In("link", p.l, {}, 0, p.via)
  <2>1. p \in InRun
    BY <1>0, <1>3, InsideRun DEF RunReadAgain
  <2>2. p.l \in Launches /\ p.via \in {"call", "link"}
    BY <2>1 DEF InRun
  <2>3. m \in InRun /\ k \in InRun
    BY <2>2, LenSteps, InType
  <2>4. Drains(m, made) /\ Drains(k, made)
    BY DEF Drains, In
  <2>5. Goto(r, m) \/ Goto(r, k) \/ Goto(r, Idle)
    BY <1>3 DEF RunReadAgain
  <2> HIDE DEF m, k
  <2> QED
    BY <1>3, <1>i, <1>m, <2>3, <2>4, <2>5 DEF RunReadAgain
<1>4. ASSUME NEW r \in Runners, RunMark(r)
      PROVE  MadeInv'
  <2>1. pc[r] \in InRun
    BY <1>0, <1>4, InsideRun DEF RunMark
  <2> DEFINE q == [pc[r] EXCEPT !.at = "snapshot"]
  <2>2. q \in InRun /\ q.at = "snapshot"
    BY <2>1 DEF InRun
  <2>3. Goto(r, q) /\ UNCHANGED <<step, tenant, made, backups>>
    BY <1>4 DEF RunMark
  <2> HIDE DEF q
  <2>4. Drains(q, made)
    BY <2>2, NotDraining
  <2> QED
    BY <1>m, <2>2, <2>3, <2>4
<1>5. ASSUME NEW r \in Runners, RunSnapshot(r)
      PROVE  MadeInv'
  <2> DEFINE S == {i \in Seqs : step[pc[r].l][i] # "DONE"}
             q == [pc[r] EXCEPT !.at = "drain", !.todo = S]
  <2>1. pc[r] \in InRun
    BY <1>0, <1>5, InsideRun DEF RunSnapshot
  <2>2. Goto(r, q) /\ UNCHANGED <<step, tenant, made, backups>>
    BY <1>5 DEF RunSnapshot
  <2>3. S \subseteq Seqs /\ pc[r].l \in Launches
    BY <2>1 DEF InRun
  <2>4. Seqs \ S \subseteq made
    <3> SUFFICES ASSUME NEW j \in Seqs, step[pc[r].l][j] = "DONE"
                 PROVE  j \in made
      OBVIOUS
    <3>1. 1 .. j \subseteq made
      BY <2>3 DEF MadeInv, DoneInv
    <3>2. j \in 1 .. j
      BY LenSteps DEF Seqs
    <3> QED
      BY <3>1, <3>2
  <2> HIDE DEF S
  <2>5. q \in InRun /\ q.at = "drain" /\ q.todo = S
    BY <2>1, <2>3 DEF InRun
  <2> HIDE DEF q
  <2>6. Drains(q, made)
    BY <2>4, <2>5 DEF Drains
  <2> QED
    BY <1>m, <2>2, <2>5, <2>6
<1>6. ASSUME NEW r \in Runners, StepStart(r)
      PROVE  MadeInv'
  <2>1. pc[r] \in InRun
    BY <1>0, <1>6, InsideRun DEF StepStart
  <2>2. PICK i \in pc[r].todo :
            /\ \A j \in pc[r].todo : i <= j
            /\ step' = [step EXCEPT ![pc[r].l][i] = "RUNNING"]
            /\ Goto(r, [pc[r] EXCEPT !.at = "handle", !.i = i])
    BY <1>6 DEF StepStart
  <2> DEFINE q == [pc[r] EXCEPT !.at = "handle", !.i = i]
  <2>3. i \in Seqs /\ i \in 0 .. Len(Steps) /\ pc[r].l \in Launches
    BY <2>1, <2>2, LenSteps DEF InRun, Seqs
  <2>4. q \in InRun /\ q.at = "handle" /\ q.i = i /\ q.todo = pc[r].todo
    BY <2>1, <2>3 DEF InRun
  <2>5. Goto(r, q)
    BY <2>2
  <2> HIDE DEF q
  <2>6. Seqs \ pc[r].todo \subseteq made
    BY <1>6 DEF StepStart, MadeInv, DrainInv, Drains
  <2>7. Drains(q, made)
    BY <2>2, <2>4, <2>6 DEF Drains
  <2>8. (made \subseteq Seqs /\ DrainInv /\ BackupInv /\ ActiveIsPrepared)'
    BY <1>6, <2>4, <2>5, <2>7, MovesOne DEF StepStart
  <2>9. \A m \in Launches, j \in Seqs : step'[m][j] = "DONE" => step[m][j] = "DONE"
    BY <1>0, <2>2, <2>3 DEF TypeInv
  <2>10. DoneInv'
    BY <1>6, <2>9 DEF StepStart, MadeInv, DoneInv
  <2> QED
    BY <1>0, <2>8, <2>10 DEF MadeInv
<1>7. ASSUME NEW r \in Runners, StepHandle(r)
      PROVE  MadeInv'
  <2> DEFINE q == [pc[r] EXCEPT !.at = "record"]
             i == pc[r].i
  <2>1. pc[r] \in InRun
    BY <1>0, <1>7, InsideRun DEF StepHandle
  <2>2. /\ q \in InRun /\ q.at = "record" /\ q.i = i /\ q.todo = pc[r].todo
        /\ pc[r].todo \subseteq Seqs
    BY <2>1 DEF InRun
  <2>3. Goto(r, q) /\ Handler(i)
    BY <1>7 DEF StepHandle
  <2>4. /\ Seqs \ pc[r].todo \subseteq made
        /\ i \in pc[r].todo
        /\ \A j \in pc[r].todo : i <= j
    BY <1>7 DEF StepHandle, MadeInv, DrainInv, Drains
  <2> HIDE DEF q, i
  <2>5. i \in Seqs /\ \A j \in 1 .. i - 1 : j \in made
    BY <2>2, <2>4, LenSteps DEF Seqs
  <2>6. (made \subseteq Seqs /\ BackupInv /\ ActiveIsPrepared)'
    BY <2>3, <2>5, HandlerMakes
  <2>7. made' = made \cup {i}
    BY <2>3 DEF Handler
  <2>8. Drains(q, made')
    BY <2>2, <2>4, <2>7 DEF Drains
  <2>9. pc'[r] = q /\ \A b \in Runners : b # r => pc'[b] = pc[b]
    BY <1>0, <2>2, <2>3, GotoType
  <2>10. \A b \in Runners : Drains(pc[b], made')
    BY <2>7, DrainsMore DEF MadeInv, DrainInv
  <2>11. DrainInv'
    BY <2>8, <2>9, <2>10 DEF DrainInv
  <2>12. DoneInv'
    BY <1>7, <2>7 DEF StepHandle, MadeInv, DoneInv
  <2> QED
    BY <1>0, <2>6, <2>11, <2>12 DEF MadeInv
<1>8. ASSUME NEW r \in Runners, StepThrow(r)
      PROVE  MadeInv'
  <2> DEFINE q == [pc[r] EXCEPT !.at = "fail"]
  <2>1. pc[r] \in InRun
    BY <1>0, <1>8, InsideRun DEF StepThrow
  <2>2. q \in InRun /\ q.at = "fail"
    BY <2>1 DEF InRun
  <2>3. Goto(r, q) /\ UNCHANGED <<step, tenant, made, backups>>
    BY <1>8 DEF StepThrow
  <2> HIDE DEF q
  <2>4. Drains(q, made)
    BY <2>2, NotDraining
  <2> QED
    BY <1>m, <2>2, <2>3, <2>4
<1>9. ASSUME NEW r \in Runners, StepDone(r)
      PROVE  MadeInv'
  <2> DEFINE i == pc[r].i
             l == pc[r].l
             S == pc[r].todo \ {i}
             q == [pc[r] EXCEPT !.at = "drain", !.todo = S]
  <2>1. pc[r] \in InRun
    BY <1>0, <1>9, InsideRun DEF StepDone
  <2>2. /\ S \subseteq Seqs /\ l \in Launches /\ pc[r].todo \subseteq Seqs
        /\ q \in InRun /\ q.at = "drain" /\ q.todo = S
    BY <2>1 DEF InRun
  <2>3. Goto(r, q) /\ step' = [step EXCEPT ![l][i] = "DONE"]
    BY <1>9, <2>1 DEF StepDone, InRun
  <2>4. /\ Seqs \ pc[r].todo \subseteq made
        /\ i \in pc[r].todo /\ i \in made
        /\ \A j \in pc[r].todo : i <= j
    BY <1>9 DEF StepDone, MadeInv, DrainInv, Drains
  <2>5. Seqs \ S \subseteq made
    BY <2>4
  <2> HIDE DEF i, l, S, q
  <2>6. Drains(q, made)
    BY <2>2, <2>5 DEF Drains
  <2>7. (made \subseteq Seqs /\ DrainInv /\ BackupInv /\ ActiveIsPrepared)'
    BY <1>9, <2>2, <2>3, <2>6, MovesOne DEF StepDone
  <2>8. 1 .. i \subseteq made
    BY <2>2, <2>4, LenSteps DEF Seqs
  <2>9. \A m \in Launches, j \in Seqs :
            step'[m][j] = "DONE" => step[m][j] = "DONE" \/ j = i
    BY <1>0, <2>2, <2>3 DEF TypeInv
  <2>10. DoneInv'
    BY <1>9, <2>8, <2>9 DEF StepDone, MadeInv, DoneInv
  <2> QED
    BY <1>0, <2>7, <2>10 DEF MadeInv
<1>10. ASSUME NEW r \in Runners, StepFailed(r)
       PROVE  MadeInv'
  <2> DEFINE q == [pc[r] EXCEPT !.at = "stop"]
             i == pc[r].i
             l == pc[r].l
  <2>1. pc[r] \in InRun
    BY <1>0, <1>10, InsideRun DEF StepFailed
  <2>2. q \in InRun /\ q.at = "stop" /\ l \in Launches
    BY <2>1 DEF InRun
  <2>3. Goto(r, q) /\ step' = [step EXCEPT ![l][i] = "FAILED"]
    BY <1>10 DEF StepFailed
  <2> HIDE DEF i, l, q
  <2>4. Drains(q, made)
    BY <2>2, NotDraining
  <2>5. (made \subseteq Seqs /\ DrainInv /\ BackupInv /\ ActiveIsPrepared)'
    BY <1>10, <2>2, <2>3, <2>4, MovesOne DEF StepFailed
  <2>6. \A m \in Launches, j \in Seqs : step'[m][j] = "DONE" => step[m][j] = "DONE"
    BY <1>0, <2>2, <2>3 DEF TypeInv
  <2>7. DoneInv'
    BY <1>10, <2>6 DEF StepFailed, MadeInv, DoneInv
  <2> QED
    BY <1>0, <2>5, <2>7 DEF MadeInv
<1>11. ASSUME NEW r \in Runners, RunEnd(r)
       PROVE  MadeInv'
  <2> DEFINE q == [pc[r] EXCEPT !.at = "link"]
  <2>1. pc[r] \in InRun
    BY <1>0, <1>11, InsideRun DEF RunEnd
  <2>2. q \in InRun /\ q.at = "link"
    BY <2>1 DEF InRun
  <2>3. (Goto(r, q) \/ Goto(r, Idle)) /\ UNCHANGED <<step, tenant, made, backups>>
    BY <1>11 DEF RunEnd
  <2> HIDE DEF q
  <2>4. Drains(q, made)
    BY <2>2, NotDraining
  <2> QED
    BY <1>i, <1>m, <2>2, <2>3, <2>4
<1>12. ASSUME NEW r \in Runners, Crash(r)
       PROVE  MadeInv'
  BY <1>12, <1>i, <1>m DEF Crash
<1>13. ASSUME NEW r \in Runners, LaunchTenant(r)
       PROVE  MadeInv'
  <2>1. Goto(r, Creating) /\ UNCHANGED <<step, tenant, made, backups>>
    BY <1>13 DEF LaunchTenant, Creating
  <2> QED
    BY <1>i, <1>m, <2>1
<1>c. ASSUME NEW l \in Launches, CreateRows(l), UNCHANGED made
      PROVE  DoneInv'
  <2>1. \A m \in Launches, j \in Seqs : step'[m][j] = "DONE" => step[m][j] = "DONE"
    BY <1>0, <1>c DEF CreateRows, TypeInv
  <2> QED
    BY <1>c, <2>1 DEF MadeInv, DoneInv
<1>14. ASSUME NEW r \in Runners, NEW l \in Launches, LaunchTenantCreate(r, l)
       PROVE  MadeInv'
  <2> DEFINE p == In("read", l, {}, 0, "link")
  <2>1. p \in InRun
    BY LenSteps, InType
  <2>2. Drains(p, made)
    BY DEF Drains, In
  <2>3. (made \subseteq Seqs /\ DrainInv /\ BackupInv /\ ActiveIsPrepared)'
    BY <1>14, <2>1, <2>2, MovesOne DEF LaunchTenantCreate
  <2> QED
    BY <1>0, <1>14, <1>c, <2>3 DEF LaunchTenantCreate, MadeInv
<1>15. ASSUME NEW r \in Runners, LaunchTenantLink(r)
       PROVE  MadeInv'
  BY <1>15, <1>i, <1>m DEF LaunchTenantLink
<1>16. ASSUME NEW r \in Runners, CallerGone(r)
       PROVE  MadeInv'
  <2> DEFINE q == [pc[r] EXCEPT !.via = "call"]
  <2>1. pc[r] \in InRun
    BY <1>0, <1>16, InsideRun DEF CallerGone
  <2>2. q \in InRun /\ q.at = pc[r].at /\ q.i = pc[r].i /\ q.todo = pc[r].todo
    BY <2>1 DEF InRun
  <2>3. Goto(r, q) /\ UNCHANGED <<step, tenant, made, backups>>
    BY <1>16 DEF CallerGone
  <2> HIDE DEF q
  <2>4. Drains(q, made)
    BY <2>2 DEF MadeInv, DrainInv, Drains
  <2> QED
    BY <1>m, <2>2, <2>3, <2>4
<1>17. ASSUME NEW l \in Launches, Create(l)
       PROVE  MadeInv'
  BY <1>0, <1>17, <1>c DEF Create, MadeInv, DrainInv, BackupInv, ActiveIsPrepared
<1>18. CASE UNCHANGED launchVars
  BY <1>0, <1>d, <1>18 DEF launchVars, MadeInv, DrainInv, BackupInv, ActiveIsPrepared
<1>19. ASSUME NEW d \in Desks, (\E op \in Ops : EngLoad(d, op)) \/ EngWrite(d)
       PROVE  UNCHANGED launchVars
  BY <1>19 DEF EngLoad, EngWrite
<1>20. UNCHANGED vars => UNCHANGED launchVars
  BY DEF vars, launchVars
<1> QED
  BY <1>1, <1>2, <1>3, <1>4, <1>5, <1>6, <1>7, <1>8, <1>9, <1>10, <1>11, <1>12, <1>13,
     <1>14, <1>15, <1>16, <1>17, <1>18, <1>19, <1>20 DEF Next, Work, Call

LEMMA InitMade == Init => MadeInv
<1> SUFFICES ASSUME Init
             PROVE  MadeInv
  OBVIOUS
<1>1. \A r \in Runners : pc[r] = Idle
  BY DEF Init
<1>2. DrainInv
  BY <1>1 DEF DrainInv, Drains, Idle
<1> QED
  BY <1>2, InitType DEF Init, MadeInv, DoneInv, BackupInv, ActiveIsPrepared

(* A tenant that the factory has activated has every step's rows and a     *)
(* backup, for any pipeline that ends with handover, any number of         *)
(* launches and of overlapping, failing and dying runs.                    *)
THEOREM ActivePrepared == Spec => []ActiveIsPrepared
<1>1. MadeInv => ActiveIsPrepared
  BY DEF MadeInv
<1> QED
  BY <1>1, InitMade, NextMade, PTL DEF Spec

(* A step that a later run skips, because its row says DONE, has really    *)
(* been carried out, and so have all before it.                            *)
THEOREM SkippedIsMade == Spec => []DoneIsMade
<1>1. MadeInv => DoneIsMade
  BY DEF MadeInv, DoneInv, DoneIsMade, Existing
<1> QED
  BY <1>1, InitMade, NextMade, PTL DEF Spec

-----------------------------------------------------------------------------
(* The engagement.  Whoever is going to store a reference belongs to an    *)
(* engagement that is live, and has a launch that has been run; the open   *)
(* transition of the one desk does not lead back.                          *)
LinkInv ==
    /\ TypeInv
    /\ \A r \in Runners :
        /\ pc[r].at = "create" => isLaunchReady(eng.stage)
        /\ pc[r].at \notin {"idle", "create"} /\ pc[r].via = "link" => isLaunchReady(eng.stage)
        /\ pc[r].at = "link" => pc[r].via = "link" /\ status[pc[r].l] \notin {"NONE", "QUEUED"}
    /\ \A d \in Desks :
        desk[d] # NoOp /\ desk[d].op = "transition" /\ isLaunchReady(eng.stage)
            => isLaunchReady(desk[d].to)
    /\ LinkedIsLive

LEMMA LiveStays ==
    ASSUME NEW t \in ENGAGEMENT_TRANSITIONS, isLaunchReady(t[1])
    PROVE  isLaunchReady(t[2])
<1>1. Len(STAGE_ORDER) = 12
  BY DEF STAGE_ORDER
<1>2. CASE t \in {<<STAGE_ORDER[i], STAGE_ORDER[i + 1]>> : i \in 1 .. Len(STAGE_ORDER) - 1}
  <2>1. PICK i \in 1 .. 11 : t = <<STAGE_ORDER[i], STAGE_ORDER[i + 1]>>
    BY <1>1, <1>2
  <2>2. i \in {1, 2, 3, 4, 5, 6, 7, 8, 9, 10, 11}
    OBVIOUS
  <2> QED
    BY <2>1, <2>2 DEF STAGE_ORDER, isLaunchReady
<1>3. CASE t \in {<<s, "LOST">> : s \in PRESALES}
  BY <1>3 DEF PRESALES, isLaunchReady
<1> QED
  BY <1>2, <1>3 DEF ENGAGEMENT_TRANSITIONS

(* A request moves within the factory; the engagement and its desk stay. *)
LEMMA FactoryMoves ==
    ASSUME LinkInv, UNCHANGED <<eng, desk>>, TypeInv',
           \A l \in Launches :
               status[l] \notin {"NONE", "QUEUED"} => status'[l] \notin {"NONE", "QUEUED"},
           NEW r \in Runners, NEW p \in {Idle, Creating} \cup InRun, Goto(r, p),
           p.at = "create" => isLaunchReady(eng.stage),
           p.at \notin {"idle", "create"} /\ p.via = "link" => isLaunchReady(eng.stage),
           p.at = "link" => p.via = "link" /\ status'[p.l] \notin {"NONE", "QUEUED"}
    PROVE  LinkInv'
<1>1. TypeInv
  BY DEF LinkInv
<1>2. pc'[r] = p /\ \A b \in Runners : b # r => pc'[b] = pc[b]
  BY <1>1, GotoType
<1>3. \A b \in Runners : pc[b].at = "link" => pc[b].l \in Launches
  BY <1>1, InsideRun DEF InRun
<1>4. LinkedIsLive'
  <2>1. eng.launchId # NoLaunch => eng.launchId \in Launches
    BY <1>1 DEF TypeInv, EngType
  <2> QED
    BY <2>1 DEF LinkInv, LinkedIsLive
<1> QED
  BY <1>2, <1>3, <1>4 DEF LinkInv

LEMMA NextLink ==
    ASSUME \A d, e \in Desks : d = e
    PROVE  LinkInv /\ [Next]_vars => LinkInv'
<1> SUFFICES ASSUME LinkInv, [Next]_vars
             PROVE  LinkInv'
  OBVIOUS
<1>0. TypeInv /\ TypeInv'
  BY NextType DEF LinkInv
<1>s. ASSUME NEW l \in Launches, NEW s \in {"RUNNING", "FAILED", "COMPLETED"},
             status' = [status EXCEPT ![l] = s]
      PROVE  /\ status'[l] \notin {"NONE", "QUEUED"}
             /\ \A k \in Launches :
                  status[k] \notin {"NONE", "QUEUED"} => status'[k] \notin {"NONE", "QUEUED"}
  BY <1>0, <1>s DEF TypeInv
<1>c. ASSUME NEW l \in Launches, CreateRows(l)
      PROVE  \A k \in Launches :
                  status[k] \notin {"NONE", "QUEUED"} => status'[k] \notin {"NONE", "QUEUED"}
  BY <1>0, <1>c DEF CreateRows, TypeInv
(* A step inside run keeps via, and is not the last one. *)
<1>k. ASSUME NEW r \in Runners, pc[r] \in InRun, NEW q \in InRun, Goto(r, q),
             q.via = "call" \/ q.via = pc[r].via, q.at # "link",
             pc[r].at \notin {"idle", "create"}, UNCHANGED <<eng, desk>>,
             \A k \in Launches :
                  status[k] \notin {"NONE", "QUEUED"} => status'[k] \notin {"NONE", "QUEUED"}
      PROVE  LinkInv'
  <2>1. q.via = "link" => isLaunchReady(eng.stage)
    BY <1>k DEF LinkInv
  <2>2. q.at # "create"
    BY DEF InRun
  <2> QED
    BY <1>0, <1>k, <2>1, <2>2, FactoryMoves
<1>i. ASSUME NEW r \in Runners, Goto(r, Idle), UNCHANGED <<eng, desk>>,
             \A k \in Launches :
                  status[k] \notin {"NONE", "QUEUED"} => status'[k] \notin {"NONE", "QUEUED"}
      PROVE  LinkInv'
  <2>1. Idle.at = "idle"
    BY DEF Idle
  <2> QED
    BY <1>0, <1>i, <2>1, FactoryMoves
<1>1. ASSUME NEW r \in Runners, NEW l \in Launches, RunRead(r, l)
      PROVE  LinkInv'
  <2> DEFINE p == In("mark", l, {}, 0, "call")
  <2>1. p \in InRun /\ p.at = "mark" /\ p.via = "call"
    BY LenSteps, InType
  <2>2. Goto(r, p) /\ UNCHANGED <<status, eng, desk>>
    BY <1>1 DEF RunRead
  <2> HIDE DEF p
  <2> QED
    BY <1>0, <2>1, <2>2, FactoryMoves
<1>2. ASSUME NEW r \in Runners, NEW l \in Launches, RetryReset(r, l)
      PROVE  LinkInv'
  <2> DEFINE p == In("read", l, {}, 0, "call")
  <2>1. p \in InRun /\ p.at = "read" /\ p.via = "call"
    BY LenSteps, InType
  <2>2. Goto(r, p) /\ UNCHANGED <<status, eng, desk>>
    BY <1>2 DEF RetryReset
  <2> HIDE DEF p
  <2> QED
    BY <1>0, <2>1, <2>2, FactoryMoves
<1>3. ASSUME NEW r \in Runners, RunReadAgain(r)
      PROVE  LinkInv'
  <2> DEFINE p == pc[r]
             m == In("mark", p.l, {}, 0, p.via)
             k == In("link", p.l, {}, 0, p.via)
  <2>1. p \in InRun /\ p.at = "read"
    BY <1>0, <1>3, InsideRun DEF RunReadAgain
  <2>2. p.l \in Launches /\ p.via \in {"call", "link"}
    BY <2>1 DEF InRun
  <2>3. /\ m \in InRun /\ m.at = "mark" /\ m.via = p.via
        /\ k \in InRun /\ k.at = "link" /\ k.via = p.via /\ k.l = p.l
    BY <2>2, LenSteps, InType
  <2>4. /\ \/ Goto(r, m)
           \/ status[p.l] = "COMPLETED" /\ p.via = "link" /\ Goto(r, k)
           \/ Goto(r, Idle)
        /\ UNCHANGED <<status, eng, desk>>
    BY <1>3 DEF RunReadAgain
  <2> HIDE DEF m, k
  <2>5. CASE Goto(r, m)
    BY <1>k, <2>1, <2>3, <2>4, <2>5
  <2>6. CASE status[p.l] = "COMPLETED" /\ p.via = "link" /\ Goto(r, k)
    <3>1. isLaunchReady(eng.stage)
      BY <2>1, <2>6 DEF LinkInv
    <3>2. status'[k.l] \notin {"NONE", "QUEUED"}
      BY <2>3, <2>4, <2>6
    <3> QED
      BY <1>0, <2>3, <2>4, <2>6, <3>1, <3>2, FactoryMoves
  <2>7. CASE Goto(r, Idle)
    BY <1>i, <2>4, <2>7
  <2> QED
    BY <2>4, <2>5, <2>6, <2>7
<1>4. ASSUME NEW r \in Runners, RunMark(r)
      PROVE  LinkInv'
  <2> DEFINE q == [pc[r] EXCEPT !.at = "snapshot"]
  <2>1. pc[r] \in InRun
    BY <1>0, <1>4, InsideRun DEF RunMark
  <2>2. q \in InRun /\ q.at = "snapshot" /\ q.via = pc[r].via /\ pc[r].l \in Launches
    BY <2>1 DEF InRun
  <2>3. Goto(r, q) /\ UNCHANGED <<eng, desk>> /\ pc[r].at = "mark"
    BY <1>4 DEF RunMark
  <2>4. status' = [status EXCEPT ![pc[r].l] = "RUNNING"]
    BY <1>4 DEF RunMark
  <2> HIDE DEF q
  <2> QED
    BY <1>k, <1>s, <2>1, <2>2, <2>3, <2>4
<1>5. ASSUME NEW r \in Runners, RunSnapshot(r)
      PROVE  LinkInv'
  <2> DEFINE S == {i \in Seqs : step[pc[r].l][i] # "DONE"}
             q == [pc[r] EXCEPT !.at = "drain", !.todo = S]
  <2>1. pc[r] \in InRun
    BY <1>0, <1>5, InsideRun DEF RunSnapshot
  <2>2. Goto(r, q) /\ UNCHANGED <<status, eng, desk>> /\ pc[r].at = "snapshot"
    BY <1>5 DEF RunSnapshot
  <2>3. S \subseteq Seqs
    OBVIOUS
  <2> HIDE DEF S
  <2>4. q \in InRun /\ q.at = "drain" /\ q.via = pc[r].via
    BY <2>1, <2>3 DEF InRun
  <2> HIDE DEF q
  <2> QED
    BY <1>k, <2>1, <2>2, <2>4
<1>6. ASSUME NEW r \in Runners, StepStart(r)
      PROVE  LinkInv'
  <2>1. pc[r] \in InRun
    BY <1>0, <1>6, InsideRun DEF StepStart
  <2>2. PICK i \in pc[r].todo : Goto(r, [pc[r] EXCEPT !.at = "handle", !.i = i])
    BY <1>6 DEF StepStart
  <2> DEFINE q == [pc[r] EXCEPT !.at = "handle", !.i = i]
  <2>3. i \in 0 .. Len(Steps)
    BY <2>1, <2>2, LenSteps DEF InRun, Seqs
  <2>4. q \in InRun /\ q.at = "handle" /\ q.via = pc[r].via
    BY <2>1, <2>3 DEF InRun
  <2>5. Goto(r, q) /\ UNCHANGED <<status, eng, desk>> /\ pc[r].at = "drain"
    BY <1>6, <2>2 DEF StepStart
  <2> HIDE DEF q
  <2> QED
    BY <1>k, <2>1, <2>4, <2>5
<1>7. ASSUME NEW r \in Runners, StepHandle(r)
      PROVE  LinkInv'
  <2> DEFINE q == [pc[r] EXCEPT !.at = "record"]
  <2>1. pc[r] \in InRun
    BY <1>0, <1>7, InsideRun DEF StepHandle
  <2>2. q \in InRun /\ q.at = "record" /\ q.via = pc[r].via
    BY <2>1 DEF InRun
  <2>3. Goto(r, q) /\ UNCHANGED <<status, eng, desk>> /\ pc[r].at = "handle"
    BY <1>7 DEF StepHandle
  <2> HIDE DEF q
  <2> QED
    BY <1>k, <2>1, <2>2, <2>3
<1>8. ASSUME NEW r \in Runners, StepThrow(r)
      PROVE  LinkInv'
  <2> DEFINE q == [pc[r] EXCEPT !.at = "fail"]
  <2>1. pc[r] \in InRun
    BY <1>0, <1>8, InsideRun DEF StepThrow
  <2>2. q \in InRun /\ q.at = "fail" /\ q.via = pc[r].via
    BY <2>1 DEF InRun
  <2>3. Goto(r, q) /\ UNCHANGED <<status, eng, desk>> /\ pc[r].at \in {"handle", "record"}
    BY <1>8 DEF StepThrow
  <2> HIDE DEF q
  <2> QED
    BY <1>k, <2>1, <2>2, <2>3
<1>9. ASSUME NEW r \in Runners, StepDone(r)
      PROVE  LinkInv'
  <2> DEFINE S == pc[r].todo \ {pc[r].i}
             q == [pc[r] EXCEPT !.at = "drain", !.todo = S]
  <2>1. pc[r] \in InRun
    BY <1>0, <1>9, InsideRun DEF StepDone
  <2>2. q \in InRun /\ q.at = "drain" /\ q.via = pc[r].via
    BY <2>1 DEF InRun
  <2>3. Goto(r, q) /\ UNCHANGED <<status, eng, desk>> /\ pc[r].at = "record"
    BY <1>9, <2>1 DEF StepDone, InRun
  <2> HIDE DEF S, q
  <2> QED
    BY <1>k, <2>1, <2>2, <2>3
<1>10. ASSUME NEW r \in Runners, StepFailed(r)
       PROVE  LinkInv'
  <2> DEFINE q == [pc[r] EXCEPT !.at = "stop"]
  <2>1. pc[r] \in InRun
    BY <1>0, <1>10, InsideRun DEF StepFailed
  <2>2. q \in InRun /\ q.at = "stop" /\ q.via = pc[r].via
    BY <2>1 DEF InRun
  <2>3. Goto(r, q) /\ UNCHANGED <<status, eng, desk>> /\ pc[r].at = "fail"
    BY <1>10 DEF StepFailed
  <2> HIDE DEF q
  <2> QED
    BY <1>k, <2>1, <2>2, <2>3
<1>11. ASSUME NEW r \in Runners, RunEnd(r)
       PROVE  LinkInv'
  <2> DEFINE q == [pc[r] EXCEPT !.at = "link"]
  <2>1. pc[r] \in InRun /\ pc[r].at \in {"stop", "drain"}
    BY <1>0, <1>11, InsideRun DEF RunEnd
  <2>2. q \in InRun /\ q.at = "link" /\ q.via = pc[r].via /\ q.l = pc[r].l /\ pc[r].l \in Launches
    BY <2>1 DEF InRun
  <2>3. /\ Goto(r, Idle) \/ (pc[r].via = "link" /\ Goto(r, q))
        /\ UNCHANGED <<eng, desk>>
    BY <1>11 DEF RunEnd
  <2>4. PICK s \in {"FAILED", "COMPLETED"} : status' = [status EXCEPT ![pc[r].l] = s]
    BY <1>11 DEF RunEnd
  <2>5. /\ status'[pc[r].l] \notin {"NONE", "QUEUED"}
        /\ \A k \in Launches :
             status[k] \notin {"NONE", "QUEUED"} => status'[k] \notin {"NONE", "QUEUED"}
    BY <1>s, <2>2, <2>4
  <2> HIDE DEF q
  <2>6. CASE Goto(r, Idle)
    BY <1>i, <2>3, <2>5, <2>6
  <2>7. CASE pc[r].via = "link" /\ Goto(r, q)
    <3>1. isLaunchReady(eng.stage)
      BY <2>1, <2>7 DEF LinkInv
    <3> QED
      BY <1>0, <2>2, <2>3, <2>5, <2>7, <3>1, FactoryMoves
  <2> QED
    BY <2>3, <2>6, <2>7
<1>12. ASSUME NEW r \in Runners, Crash(r)
       PROVE  LinkInv'
  BY <1>12, <1>i DEF Crash
<1>13. ASSUME NEW r \in Runners, LaunchTenant(r)
       PROVE  LinkInv'
  <2>1. Goto(r, Creating) /\ UNCHANGED <<status, eng, desk>> /\ isLaunchReady(eng.stage)
    BY <1>13 DEF LaunchTenant, Creating
  <2>2. Creating.at = "create"
    BY DEF Creating
  <2> QED
    BY <1>0, <2>1, <2>2, FactoryMoves
<1>14. ASSUME NEW r \in Runners, NEW l \in Launches, LaunchTenantCreate(r, l)
       PROVE  LinkInv'
  <2> DEFINE p == In("read", l, {}, 0, "link")
  <2>1. p \in InRun /\ p.at = "read"
    BY LenSteps, InType
  <2>2. Goto(r, p) /\ UNCHANGED <<eng, desk>> /\ CreateRows(l) /\ pc[r].at = "create"
    BY <1>14 DEF LaunchTenantCreate
  <2>3. isLaunchReady(eng.stage)
    BY <2>2 DEF LinkInv
  <2> HIDE DEF p
  <2> QED
    BY <1>0, <1>c, <2>1, <2>2, <2>3, FactoryMoves
<1>15. ASSUME NEW r \in Runners, LaunchTenantLink(r)
       PROVE  LinkInv'
  <2>1. pc[r] \in InRun /\ pc[r].at = "link"
    BY <1>0, <1>15, InsideRun DEF LaunchTenantLink
  <2>2. /\ status[pc[r].l] \notin {"NONE", "QUEUED"}
        /\ isLaunchReady(eng.stage)
    BY <2>1 DEF LinkInv
  <2>3. Goto(r, Idle) /\ UNCHANGED <<status, desk>> /\ eng' = [eng EXCEPT !.launchId = pc[r].l]
    BY <1>15 DEF LaunchTenantLink
  <2>4. eng'.stage = eng.stage /\ eng'.launchId = pc[r].l
    BY <1>0, <2>3 DEF TypeInv, EngType
  <2>5. LinkedIsLive'
    BY <2>2, <2>3, <2>4 DEF LinkedIsLive
  <2>6. pc'[r] = Idle /\ \A b \in Runners : b # r => pc'[b] = pc[b]
    BY <1>0, <2>3, GotoType
  <2>7. Idle.at = "idle"
    BY DEF Idle
  <2> QED
    BY <1>0, <2>3, <2>4, <2>5, <2>6, <2>7 DEF LinkInv
<1>16. ASSUME NEW r \in Runners, CallerGone(r)
       PROVE  LinkInv'
  <2> DEFINE q == [pc[r] EXCEPT !.via = "call"]
  <2>1. pc[r] \in InRun
    BY <1>0, <1>16, InsideRun DEF CallerGone
  <2>2. q \in InRun /\ q.at = pc[r].at /\ q.via = "call"
    BY <2>1 DEF InRun
  <2>3. Goto(r, q) /\ UNCHANGED <<status, eng, desk>> /\ pc[r].at \notin {"idle", "create", "link"}
    BY <1>16 DEF CallerGone
  <2> HIDE DEF q
  <2> QED
    BY <1>k, <2>1, <2>2, <2>3
<1>17. ASSUME NEW l \in Launches, Create(l)
       PROVE  LinkInv'
  <2>1. /\ CreateRows(l) /\ UNCHANGED <<pc, eng, desk>>
    BY <1>17 DEF Create
  <2>2. \A b \in Runners : pc[b].at = "link" => pc[b].l \in Launches
    BY <1>0, InsideRun DEF InRun
  <2>3. eng.launchId # NoLaunch => eng.launchId \in Launches
    BY <1>0 DEF TypeInv, EngType
  <2> QED
    BY <1>0, <1>c, <2>1, <2>2, <2>3 DEF LinkInv, LinkedIsLive
<1>18. ASSUME NEW d \in Desks, NEW op \in Ops, EngLoad(d, op)
       PROVE  LinkInv'
  <2>1. UNCHANGED <<status, pc, eng>>
    BY <1>18 DEF EngLoad, launchVars
  <2>2. desk'[d].op = "transition" /\ isLaunchReady(eng.stage) => isLaunchReady(desk'[d].to)
    <3>1. ASSUME NEW t \in ENGAGEMENT_TRANSITIONS, t[1] = eng.stage,
                 desk' = [desk EXCEPT ![d] =
                    [op |-> op, to |-> t[2], status |-> statusForStage(t[2])]]
          PROVE  isLaunchReady(eng.stage) => isLaunchReady(desk'[d].to)
      <4>1. desk'[d].to = t[2]
        BY <1>0, <3>1 DEF TypeInv
      <4> QED
        BY <3>1, <4>1, LiveStays
    <3>2. ASSUME op \in {"hold", "resume"},
                 \/ desk' = [desk EXCEPT ![d] = [op |-> op, to |-> eng.stage, status |-> "ON_HOLD"]]
                 \/ desk' = [desk EXCEPT ![d] =
                        [op |-> op, to |-> eng.stage, status |-> statusForStage(eng.stage)]]
          PROVE  desk'[d].op # "transition"
      <4>1. desk'[d].op = op
        BY <1>0, <3>2 DEF TypeInv
      <4> QED
        BY <3>2, <4>1
    <3> QED
      BY <1>18, <3>1, <3>2 DEF EngLoad
  <2>3. \A e \in Desks : e = d
    OBVIOUS
  <2> QED
    BY <1>0, <2>1, <2>2, <2>3 DEF LinkInv, LinkedIsLive
<1>19. ASSUME NEW d \in Desks, EngWrite(d)
       PROVE  LinkInv'
  <2>1. desk[d] \in OpenOp /\ UNCHANGED <<status, pc>>
    BY <1>0, <1>19 DEF EngWrite, TypeInv, launchVars
  <2>2. /\ eng'.stage = IF desk[d].op = "transition" THEN desk[d].to ELSE eng.stage
        /\ eng'.launchId = eng.launchId
    BY <1>0, <1>19 DEF EngWrite, TypeInv, EngType
  <2>3. isLaunchReady(eng.stage) => isLaunchReady(eng'.stage)
    BY <1>19, <2>2 DEF EngWrite, LinkInv
  <2>4. \A e \in Desks : desk'[e] = NoOp
    <3> SUFFICES ASSUME NEW e \in Desks
                 PROVE  desk'[e] = NoOp
      OBVIOUS
    <3>1. e = d
      OBVIOUS
    <3> QED
      BY <1>0, <1>19, <3>1 DEF EngWrite, TypeInv
  <2>5. LinkedIsLive'
    BY <2>1, <2>2, <2>3 DEF LinkInv, LinkedIsLive
  <2> QED
    BY <1>0, <2>1, <2>3, <2>4, <2>5 DEF LinkInv
<1>20. CASE UNCHANGED vars
  BY <1>0, <1>20 DEF vars, LinkInv, LinkedIsLive
<1> QED
  BY <1>1, <1>2, <1>3, <1>4, <1>5, <1>6, <1>7, <1>8, <1>9, <1>10, <1>11, <1>12, <1>13,
     <1>14, <1>15, <1>16, <1>17, <1>18, <1>19, <1>20 DEF Next, Work, Call

(* An engagement that refers to a launch is live and its launch has been   *)
(* run, for any number of launches, runs, faults and callers that give up, *)
(* as long as the engagement is moved by one request at a time.            *)
THEOREM SerialLinkedLive ==
    ASSUME \A d, e \in Desks : d = e
    PROVE  Spec => []LinkedIsLive
<1>1. Init => LinkInv
  <2> SUFFICES ASSUME Init
               PROVE  LinkInv
    OBVIOUS
  <2>1. \A r \in Runners : pc[r] = Idle
    BY DEF Init
  <2>2. \A d \in Desks : desk[d] = NoOp
    BY DEF Init
  <2>3. eng.launchId = NoLaunch
    BY DEF Init
  <2> QED
    BY <2>1, <2>2, <2>3, InitType DEF LinkInv, LinkedIsLive, Idle
<1>2. LinkInv => LinkedIsLive
  BY DEF LinkInv
<1> QED
  BY <1>1, <1>2, NextLink, PTL DEF Spec
=============================================================================
