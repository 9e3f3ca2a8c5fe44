# X.Hub / X.Office — verification project

TLA+ models of the server side of xhub-saas (`xhub-api/src`), the TLC runs that
check them on small instances, and TLAPS proofs of what holds for every instance.
`PROJECT.json` lists the components, the runs, the source lines every definition
stands for, the hazards and the theorems.

## The system and how a request executes

The repository has two NestJS processes over two PostgreSQL databases, XHub
Platform (tenants, control plane, launch, backup, webhooks and outbox, identity)
and X.Office (workflow engine, people, bookings, case work, projects, management
records), and a Next.js front end over their HTTP APIs.  The processes share no
table.  They meet over HTTP: X.Office enqueues events in the platform's outbox
(`common/outbox-http.client.ts`) and pulls identities (`identity-sync`), and its
delivery engagements call the platform's tenant launch.

Every HTTP handler runs inside one interactive transaction opened by `withTenant`
(`prisma/prisma.service.ts`, `xoffice-prisma/xoffice-prisma.service.ts`, wired by
the tenant-scope interceptors), limited to 30 s.  The isolation level is the
default, READ COMMITTED, and this decides what can go wrong:

* a query sees what was committed when it runs, not what the handler's earlier
  queries saw;
* an `UPDATE ... WHERE id` overwrites whatever the row holds by then, and locks
  the row until the end of the transaction;
* a unique index is the only thing that holds against a racing handler, and its
  violation aborts the whole transaction, as any exception does.

So the models cut a handler where it awaits a query that another handler can come
between: a first step reads and tests, a last one writes and commits, with a step
between where the code takes a lock and reads again.  `tx[c]` is what the handler
of client `c` has read and computed so far, `Rollback(c)` is every way for it to end
without a trace.  With one client the same specification is the system that serves
one request at a time.

## Inventory

| Component | State | Operations | What is hard | What makes it correct |
|---|---|---|---|---|
| Bookings (`bookings/`) | booking rows: state, resource and window, idempotency key | create, approve, reject, cancel, check-in, check-out, no-show | conflict check and state test are reads before a write; retries with the same key | no resource booked twice; one booking per key |
| Leave (`people/leave*.ts`) | request rows, approval task, append-only balance ledger | create, approve, reject, requestChanges, resubmit, cancel, cancelApprove | ledger row computed from the latest one; sequences of decisions that move the wrong column; half days | no charge lost; available balance exact and not negative; no overlapping leave; a waiting request has an open task |
| Attendance, overtime (`people/attendance*.ts`, `overtime*.ts`) | batches, punches, computed days, corrections, overtime requests | preview, commit, rollback, recomputeDay, decisions of requests | a long transaction over many days; a day computed from what other batches hold; a correction that a recompute must leave alone | punches belong to committed batches; a day follows from its punches; a corrected day stands |
| Webhook intake and outbox (`webhook/`, `common/outbox*.ts`) | received events, outbox rows (status, attempts, nextAttemptAt) | receive, enqueue (local and over HTTP), dispatch by interval and by hand | repeated webhooks; overlapping sweeps; two databases | one row per accepted event; attempts capped; every row settles |
| Workflow engine (`xoffice/xoffice.service.ts`) | definition and versions, instances with tokens, tasks, external executions, connector commands, command log | createRequest, actOnTask, enterExternalReference, publish, seeding at start-up, advanceMulti | tokens are read, edited and written back; joins; retries; restarts | status, tokens and open work agree; nothing runs twice; a command applies once |
| Scheduler sweep, delegation (`xoffice.service.ts`) | reminder and escalation marks, delegations | runSchedulerSweep, createDelegation, findValidDelegate | ticks overlap with approvals; a timer moves `currentNodeId` only | one reminder and one escalation per task; a timer fires once |
| Control plane (`controlplane/`) | app bindings, provisioning commands, conflicts | setTenantApplication, createBinding, executeCommand, retryCommand | a retry of a command that is done or in flight; failing adapters | an active binding has a completed command; conflicts are on record |
| Tenant launch (`platform/launch/`), engagements (`delivery/`) | launch row with its steps, the tenant; the engagement's stage | create, run, retry, executeStep; stages, hold, resume, launchTenant | own transaction per step; crash between steps; two runs at once; a caller that gives up | an ACTIVE tenant is prepared; what is skipped exists; a launch completes when run again |
| Go-live (`platform/lifecycle/`) | tenant mode, go-live progress and its steps | createProgress, patchStep, activate | several transactions; a reset or users at the same time | activation leaves no gap; production rows are kept |
| Backup, restore, reset (`backup/`) | jobs, bundles on disk, schedules | createBackup, sweep, runNow, retention, schedules, resetToBaseline, clearDemoData | file written or removed before the commit; overlapping sweeps; an export that throws | what is kept can be restored; nobody loses the last backup; a due schedule is served |
| Case work (`requests/`, `tickets/`, `support-cases/`, `directives/`, `announcements/`) | rows with a state machine, columns that go with the state, executions, commitments, receipts | create, transitions, commitments, receipts, score, escalation over HTTP | state tested, then written by id; child rows written by other handlers | a state never claims what columns and child rows do not show |
| Sales and contracts (`opportunities/`, `proposals/`, `contracts/`), engineering records (`engineering/`) | opportunities, proposals, contracts with lines, signatures, obligations, bills; versions, defects, assessments | transitions, addLine, sign, complete, bill | totals summed over lines others add; signed contracts | the same, and totals are the sum of the lines |
| Work items, projects (`work/`) | items with status and dates, dependencies | create, status, PATCH, addDependency, removeDependency, reschedule | the cycle guard and the date test are reads before a write | dependencies acyclic; tested dependencies in order |
| Identity sync (`identity-sync/`) | mirrored persons and units | pull | upserts only; a partial pull | what is mirrored existed at the source |
| Identity, organisation, permissions, authentication, MDM, records, management records, IOC, catalogue, test runs, front end | master data | single-row writes and reads | little behaviour over time | — |

Statuses and the reasons for leaving a part out are in `PROJECT.json`.

## Plan

Done: `Bookings` (the transaction idiom), `Workflow` (the core), `Leave` (a ledger on
the same idiom), `Outbox` with the abstract `EventDelivery`; then the platform,
`TenantLaunch` with the engagements that call it, `Backups`, `TenantLifecycle`,
`Provisioning`; then `Casework` with `CaseTables`, `Attendance`, `WorkPlan`.

Next, in this order:

1. `Scheduler`: reminders, escalations, timers and delegation over `Workflow`'s tables.
2. `IdentitySync`: the cursor and the upserts of the pull; the import of MDM.

## Modules

| Module | Models | State and actions against the code |
|---|---|---|
| `Bookings` | `bookings.service.ts`, `bookings.fsm.ts` | `CreateCheck`/`CreateInsert` are `create` around its INSERT; `Load`, `ApproveCheck`, `Write` the loading and assertLegal, the second conflict check of approve, the UPDATE |
| `Workflow` | createRequest, actOnTask, enterExternalReference, publish, advanceMulti, seedDatabase of `xoffice.service.ts` | `*Begin` reads and tests, `AdvanceMulti` takes one node off the worklist in the handler's memory, `*Commit` writes; `ExtLock`, `ExtReadInstance` are the locks and late reads of enterExternalReference; `Restart` loses open transactions and seeds again |
| `WorkflowGraphs` | what a definition must be like, the hypotheses of two theorems | no state: weights on the nodes (`Shares`, `Feeds`, `Lengths`) compare a token with the tokens advanceMulti makes of it (`Onward`); nothing in the code makes definitions so |
| `Leave` | `leave.service.ts`, `leave-balance.service.ts`, `people.helpers.ts`, `people.constants.ts` | `CreateCheck`, `Load` test; `ReadLatest` reads the ledger under the row lock; `CreateCommit`, `DecideCommit`, `PlainCommit` write request, task and next ledger row |
| `Attendance` | `attendance-import`, `attendance-day`, `attendance-correction`, `overtime` services | `Importing` is commit and rollback of a batch, one day after the other under the row locks it holds; `Requesting` and `Deciding` the corrections and overtime requests; the day's status is computed as recomputeDay does |
| `Outbox` | `webhook.service.ts`, `webhook.dispatcher.ts`, `common/outbox.ts`, `common/outbox-http.client.ts` | `ReceiveCheck`/`ReceiveCommit`; `ChangeBegin`, `Enqueue`, `ChangeCommit` an X.Office handler that posts to the platform inside its own transaction; `SweepBegin`/`SweepCommit`/`SweepAbort` dispatch |
| `EventDelivery` | what the outbox promises | `accepted` and `settled` events: only accepted ones are settled, all accepted ones are settled in the end |
| `Provisioning` | `controlplane.service.ts`, `app-adapter.service.ts` | `BindRead` and `RetryRead` are the reads of createBinding and retryCommand, `Work` the writes with executeCommand; a command's payload says whether the adapter succeeds, fails for a while or meets an existing account |
| `TenantLaunch` | `tenant-launch.service.ts`, `engagements.service.ts` | one action per transaction of run, retry and executeStep; `StepThrow`, `Crash`, `CallerGone` the ways a request ends early; `EngLoad`/`EngWrite`/`LaunchTenant` the engagement that calls it over HTTP |
| `Backups` | `backup.service.ts` (createBackup), `backup-scheduler.service.ts`, `backup-schedule.service.ts` | the bundle is written before its row commits and removed before its row goes; `SweepStart` begins the hourly sweep, `WorkOn` is its next step |
| `TenantLifecycle` | `tenant-golive.service.ts`, resetToBaseline and clearDemoData of `backup.service.ts` | activate and reset as chains of transactions (`Work`), users writing between them, two clerks patching the checklist |
| `CaseTables` | the `*.fsm.ts` and the tables in the record services | transition tables only |
| `Casework` | the services of twelve kinds of rows | `Load`/`Write` are every transition: the test of the table and the guards, then the UPDATE by id with the columns that go with it; the rest are the operations on child rows (commitments, receipts, lines, signature, obligations, bills) and the escalation that posts to the other process between its read and its write |
| `WorkPlan` | `work-projects.service.ts`, `work.service.ts` | `AddBegin`/`AddCommit` addDependency around its INSERT, `MoveBegin`/`MoveCommit` reschedule around its UPDATE |

`MC*` modules give the constants of the runs, `*_proofs` hold theorems.  Operators
commented "Mutant" are plausible slips of the code in a definition's place; they
are used by no specification and show that each property can fail.

Data is abstracted to what the properties tell apart.  A definition's graph is a
function from nodes to kinds and edges; a condition's value is a free choice per
instance (`holds`); node kinds that advanceMulti treats alike are one `Kind`.
Leave is counted in half days (`Duration` is computeLeaveDuration for DAY
policies).  Time is what a test of it can tell: `BackoffOver` in the outbox, `due` and
`cutoff` in the backups.  The search of the cycle guard is stated by what it finds: the
predecessor is met exactly if it lies in every closed set that holds the successor.
A proposal's total is the number of its lines.

Where a race of two handlers breaks what one handler at a time keeps, the property is
stated so that it says how far it holds: history variables (`raced`, `addsRaced`,
`movesRaced`) record that a handler was overtaken, and the property
claims the rest.  The races themselves are under "Observations".

## Runs

| Run | Instance | Shows |
|---|---|---|
| `bookings_serial` | 1 client, 3 rows; overlapping, adjacent and empty windows | `NoDoubleBooking`, `OneBookingPerKey`: also when a cancelled booking frees its window and its key is sent again |
| `leave_serial` | 1 client, 2 requests, 4 windows, opening 4 half days | `AvailableExact`, `NeverOverdrawn`, `NoOverlap`, `TaskOpenWhileWaiting`, `OneRequestPerKey`, `NoLostCharge`, through every sequence of decisions |
| `attendance` | 2 clients, 2 files that overlap on one of 2 days, 1 request | `BatchOwnsEvents`, `DayHasReason`, `CorrectionStands` where no handler was overtaken |
| `outbox` | 2 handlers, 2 sweeps, 3 events, 2 rows, limit 1, 3 attempts, 1 failed sweep | `OneRowPerWebhook`, `CommittedIsAnnounced`, `AttemptsCapped`, `EveryRowSettles`; it implements `EventDelivery` (`DeliverySpec`) |
| `workflow_serial` | 1 client, 3 instances (one seeded), definition `full` | `TokensHaveWork`, `NeverStuck`, `RunsOnce`, `CommandsKeepPace` |
| `workflow_concurrent` | 2 clients, 2 instances, 2 definitions, 2 versions, restarts | `KeyAppliedOnce`, `StatusMatchesTokens`, `JoinNeverFull`, `WorkingIsLatest` in every race |
| `provisioning` | 2 clients, 1 person, 3 commands and keys, failures until the 3rd attempt | `ActiveIsProvisioned`, `ConflictsOnRecord` |
| `launch` | 1 launch, 2 overlapping runs, 4 steps, 1 fault, 1 engagement | `ActiveIsPrepared`, `DoneIsMade`, `LinkedIsLive`, and `LaunchesComplete` under fairness |
| `backups` | 2 tenants (one whose export throws), 2 workers, 2 backups, 1 fault | `Restorable`, `NeverBackupless`, and `DueIsServed` under fairness |
| `lifecycle` | 1 activation or reset at a time, 2 clerks, 3 steps, 2 faults | `GoLiveInOrder`, `ReadyMeansDone`, `ProductionKept` |
| `casework` | 2 clients on one row of each kind, 2 people, 2 rounds | `StateHasEvidence` in every race, `AgreesUnlessRaced` |
| `workplan` | 2 clients, 3 items, 3 dependencies of two types, 2 changes of dates | `CycleFree`, `ScheduleHolds` |

### Bounds

Two clients reach every race of two handlers; all races found need two, and the
theorems below cover any number (those named `Serial...` one handler at a time, over any
number of rows).  Two rows let an object meet a competitor and,
serially, a third lets a freed window or a newest-of-several command be reused.

* Workflow: the definitions have one node of each kind the walk distinguishes, a
  condition, and a join with two incoming edges; they are acyclic, so that "runs once"
  has a meaning, and the walk's limit (`GuardLimit` = 24) is never reached on them.
* `MaxLedger`, `MaxVersions`, `MaxRows`, `MaxJobs` cap tables that only grow.  8 ledger
  rows allow two requests a full life each and more; two backups are one to keep and
  one to prune.
* Outbox: a limit of one row per sweep, so that rows queue behind each other, and more
  attempts than failures, so that success after a retry, giving up, and two sweeps on
  one row happen.
* Launch: the four steps are those the tenant and each other depend on; one fault is
  enough for a crash at every point of either run.
* Casework: two rounds are a transition and a second one that undoes or repeats it; a
  row of each kind is taken alone, since no handler touches two.
* Attendance: one shared day is where two files meet; the other day shows that a batch
  is half done.
* Work plan: three items are the fewest on which a cycle is not visible in one
  dependency; three dependencies close it.  The four spans are a day, a later one, an end
  before its start, and no dates.
* `MaxFaults`, `MaxAborts`: crashes and aborts, so that liveness is not asked of a system
  that always fails.

Clients, people and items are interchangeable and symmetric where no liveness is checked.
`CHECK_DEADLOCK FALSE` stands in every configuration because a finite number of rows is
used up: the system may then rest.

### Fairness

* `Outbox`: the scheduler's sweep begins when rows are due (the `@Interval` of the
  dispatcher fires as long as the process lives, and errors are caught and logged), a
  sweep in flight ends, and time passes.  Nothing is assumed of clients or of manual
  sweeps.  The retry cap makes this enough: a late sweep can set a row that was sent
  back to pending, but each time from fewer attempts than the cap.
* `Backups`: a step of a worker in flight is taken in the end (WF), and the hourly sweep
  starts again and again when it can (SF: workers are busy in between).
* `TenantLaunch`: a request in flight goes on until it ends or dies (WF), and an operator
  runs an unfinished launch again (SF on the first read of `run`).  The second is an
  assumption about people: nothing in the code resumes a launch.

## Proofs

All proofs are for any constants that satisfy the ASSUMEs of the module: any number
of clients, rows, windows, definitions, sweeps, items.

* `Bookings_proofs`: `TypeCorrect`; `KeysAreIdempotent` from `KeyInv`, which adds that
  an acting transaction refers to a row (a row's key never changes once it is there,
  so the index test at the INSERT is enough); `SerialNoDoubleBooking`, under the
  assumption that at most one handler is open, from `SerialInv`, which adds
  `StillTrue`: what the open handler tested has not changed since.  That conjunct is
  exactly what concurrency breaks.
* `Workflow_proofs`: `TypeCorrect` needs that the references of an open handler point
  at rows and that a latest version exists (`TypeInv`).  `KeyOnce` holds whatever
  handlers race, `StatusAgrees` when no instance is seeded or the process does not
  restart.  `JoinsFire`: for any graph, provided there is one definition, no join is ever
  left with as many tokens as it has incoming edges; `JoinInv` says so of the handlers'
  private walks too, since a stale walk is what a racing commit writes.
  `PublishedIsWorking`: version numbers are unique and the working copy is the latest
  version or, when the process restarts, the shipped one; from `VersionInv`, which adds
  that numbers have no gap and that a publisher aims at most one above the latest.
  Serially, with definitions that agree on the kinds of the nodes:
  `SerialTokens`, the tokens of an instance nobody rejected are, at every human stop, its
  open tasks and, at every external action, its pending executions; from `TokenInv`, which
  says it of the open walk as well: its tokens are those it began with plus one for each
  stop it has reached (`WalkFrom`), and tokens rest only at stops, external actions and
  joins (`Rests`).  Of a rejected instance it says that every row still open has its
  token (`Accounted`), since such a row may be approved yet.  `SerialNeverStuck`: in
  graphs without joins, and without seeded rows that a restart would touch, a running
  instance has work open for somebody.  `SerialPace`: at every node as many executions are completed as
  connector commands, from `PaceInv`: executions and commands come in pairs of one node, so
  that a pending execution always finds a pending command of its node.
  `SerialRunsOnce`: no service call and no child flow runs twice for one instance, of
  definitions that cross no automatic step twice (`CrossedOnce`).  A token stands for some
  parts of a crossing of the node m, of which u make one: two tokens that meet at a join
  before m stand for half a crossing each, the two branches of a condition for the same
  one.  `ShareInv`: the calls made for m and the parts that the tokens stand for, resting
  or in the worklist of the open walk, make less than two crossings.
  `SerialNeverStuckJoins`: with joins, of one definition whose joins are fed
  (`JoinsFed`) and whose walks end before the loop's limit (`ShortWalks`).  `FeedInv`: of
  an instance nobody rejected, the tokens on their way to a join number a multiple of what
  it waits for; `LengthInv`: the loop never stops with work left, which would lose
  tokens.  Suppose nobody has anything open: all tokens wait at joins, and the first of
  these joins, in the order in which they feed each other, holds a multiple of what it
  waits for.  By `JoinInv` it holds less, hence nothing.  Both arguments count tokens by
  weight.  A sum over the nodes is the cardinality of a set of pairs (`Total`), so that it
  can be reasoned about without induction, and `StepMoves` says once and for all weights
  what one turn of advanceMulti does to the sum.  Both theorems assume that the nodes are
  finitely many.  That their hypotheses on definitions can be met is checked of `full`
  (`FullIsSound` in `MCWorkflow`); they are needed, since a loop crosses a node again and a
  join behind one branch of a condition waits for ever.  The other hypotheses
  are needed too: overlapping handlers overwrite each other's tokens, and a publication that
  changes a node's kind leaves tokens that nothing stored accounts for.
* `Leave_proofs`, leave: `TypeCorrect`; `LedgerCarriesOn`: every ledger row is its
  predecessor plus its own delta, for any number of racing decisions (the unique sequence
  number refuses a row computed from an older one); `KeysAreIdempotent` as for bookings.
  With one handler at a time, `SerialNoOverlap`, `SerialNeverOverdrawn` and
  `SerialTaskOpen` from `SerialInv`: what the open handler tested is still true
  (`StillTrue`), no decision adds to the charge, and none leads out of a closed state or
  back to DRAFT or IN_REVIEW.  `SerialAvailable` adds `SumInv`: the charged half days
  are a finite set, and an open decision holds the dates of its request.  A create
  adds the request's half days to that set, a decision removes them exactly if its two
  deltas sum to their number, and every other decision only moves between columns.
* `Leave_proofs`, attendance (for any number of handlers, files, days and requests):
  `EventsOwned`, `DayReason`, `CorrectionKept`, from one invariant `AInv`.  It says what
  an open handler has read and is still so, unless the handler was overtaken (`BatchView`,
  `DayView`), that row locks keep two imports off the same day (`Apart`), that the punches
  of a file are there once if its batch is committed and else not (`OwnsEvents`), and that
  each day is frozen by an approved correction or follows from the punches and calendar it
  was computed from (`HasReason`).
* `Outbox_proofs`: `TypeCorrect`; `Capped` from `CapInv`, which adds that the attempts a
  sweep holds are below the cap (so that its late write stays within it); `OneRowEach`;
  `Announced` from `AnnounceInv`, which adds that a handler past its enqueue has its row;
  `ImplementsDelivery`: initial states and steps of `Outbox` are those of
  `EventDelivery` under the mapping `accepted <- received`,
  `settled <- SettledWebhooks`.
* `Provisioning_proofs`: `TypeCorrect` from `TypeInv`, which adds that a retry holds a
  command that is there (`RefsOK`); `ActiveProvisioned` and `ConflictsRecorded`, for any
  number of racing binds and retries: commands are never taken back from COMPLETED, so
  whichever stale write comes last, the reason for an active binding stays.
* `TenantLifecycle_proofs`: `TypeCorrect`; `ActivationInOrder` for any number of
  activations and resets, from `OnTheWay` (what an activation at each of its steps has
  behind it); `ReadyIsDone` for any number of patches; `SerialProductionKept` for one
  operator, from `StillDemo`: the mode a reset has read is still the mode.  The same
  module proves `BackupsRestorable` and `NeverLosesAll` of `Backups`, for any number of
  sweeps and manual backups: a tenant with backups has a newest one, whatever an open
  prune has picked is spare or already gone, and the number a worker writes under is no
  other row's.  So no interleaving of creations and prunings keeps a row without its
  bundle or takes the last backup of a tenant.
* `TenantLaunch_proofs`: `ActivePrepared` and `SkippedIsMade`, for any steps, launches,
  overlapping runs, crashes and faults, from `MadeInv`: what the snapshot of a run shows
  as finished, and what the run has finished since, has been made; the step in hand is
  the first of the others; and the handover comes last.  `SerialLinkedLive`, for one
  desk, from `LinkInv`: a request that will write the link runs for an engagement that is
  ready for launch, on a launch that has been started, and no open transition leads back.
* `WorkPlan_proofs`: `Typed`; `PlanCycleFree` from `CycleInv`, which adds that the answer
  of the one open guard is still true (`GuardFresh`).  The argument: the guard's answer is
  a set closed under the dependencies that holds the successor and not the predecessor;
  in any set of items, the first one outside the closed set is a first one under the new
  dependency too (`EdgeKeepsAcyclic`).  `PlanScheduleHolds` from `ScheduleInv`: what an
  open reschedule has tested still fits unless it was overtaken (`FitsFresh`), and no item
  depends on itself (`NoLoop`), so one move never changes both ends of a dependency.
  The same module proves `CaseEvidence` and `CaseAgrees` of `Casework`, for any number of
  clients, people and rounds and all twelve kinds of rows, from `CaseInv`: a state shows
  what its columns and child rows hold, and what an open handler has tested is still so.
  That holds in every race because it rests on what no write takes back (`Lasts`):
  required columns, receipts, numbers of items, completed obligations.  What the tables
  allow is summed up per kind in `TableOK`.  `CaseAgrees` adds `SerialCase`: as long as no
  handler was overtaken there is one open handler, it has the row as it is (`Fresh`), and
  row and child rows agree exactly (`RowAgrees`).

Only model-checked:

* liveness, which the prover cannot handle: `EveryRowSettles`, `LaunchesComplete`,
  `DueIsServed`, and the fairness of `EventDelivery` (`DeliverySpec`; its safety part is
  `ImplementsDelivery`);
* that `full` satisfies the hypotheses on definitions (`FullIsSound`), which TLC evaluates.

Every safety property that a run checks is stated by a theorem, under the hypotheses
given above.

## Observations

What the models showed of the code, with the statement it disagrees with where the
repository makes one.  TLC finds the ones about races in the modules above when the
instance has two clients or operators and the property leaves the race in.

Races of two handlers:

* Both conflict checks of two bookings pass before either INSERT: the resource is booked
  twice (`bookings.fsm.ts:12-14` counts on the check).
* Two sibling approvals read the same tokens and the later write loses one; the instance
  then waits for nobody (the comment at `xoffice.service.ts:2138-2140` expects the join
  to see both).
* `requestChanges` racing `approve` sets an approved leave request back, `approve` racing
  `cancel` revives a cancelled booking: the state test precedes an UPDATE by id.
* In the same way a stale transition takes a signed contract back to a state before
  signing (against `contracts.service.ts:7-9`), a stale ISSUED writes IN_PROGRESS over a
  completed commitment, two racing issues double the commitments, and a stale status of
  a work item leaves `completedAt` on an item that is not done.
* Two overlapping transitions of an engagement take one that has been launched back to a
  stage before GO_LIVE (`engagements.service.ts` tests the stage it read and writes by
  id), so `LinkedIsLive` is stated for one desk.
* Two overlapping `addLine` leave a total without one of the lines; a discounted line
  added during approval is approved without a note.
* Two overlapping `addDependency` close a cycle.
* Two racing activations clear the rows that users of the live tenant have written.  A
  reset that read DEMO before the activation flips the mode loads the demo baseline over
  a LIVE tenant (`backup.service.ts:463`, `:486`, against `:452`, "ONLY for
  tenant.mode='DEMO' (asserts; never overwrites a LIVE tenant)").
* A recompute that read the day before a correction was approved overwrites it (against
  `attendance-correction.service.ts:17-19`); two commits of one batch double its punches;
  an approval racing a rejection freezes the day under a REJECTED correction.
* Two overlapping sweeps deliver an event twice, and the later one may set a sent row
  back to pending; it settles again (`EveryRowSettles`).
* Bookings, leave and nine other services catch the unique violation of a repeated
  key and query the stored row in the same transaction, which PostgreSQL has aborted
  by then: the racing client gets an error, not the stored row.
* The id lists of the management records (actionIds, decisionIds) are read, extended and
  written back, so that one of two additions is lost; closing a review is not guarded.

Failures between steps:

* An event enqueued over HTTP stays when the X.Office handler rolls back: an event
  without a cause (against `PE_API_ROUTE_PLAN.md:202`).
* A crash between the backup of a launch step and its DONE makes a second backup
  (against `tenant-launch.service.ts:9`).
* A crash after activation has flipped the mode leaves a tenant whose activation is
  refused from then on.  A DELETE that fails in clearDemoData aborts its transaction, so
  that nothing is cleared (`backup.service.ts:570`).
* An escalation that fails after its post files a second item when repeated.

One handler at a time:

* `cancelApprove` of a request that is still pending moves `used`, so that the column is
  not the approved days (`leave.service.ts:364`); cancelling a leave request leaves its
  approval task open.
* A retry of an old command downgrades an active binding (`controlplane.service.ts:567-569`);
  nothing ever sets ProvisioningConflict.resolved.
* `billingPercent` is set by the seed script only, so that every milestone bill asks for the
  whole contract (`contracts.service.ts:228-230`).
* The PATCH of a work item and `addDependency` test no dates (`work.service.ts:270` calls
  the Gantt the source of truth); `attachItems` accepts a cycle of parents; the roll-up
  counts direct children only.
* A correction does not recompute workedMinutes, a leave decision does not recompute the
  day, and the approval tasks of People appear in an inbox whose `actOnTask` answers 404.
* Every start of X.Office puts the shipped workflow definition back over a published
  one.  Running instances follow the working definition, so publishing one that lost a
  node drops the tokens that rest there.  The scheduler's timers move status and
  `currentNodeId` and leave the tokens.
* The identity sync only upserts: a role binding removed at the source stays.

## What is not modelled

Who may do what (scope checks, delegation), audit rows, read models and lists, the
contents of documents and archives, the connector protocols behind a service call, the
condition language (its value is left open), cross-tenant isolation (every module has
one tenant; row-level security is the database's).

By lines, most of the repository is of that sort.  Two thirds of it are the web front
end, which keeps no state beyond a request.  Of the server the larger part is controllers,
data-transfer types, lists and reports, seeds, and services that edit one row of master
data (identity, permissions, catalogues, MDM, management records): they have no behaviour over
time beyond the reads and writes by id that `Casework` shows.  What has such behaviour and
is still missing is in the plan: the scheduler sweep with delegation, and the identity
sync.
