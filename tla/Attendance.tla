----------------------------- MODULE Attendance -----------------------------
(***************************************************************************)
(* Attendance and overtime of People Essentials: files of punches that are *)
(* previewed, committed and rolled back (attendance-import.service.ts),    *)
(* the day that is computed from them (attendance-day.service.ts), the     *)
(* corrections that overrule it (attendance-correction.service.ts) and     *)
(* overtime requests (overtime.service.ts).                                *)
(*                                                                         *)
(* A handler is one READ COMMITTED transaction.  An import is long: it     *)
(* marks its batch, then reads, computes and upserts one day after the     *)
(* other, and holds the rows it has written until it ends.                 *)
(***************************************************************************)
EXTENDS Naturals, FiniteSetsExt

CONSTANTS
    Handlers,   \* requests that may be in flight at the same time
    Files,      \* files by checksum, so also the batches
    Days,       \* a person's working day
    FileRows,   \* FileRows[f]: the valid rows of f, [day, in, out] with times > 0
    Calendar,   \* Calendar[d]: "WORKING", "HOLIDAY" or "WEEKEND" where a shift is assigned
    Pattern,    \* the shift: [start, grace, half], half is half the standard hours
    RequestIds, \* primary keys a request may get
    RequestKeys, \* idempotency keys
    Wants,      \* what a correction may ask for: [day, status, in, out], "none" and 0 are null
    Leaves,     \* the days a leave request may cover
    Assignments \* the days a shift assignment may cover

ASSUME AttendanceAssumption ==
    /\ FileRows \in [Files -> SUBSET [day : Days, in : Nat \ {0}, out : Nat \ {0}]]
    /\ \A f \in Files : \A r \in FileRows[f] : r.in < r.out
    /\ Calendar \in [Days -> {"WORKING", "HOLIDAY", "WEEKEND"}]
    /\ Pattern \in [start : Nat, grace : Nat, half : Nat]
    /\ Leaves \subseteq SUBSET Days /\ Assignments \subseteq SUBSET Days

VARIABLES
    batch,      \* batch[f]: AttendanceImportBatch.status, "none" without a row
    copies,     \* copies[f]: how often the events of f are in AttendanceEvent
    day,        \* day[d]: the AttendanceDay row, NoDay without one
    leave,      \* days on which the person has an approved LeaveRequest
    shift,      \* days covered by a ShiftAssignment
    req,        \* req[i]: AttendanceCorrectionRequest or OvertimeRequest, or NoRequest
    handler,    \* handler[c]: what the handler of client c has read and not yet committed
    raced       \* history: days, batches and requests on which a handler was overtaken

rows == <<batch, copies, day, leave, shift, req>>
attendanceVars == <<rows, handler, raced>>

-----------------------------------------------------------------------------
(* recomputeDay *)

NoDay == [status |-> "none", in |-> 0, out |-> 0, worked |-> 0, late |-> 0, files |-> {}, frozen |-> FALSE]

Affected(f) == {r.day : r \in FileRows[f]}

(* The rows whose events a handler finds on day d, given the files that    *)
(* have events in its view.                                                *)
Punches(d, files) == UNION {{r \in FileRows[f] : r.day = d} : f \in files}
FirstIn(ps) == IF ps = {} THEN 0 ELSE Min({p.in : p \in ps})
LastOut(ps) == IF ps = {} THEN 0 ELSE Max({p.out : p \in ps})

LateAt(d, in) == d \in shift /\ in > Pattern.start + Pattern.grace
AtWork(d, in) == d \notin leave /\ (d \in shift => Calendar[d] = "WORKING") /\ in # 0
Worked(d, in, out) == IF AtWork(d, in) THEN out - in ELSE 0

Status(d, in, out) ==
    CASE d \in leave -> "LEAVE"
      [] d \notin leave /\ d \in shift /\ Calendar[d] # "WORKING" -> Calendar[d]
      [] ~AtWork(d, in) -> "ABSENT"
      [] d \in shift /\ out - in < Pattern.half -> "HALF_DAY"
      [] LateAt(d, in) -> "LATE"
      [] OTHER -> "PRESENT"

(* What recomputeDay writes; correctionApplied is not among it. *)
Computed(d, files) ==
    LET ps == Punches(d, files)
        in == FirstIn(ps)
        out == LastOut(ps) IN
    [ status |-> Status(d, in, out), in |-> in, out |-> out, worked |-> Worked(d, in, out),
      late |-> IF AtWork(d, in) /\ LateAt(d, in) THEN in - Pattern.start ELSE 0,
      files |-> {f \in files : d \in Affected(f)}, frozen |-> FALSE ]

-----------------------------------------------------------------------------
(* Transactions *)

NoHandler == [op |-> "idle"]
Import(f, to) == [op |-> "import", file |-> f, to |-> to, stage |-> "loaded", cut |-> 0,
                  todo |-> Affected(f), at |-> {}, new |-> NoDay,
                  wrote |-> {}, pend |-> [d \in Days |-> NoDay]]

Begin(c, t) == handler[c] = NoHandler /\ handler' = [handler EXCEPT ![c] = t]
Stage(c, s) == handler[c].op = "import" /\ handler[c].stage = s

(* Row locks: the batch and the days an open import has written. *)
BatchFree(c, f) ==
    \A b \in Handlers \ {c} : handler[b].op = "import" /\ handler[b].file = f => handler[b].stage \in {"loaded", "cut"}
EventsFree(c, f) ==
    \A b \in Handlers \ {c} : handler[b].op = "import" /\ handler[b].file = f => handler[b].cut = 0
DayFree(c, d) ==
    \A b \in Handlers \ {c} : handler[b].op = "import" => d \notin handler[b].wrote

(* Handler c commits its writes to x and to the days ds: who has read one  *)
(* of them and is still open acts on what is no longer so.                 *)
Holds(b, x) ==
    \/ handler[b].op = "import" /\ (handler[b].file = x \/ x \in handler[b].at)
    \/ handler[b].op = "decide" /\ handler[b].id = x
Ends(c, x, ds) ==
    /\ handler' = [handler EXCEPT ![c] = NoHandler]
    /\ raced' = raced \cup {y \in ds \cup {x} : \E b \in Handlers \ {c} : Holds(b, y)}

(* Mutant: the days are recomputed from what was there before. *)
SeenBefore(c) == {f \in Files : copies[f] > 0}

(* The files with events in the view of import c: what is committed, less  *)
(* what c deleted, and what c inserted.                                    *)
Seen(c) ==
    LET t == handler[c] IN
    {f \in Files : IF f = t.file THEN t.to = "COMMITTED" \/ copies[f] > t.cut ELSE copies[f] > 0}

-----------------------------------------------------------------------------
(* Imports *)

(* preview writes the batch with its parsed rows, once per checksum: the   *)
(* duplicate test and, in a race, the unique index.                        *)
Preview(f) ==
    /\ batch[f] = "none"
    /\ batch' = [batch EXCEPT ![f] = "PREVIEWED"]
    /\ UNCHANGED <<copies, day, leave, shift, req, handler, raced>>

(* Mutant: the status of the batch is not tested. *)
CommitLoadAnyStatus(c, f) ==
    /\ batch[f] # "none"
    /\ Begin(c, Import(f, "COMMITTED"))
    /\ UNCHANGED <<rows, raced>>

CommitLoad(c, f) ==
    /\ batch[f] = "PREVIEWED"
    /\ Begin(c, Import(f, "COMMITTED"))
    /\ UNCHANGED <<rows, raced>>

RollbackLoad(c, f) ==
    /\ batch[f] = "COMMITTED"
    /\ Begin(c, Import(f, "ROLLED_BACK"))
    /\ UNCHANGED <<rows, raced>>

(* rollback deletes the events of the batch that are committed by now. *)
RollbackDelete(c) ==
    /\ Stage(c, "loaded") /\ handler[c].to = "ROLLED_BACK"
    /\ EventsFree(c, handler[c].file)
    /\ handler' = [handler EXCEPT ![c] = [@ EXCEPT !.stage = "cut", !.cut = copies[handler[c].file]]]
    /\ UNCHANGED <<rows, raced>>

(* The batch row is updated; a commit has inserted its events before, which *)
(* only its own queries see.                                                *)
Mark(c) ==
    /\ Stage(c, IF handler[c].to = "COMMITTED" THEN "loaded" ELSE "cut")
    /\ BatchFree(c, handler[c].file)
    /\ handler' = [handler EXCEPT ![c] = [@ EXCEPT !.stage = "marked"]]
    /\ UNCHANGED <<rows, raced>>

Reads(c, d) ==
    [handler[c] EXCEPT !.todo = @ \ {d}, !.stage = "computed", !.at = {d}, !.new = Computed(d, Seen(c))]

(* Mutant: recomputeDay does not look at correctionApplied. *)
RecomputeReadNoFreeze(c, d) ==
    /\ Stage(c, "marked") /\ d \in handler[c].todo
    /\ handler' = [handler EXCEPT ![c] = Reads(c, d)]
    /\ UNCHANGED <<rows, raced>>

(* recomputeDay of one of the affected days.  The day is left alone when a *)
(* correction was applied; else it is computed from events, leave, shift   *)
(* and calendar.  A commit between these queries overtakes the handler     *)
(* as one after them does.                                                 *)
RecomputeRead(c, d) ==
    /\ Stage(c, "marked") /\ d \in handler[c].todo
    /\ handler' = [handler EXCEPT ![c] = IF day[d].frozen THEN [handler[c] EXCEPT !.todo = @ \ {d}] ELSE Reads(c, d)]
    /\ UNCHANGED <<rows, raced>>

(* Its upsert waits for whoever has written the row and keeps              *)
(* correctionApplied as it is by then.                                     *)
RecomputeUpsert(c, d) ==
    LET t == handler[c]
        row == [t.new EXCEPT !.frozen = day[d].frozen] IN
    /\ Stage(c, "computed") /\ d \in t.at
    /\ DayFree(c, d)
    /\ handler' = [handler EXCEPT ![c] = [t EXCEPT !.stage = "marked", !.at = {}, !.new = NoDay,
                                            !.wrote = @ \cup {d}, !.pend = [@ EXCEPT ![d] = row]]]
    /\ UNCHANGED <<rows, raced>>

(* The batch, its events and its days become visible at once. *)
ImportCommit(c) ==
    LET t == handler[c] IN
    /\ Stage(c, "marked") /\ t.todo = {}
    /\ batch' = [batch EXCEPT ![t.file] = t.to]
    /\ copies' = [copies EXCEPT ![t.file] = IF t.to = "COMMITTED" THEN @ + 1 ELSE @ - t.cut]
    /\ day' = [d \in Days |-> IF d \in t.wrote THEN t.pend[d] ELSE day[d]]
    /\ Ends(c, t.file, t.wrote)
    /\ UNCHANGED <<leave, shift, req>>

-----------------------------------------------------------------------------
(* Corrections and overtime *)

NoRequest == [status |-> "none"]
NoWant == [status |-> "none"]
Requests == {i \in RequestIds : req[i] # NoRequest}
KeyUsed(kind, k) == \E i \in Requests : req[i].kind = kind /\ req[i].key = k

CORRECTION_TRANSITIONS == [SUBMITTED |-> {"APPROVED", "REJECTED"}, APPROVED |-> {}, REJECTED |-> {}]

OT_TRANSITIONS ==
    [ DRAFT |-> {"SUBMITTED", "CANCELLED"}, SUBMITTED |-> {"IN_REVIEW", "APPROVED", "REJECTED"},
      IN_REVIEW |-> {"APPROVED", "REJECTED"}, APPROVED |-> {"CANCELLED"}, REJECTED |-> {}, CANCELLED |-> {} ]

Table(kind) == IF kind = "correction" THEN CORRECTION_TRANSITIONS ELSE OT_TRANSITIONS

(* create of either and its approval task, once per key: a stored key is   *)
(* replayed and a racing one meets the unique index, before the task is    *)
(* spawned.  The hours of overtime decide nothing here.                    *)
Create(kind, k, w, i) ==
    /\ req[i] = NoRequest
    /\ ~KeyUsed(kind, k)
    /\ req' = [req EXCEPT ![i] = [kind |-> kind, key |-> k, want |-> w, status |-> "SUBMITTED", task |-> "open"]]
    /\ UNCHANGED <<batch, copies, day, leave, shift, handler, raced>>

(* approve and reject load the request and test the table. *)
DecideLoad(c, i, to) ==
    /\ i \in Requests
    /\ to \in Table(req[i].kind)[req[i].status]
    /\ Begin(c, [op |-> "decide", id |-> i, to |-> to])
    /\ UNCHANGED <<rows, raced>>

(* The upsert of an approved correction: what it does not ask for stays,   *)
(* the minutes too, and a new row has the column's defaults.               *)
Corrected(row, w) ==
    [ row EXCEPT !.status = IF w.status # "none" THEN w.status ELSE IF row = NoDay THEN "PRESENT" ELSE @,
                 !.in = IF w.in # 0 THEN w.in ELSE @,
                 !.out = IF w.out # 0 THEN w.out ELSE @,
                 !.frozen = TRUE ]

Outcome(to) == IF to = "APPROVED" THEN "approved" ELSE "rejected"

(* The request, the day and the approval task are written by id. *)
Decide(c) ==
    LET t == handler[c]
        r == req[t.id]
        ds == IF t.to = "APPROVED" /\ r.kind = "correction" THEN {r.want.day} ELSE {} IN
    /\ t.op = "decide"
    /\ \A d \in ds : DayFree(c, d)
    /\ req' = [req EXCEPT ![t.id] = [@ EXCEPT !.status = t.to, !.task = Outcome(t.to)]]
    /\ day' = [d \in Days |-> IF d \in ds THEN Corrected(day[d], r.want) ELSE day[d]]
    /\ Ends(c, t.id, ds)
    /\ UNCHANGED <<batch, copies, leave, shift>>

-----------------------------------------------------------------------------
(* Around it: leave is approved and cancelled and does not recompute the   *)
(* day; createAssignment gives a shift to the days of its window.          *)
LeaveDecided(w) ==
    /\ leave' \in {leave \cup w, leave \ w}
    /\ UNCHANGED <<batch, copies, day, shift, req, handler, raced>>

createAssignment(w) ==
    /\ shift' = shift \cup w
    /\ UNCHANGED <<batch, copies, day, leave, req, handler, raced>>

(* An exception, the 30 s limit, a deadlock that the database breaks. *)
Abandon(c) ==
    /\ handler[c] # NoHandler
    /\ handler' = [handler EXCEPT ![c] = NoHandler]
    /\ UNCHANGED <<rows, raced>>

AttendanceInit ==
    /\ batch = [f \in Files |-> "none"] /\ copies = [f \in Files |-> 0]
    /\ day = [d \in Days |-> NoDay] /\ req = [i \in RequestIds |-> NoRequest]
    /\ leave = {} /\ shift = {} /\ raced = {}
    /\ handler = [c \in Handlers |-> NoHandler]

Importing(c) ==
    \/ \E f \in Files : CommitLoad(c, f) \/ RollbackLoad(c, f)
    \/ RollbackDelete(c) \/ Mark(c) \/ ImportCommit(c)
    \/ \E d \in Days : RecomputeRead(c, d) \/ RecomputeUpsert(c, d)

Requesting ==
    \E k \in RequestKeys, i \in RequestIds :
        \/ \E w \in Wants : Create("correction", k, w, i)
        \/ Create("overtime", k, NoWant, i)

Deciding(c) ==
    \/ \E i \in RequestIds, to \in {"APPROVED", "REJECTED"} : DecideLoad(c, i, to)
    \/ Decide(c)

AttendanceNext ==
    \/ \E f \in Files : Preview(f)
    \/ \E w \in Leaves : LeaveDecided(w)
    \/ \E w \in Assignments : createAssignment(w)
    \/ Requesting
    \/ \E c \in Handlers : Importing(c) \/ Deciding(c) \/ Abandon(c)

AttendanceSpec == AttendanceInit /\ [][AttendanceNext]_attendanceVars

-----------------------------------------------------------------------------
(* Properties *)

DayStatuses == {"none", "LEAVE", "HOLIDAY", "WEEKEND", "ABSENT", "HALF_DAY", "LATE", "PRESENT"}
DayType == [status : DayStatuses, in : Nat, out : Nat, worked : Nat, late : Nat,
            files : SUBSET Files, frozen : BOOLEAN]

(* Every table and transaction record has its type. *)
AttendanceTypeOK ==
    /\ batch \in [Files -> {"none", "PREVIEWED", "COMMITTED", "ROLLED_BACK"}]
    /\ copies \in [Files -> Nat]
    /\ day \in [Days -> DayType]
    /\ leave \subseteq Days /\ shift \subseteq Days
    /\ req \in [RequestIds -> {NoRequest} \cup
           [kind : {"correction"}, key : RequestKeys, want : Wants, status : {"SUBMITTED", "APPROVED", "REJECTED"},
            task : {"open", "approved", "rejected"}] \cup
           [kind : {"overtime"}, key : RequestKeys, want : {NoWant}, status : {"SUBMITTED", "APPROVED", "REJECTED"},
            task : {"open", "approved", "rejected"}]]
    /\ handler \in [Handlers -> {NoHandler} \cup [op : {"decide"}, id : RequestIds, to : {"APPROVED", "REJECTED"}] \cup
           [op : {"import"}, file : Files, to : {"COMMITTED", "ROLLED_BACK"},
            stage : {"loaded", "cut", "marked", "computed"}, cut : Nat, todo : SUBSET Days, at : SUBSET Days,
            new : DayType, wrote : SUBSET Days, pend : [Days -> DayType]]]
    /\ raced \subseteq Files \cup Days \cup RequestIds

Corrections(d) == {i \in Requests : req[i].kind = "correction" /\ req[i].want.day = d}
OnDay(d) == {f \in Files : copies[f] > 0 /\ d \in Affected(f)}

(* The events of a file are in the table once while its batch is committed *)
(* and not at all before and after ("rollback() reverses exactly what that *)
(* batch wrote", attendance-import.service.ts), unless two handlers worked *)
(* on the batch at the same time.                                          *)
BatchOwnsEvents ==
    \A f \in Files \ raced : copies[f] = IF batch[f] = "COMMITTED" THEN 1 ELSE 0

(* What a day shows has its reason in the other tables: an approved        *)
(* correction when it is frozen, and otherwise the punches that are there  *)
(* now, whatever imports and rollbacks of overlapping files have come and  *)
(* gone, unless a recompute of that day or a decision of that correction   *)
(* was overtaken by a commit.                                              *)
DayHasReason ==
    \A d \in Days \ raced :
        IF day[d].frozen
        THEN \E i \in Corrections(d) : req[i].status = "APPROVED" \/ i \in raced
        ELSE /\ day[d].files = OnDay(d)
             /\ day[d].in = FirstIn(Punches(d, OnDay(d)))
             /\ day[d].out = LastOut(Punches(d, OnDay(d)))

(* A corrected day changes only by a further approved correction ("a human *)
(* correction is authoritative until a NEW correction supersedes it",      *)
(* attendance-day.service.ts), unless a recompute that had checked the day *)
(* before the approval upserts it afterwards.                              *)
CorrectionStands ==
    [][\A d \in Days : day[d].frozen /\ d \notin raced =>
          \/ day'[d] = day[d]
          \/ \E i \in Corrections(d), c \in Handlers :
                handler[c] = [op |-> "decide", id |-> i, to |-> "APPROVED"] /\ handler'[c] = NoHandler]_attendanceVars
=============================================================================
