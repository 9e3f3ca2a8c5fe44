------------------------------ MODULE Casework ------------------------------
(***************************************************************************)
(* The record services: requests, tickets, support cases, directives and   *)
(* announcements; opportunities, proposals and contracts; product          *)
(* versions, defects and impact assessments; work items.  Each has a row   *)
(* with a transition table, columns that are filled in on the way, and     *)
(* rows that hang on it: executions, commitments, receipts, priced lines,  *)
(* the obligations and bills of a contract, or the item that an escalation *)
(* files in the other process.                                             *)
(*                                                                         *)
(* One row of one of the services, and the clients that act on it.  A      *)
(* handler loads the row and tests the table, and later writes by id,      *)
(* whatever the row has become: within one READ COMMITTED transaction, or, *)
(* in the engineering services, in two.                                    *)
(***************************************************************************)
EXTENDS Naturals, FiniteSets, CaseTables

CONSTANTS
    Callers,    \* requests that may be in flight at the same time
    People,     \* the audience of a directive or an announcement
    MaxRounds   \* bound: times one row is issued, executed, escalated, given a line

ASSUME CaseworkAssumption ==
    /\ People # {} /\ MaxRounds \in Nat
    /\ People \cap {"none", "line", "obligation", "bill"} = {}

VARIABLES
    kind,       \* the service the row belongs to
    state,      \* its state, status or stage column, "NONE" before create
    filled,     \* columns that are set: assigneeId, resolvedAt, lostReason, ...
    parts,      \* the rows that hang on it: [who, round, state]
    items,      \* rows filed by escalate, or inserted as obligations
    total,      \* totalAmount of a proposal or contract; a line counts one
    call,       \* call[c]: what the handler of client c has read
    raced       \* history: two handlers have been open at the same time

row == <<kind, state, filled, parts, items, total>>
caseVars == <<row, call, raced>>

-----------------------------------------------------------------------------
Kinds == {"request", "ticket", "support", "directive", "announcement",
          "opportunity", "proposal", "contract", "version", "defect", "assessment", "work"}

Table ==
    CASE kind = "request" -> REQUEST_TRANSITIONS
      [] kind = "ticket" -> TICKET_TRANSITIONS
      [] kind = "support" -> SUPPORT_CASE_TRANSITIONS
      [] kind = "directive" -> DIRECTIVE_TRANSITIONS
      [] kind = "announcement" -> ANNOUNCEMENT_TRANSITIONS
      [] kind = "opportunity" -> OPPORTUNITY_TRANSITIONS
      [] kind = "proposal" -> PROPOSAL_TRANSITIONS
      [] kind = "contract" -> CONTRACT_TRANSITIONS
      [] kind = "version" -> VERSION_TRANSITIONS
      [] kind = "defect" -> DEFECT_TRANSITIONS
      [] kind = "assessment" -> ASSESSMENT_TRANSITIONS
      [] kind = "work" -> WORK_TRANSITIONS

NoCall == [op |-> "idle"]

(* A handler opens; raced remembers that another one was open. *)
Begin(c, t) ==
    /\ call[c] = NoCall
    /\ call' = [call EXCEPT ![c] = t]
    /\ raced' = (raced \/ \E d \in Callers : call[d] # NoCall)
    /\ UNCHANGED row

End(c) == call' = [call EXCEPT ![c] = NoCall] /\ UNCHANGED raced

Rounds == Cardinality({p.round : p \in parts})
Part(who, s) == [who |-> who, round |-> Rounds + 1, state |-> s]
NoPart == [who |-> "none", round |-> 0, state |-> "none"]
Of(who) == {p \in parts : p.who = who}

(* The state of a new row; a work item may be created in any, a defect     *)
(* with or without a severity (P0, P1) that asks for a root cause.         *)
Initially ==
    CASE kind \in {"ticket", "support", "defect"} -> {"NEW"}
      [] kind = "opportunity" -> {"LEAD"}
      [] kind = "work" -> WORK_STATUSES
      [] OTHER -> {"DRAFT"}

Create ==
    /\ state = "NONE"
    /\ state' \in Initially
    /\ filled' \in CASE kind = "defect" -> {{}, {"severe"}}
                     [] kind = "work" /\ state' = "IN_PROGRESS" -> {{"actualStart"}}
                     [] OTHER -> {{}}
    /\ UNCHANGED <<kind, parts, items, total, call, raced>>

-----------------------------------------------------------------------------
(* The note that comes with a transition: the reason of a loss, the note   *)
(* of an approver, the root cause, the role of the approver.               *)
Notes == {"nothing", "blank", "text"}
Notable == {"opportunity", "proposal", "defect", "assessment"}

Needs(t, note) ==
    /\ kind \notin Notable => note = "nothing"
    /\ kind = "opportunity" /\ t.to = "LOST" => note = "text"
    /\ kind = "proposal" /\ t.to = "APPROVED" /\ "requiresApproval" \in filled => note = "text"
    /\ kind = "defect" /\ t.to = "CLOSED" /\ "severe" \in filled /\ "rootCause" \notin filled
            => note = "text"
    /\ kind = "assessment" /\ t.to = "APPROVED" => note = "text"

(* The columns an UPDATE writes back with the value the handler has read. *)
WrittenBack ==
    CASE kind = "opportunity" -> {"lostReason"}
      [] kind = "version" -> {"releasedAt"}
      [] kind = "assessment" -> {"approverRole", "approvedAt"}
      [] OTHER -> {}

(* Every action of a table: load the row, assertLegal.  evidence also      *)
(* needs an execution of the request, in whatever status.                  *)
Load(c, t, p, note) ==
    /\ state \in t.from
    /\ IF t.action = "evidence" THEN p \in parts ELSE p = NoPart
    /\ Needs(t, note)
    /\ Begin(c, [op |-> t.action, from |-> state, to |-> t.to, part |-> p,
                 note |-> note, seen |-> filled \cap WrittenBack])

(* Mutant: claim does not store who claims. *)
FillsForgetsClaim(t) ==
    CASE kind = "ticket" /\ t.op = "assign" -> {"assigneeId"}
      [] kind \in {"ticket", "support"} /\ t.op = "resolve" -> {"resolvedAt"}
      [] kind = "opportunity" /\ t.to = "LOST" -> {"lostReason"}
      [] kind = "version" /\ t.to = "RELEASED" -> {"releasedAt"}
      [] OTHER -> {}

(* The columns an action fills in besides the state.  setProgress(100)     *)
(* completes a work item as the change to DONE does.                       *)
Fills(t) ==
    CASE kind = "ticket" /\ t.op \in {"assign", "claim"} -> {"assigneeId"}
      [] kind \in {"ticket", "support"} /\ t.op = "resolve" -> {"resolvedAt"}
      [] kind = "opportunity" /\ t.to = "LOST" -> {"lostReason"}
      [] kind = "proposal" /\ t.to = "APPROVED" /\ t.note = "text" -> {"approverNote"}
      [] kind = "version" /\ t.to = "RELEASED" -> {"releasedAt"}
      [] kind = "defect" /\ t.note = "text" -> {"rootCause"}
      [] kind = "assessment" -> (IF t.note = "text" THEN {"approverRole"} ELSE {})
                                    \cup (IF t.to = "APPROVED" THEN {"approvedAt"} ELSE {})
      [] kind = "work" /\ t.to = "IN_PROGRESS" -> {"actualStart"}
      [] kind = "work" /\ t.to = "DONE" -> {"completedAt"}
      [] OTHER -> {}

(* A blank role replaces the role; leaving DONE forgets the completion. *)
Clears(t) ==
    CASE kind = "assessment" /\ t.note = "blank" -> {"approverRole"}
      [] kind = "work" /\ t.from = "DONE" -> {"completedAt"}
      [] OTHER -> {}

FilledAfter(t) ==
    (((filled \ WrittenBack) \cup t.seen) \ Clears(t)) \cup Fills(t)

(* The hanging rows after an action.  execute adds one execution, evidence *)
(* completes the one it was given, issue adds one commitment for each of   *)
(* the audience, publish a receipt for those who have none.                *)
Executing == parts \cup {Part("none", "pending")}
Evidenced(x) == {p \in parts : p.round # x.round} \cup {[x EXCEPT !.state = "completed"]}
Issued == parts \cup {Part(w, "ASSIGNED") : w \in People}
Published == parts \cup {Part(w, "NEW") : w \in People \ {p.who : p \in parts}}

(* A contract that becomes effective gets its obligations, one for each    *)
(* milestone line, unless it has some: counted after the UPDATE, so with   *)
(* the row locked.                                                         *)
Obligations ==
    IF Of("obligation") # {} THEN {}
    ELSE {[who |-> "obligation", round |-> l.round, state |-> "PENDING"] :
             l \in {p \in Of("line") : p.state = "MILESTONE"}}

PartsAfter(t) ==
    CASE t.op = "execute" -> Executing
      [] t.op = "evidence" -> Evidenced(t.part)
      [] t.op = "issue" -> Issued
      [] t.op = "publish" -> Published
      [] kind = "contract" /\ t.to = "EFFECTIVE" -> parts \cup Obligations
      [] OTHER -> parts

(* UPDATE by id, and commit.  Signatures are counted before the UPDATE of  *)
(* a contract to EFFECTIVE; none is ever deleted.                          *)
Write(c) ==
    LET t == call[c] IN
    /\ t.op \in {r.action : r \in Table} /\ "to" \in DOMAIN t
    /\ t.op \in {"execute", "issue"} => Rounds < MaxRounds
    /\ kind = "contract" /\ t.to = "EFFECTIVE" => "signature" \in filled
    /\ state' = t.to
    /\ filled' = FilledAfter(t)
    /\ parts' = PartsAfter(t)
    /\ items' = items + IF kind = "contract" /\ t.to = "EFFECTIVE"
                         THEN Cardinality(Obligations) ELSE 0
    /\ End(c)
    /\ UNCHANGED <<kind, total>>

-----------------------------------------------------------------------------
(* commitmentAct: the directive and one commitment are loaded; the table   *)
(* of commitments is tested, the state of the directive is not ...         *)
LoadCommitment(c, t, p) ==
    /\ kind = "directive"
    /\ p \in parts /\ p.state \in t.from
    /\ Begin(c, [op |-> "commitment", part |-> p, next |-> t.to,
                 progress |-> t.action \in {"acknowledge", "start"} /\ state = "ISSUED"])

(* Mutant: the directive moves on with the first commitment only at start. *)
WriteCommitmentAtStart(c) ==
    LET t == call[c] IN
    /\ t.op = "commitment"
    /\ parts' = {p \in parts : <<p.who, p.round>> # <<t.part.who, t.part.round>>}
                    \cup {[t.part EXCEPT !.state = t.next]}
    /\ state' = IF t.progress /\ t.next = "IN_PROGRESS" THEN "IN_PROGRESS" ELSE state
    /\ End(c)
    /\ UNCHANGED <<kind, filled, items, total>>

(* ... and the first activity moves the directive it saw ISSUED on. *)
WriteCommitment(c) ==
    LET t == call[c] IN
    /\ t.op = "commitment"
    /\ parts' = {p \in parts : <<p.who, p.round>> # <<t.part.who, t.part.round>>}
                    \cup {[t.part EXCEPT !.state = t.next]}
    /\ state' = IF t.progress THEN "IN_PROGRESS" ELSE state
    /\ End(c)
    /\ UNCHANGED <<kind, filled, items, total>>

(* read and acknowledge stamp the reader's receipt, whatever the state of  *)
(* the announcement; the stamps are never taken back.                      *)
Stamp(c, p, s) ==
    /\ kind = "announcement"
    /\ p \in parts
    /\ s = "READ" => p.state = "NEW"
    /\ Begin(c, [op |-> "stamp", part |-> p, next |-> s])

WriteStamp(c) ==
    LET t == call[c] IN
    /\ t.op = "stamp"
    /\ parts' = {IF p.who = t.part.who /\ p.state # "ACKNOWLEDGED"
                 THEN [p EXCEPT !.state = t.next] ELSE p : p \in parts}
    /\ End(c)
    /\ UNCHANGED <<kind, state, filled, items, total>>

(* csat of a ticket, assign of a support case: a column, no transition. *)
LoadCsat(c) ==
    /\ kind = "ticket" /\ state \in {"RESOLVED", "CLOSED"}
    /\ Begin(c, [op |-> "column", col |-> "csatScore"])

LoadAssign(c) ==
    /\ kind = "support" /\ state # "NONE"
    /\ Begin(c, [op |-> "column", col |-> "assigneeId"])

WriteColumn(c) ==
    /\ call[c].op = "column"
    /\ filled' = filled \cup {call[c].col}
    /\ End(c)
    /\ UNCHANGED <<kind, state, parts, items, total>>

(* escalate: a case with a link is answered with it; else the item is      *)
(* filed over HTTP, where it is committed at once, and the link is stored  *)
(* with the transaction of the case.                                       *)
EscalateLoad(c) ==
    /\ kind = "support" /\ state # "NONE" /\ "escalatedItemId" \notin filled
    /\ Begin(c, [op |-> "escalate"])

EscalatePost(c) ==
    /\ call[c].op = "escalate"
    /\ items < MaxRounds
    /\ items' = items + 1
    /\ call' = [call EXCEPT ![c] = [op |-> "link"]]
    /\ UNCHANGED <<kind, state, filled, parts, total, raced>>

EscalateLink(c) ==
    /\ call[c].op = "link"
    /\ filled' = filled \cup {"escalatedItemId"}
    /\ End(c)
    /\ UNCHANGED <<kind, state, parts, items, total>>

-----------------------------------------------------------------------------
(* addLine of a proposal or contract: the row is loaded and its status     *)
(* tested, the line inserted, the lines summed up - its own and those that *)
(* are committed - and the sum written by id.                              *)
LineKinds == CASE kind = "contract" -> {"MILESTONE", "OTHER"}
               [] kind = "proposal" -> {"discounted", "plain"}
               [] OTHER -> {}

LoadLine(c, k) ==
    /\ k \in LineKinds
    /\ state \in IF kind = "contract" THEN PRE_SIGNING_STATUSES ELSE {"DRAFT"}
    /\ Begin(c, [op |-> "line", line |-> k])

SumLines(c) ==
    LET t == call[c] IN
    /\ t.op = "line"
    /\ call' = [call EXCEPT ![c] =
                 [op |-> "sum", line |-> t.line, sum |-> Cardinality(Of("line")) + 1,
                  approval |-> \E s \in {t.line} \cup {p.state : p \in Of("line")} : s = "discounted"]]
    /\ UNCHANGED <<row, raced>>

WriteLine(c) ==
    LET t == call[c] IN
    /\ t.op = "sum"
    /\ Rounds < MaxRounds
    /\ parts' = parts \cup {Part("line", t.line)}
    /\ total' = t.sum
    /\ filled' = (filled \ {"requiresApproval"})
                    \cup IF t.approval THEN {"requiresApproval"} ELSE {}
    /\ End(c)
    /\ UNCHANGED <<kind, state, items>>

(* sign: a signature, and the contract that was seen APPROVED moves on. *)
LoadSign(c) ==
    /\ kind = "contract" /\ state \in {"APPROVED", "SIGNING"}
    /\ Begin(c, [op |-> "sign", moves |-> state = "APPROVED"])

WriteSign(c) ==
    /\ call[c].op = "sign"
    /\ filled' = filled \cup {"signature"}
    /\ state' = IF call[c].moves THEN "SIGNING" ELSE state
    /\ End(c)
    /\ UNCHANGED <<kind, parts, items, total>>

(* completeObligation tests nothing but the evidence it is given. *)
CompleteObligation(p) ==
    /\ p \in Of("obligation")
    /\ parts' = (parts \ {p}) \cup {[p EXCEPT !.state = "COMPLETED"]}
    /\ UNCHANGED <<kind, state, filled, items, total, call, raced>>

(* generateBillingRequest: the bill of an obligation is ready if the       *)
(* obligation was read with evidence.                                      *)
LoadBill(c, p) ==
    /\ p \in Of("obligation")
    /\ Begin(c, [op |-> "bill", part |-> p])

WriteBill(c) ==
    LET t == call[c] IN
    /\ t.op = "bill"
    /\ parts' = parts \cup {[who |-> "bill", round |-> t.part.round, state |->
                               IF t.part.state = "COMPLETED" THEN "READY" ELSE "BLOCKED"]}
    /\ End(c)
    /\ UNCHANGED <<kind, state, filled, items, total>>

(* An exception, a unique index, the time limit, a crash. *)
GiveUp(c) ==
    /\ call[c] # NoCall
    /\ End(c)
    /\ UNCHANGED row

-----------------------------------------------------------------------------
CaseInit ==
    /\ kind \in Kinds
    /\ state = "NONE"
    /\ filled = {}
    /\ parts = {}
    /\ items = 0
    /\ total = 0
    /\ call = [c \in Callers |-> NoCall]
    /\ raced = FALSE

CaseNext ==
    \/ Create
    \/ \E p \in parts : CompleteObligation(p)
    \/ \E c \in Callers :
        \/ \E t \in Table, p \in parts \cup {NoPart}, note \in Notes : Load(c, t, p, note)
        \/ Write(c)
        \/ \E t \in COMMITMENT_TRANSITIONS : \E p \in parts : LoadCommitment(c, t, p)
        \/ WriteCommitment(c)
        \/ \E p \in parts, s \in {"READ", "ACKNOWLEDGED"} : Stamp(c, p, s)
        \/ WriteStamp(c)
        \/ LoadCsat(c) \/ LoadAssign(c) \/ WriteColumn(c)
        \/ EscalateLoad(c) \/ EscalatePost(c) \/ EscalateLink(c)
        \/ \E k \in LineKinds : LoadLine(c, k)
        \/ SumLines(c) \/ WriteLine(c)
        \/ LoadSign(c) \/ WriteSign(c)
        \/ \E p \in parts : LoadBill(c, p)
        \/ WriteBill(c)
        \/ GiveUp(c)

CaseSpec == CaseInit /\ [][CaseNext]_caseVars

-----------------------------------------------------------------------------
Has(s) == \E p \in parts : p.state = s
EveryoneHasOne == \A w \in People : \E p \in parts : p.who = w
Live == {"EFFECTIVE", "SUSPENDED", "EXPIRED", "TERMINATED", "COMPLETED"}

(* A state never claims what the other columns and rows do not show,       *)
(* whatever handlers race: work is somebody's, a resolution has its time,  *)
(* an execution its row and its evidence, an issued directive and a        *)
(* published announcement reach everyone, an escalation has its item.  A   *)
(* loss has its reason and a release its date, and nothing else has them;  *)
(* a severe defect is closed with a root cause, an assessment approved by  *)
(* a role; a live contract is signed, its obligations were made once, and  *)
(* only completed ones are ready to be billed.                             *)
StateHasEvidence ==
    /\ kind = "ticket" /\ state \notin {"NONE", "NEW", "TRIAGED", "CANCELLED"}
            => "assigneeId" \in filled
    /\ kind \in {"ticket", "support"} /\ (state \in {"RESOLVED", "CLOSED"} \/ "csatScore" \in filled)
            => "resolvedAt" \in filled
    /\ kind = "request" /\ state = "EXECUTING" => parts # {}
    /\ kind = "request" /\ state = "DONE" => Has("completed")
    /\ kind = "directive" /\ state \in {"ISSUED", "IN_PROGRESS", "COMPLETED"} => EveryoneHasOne
    /\ kind = "announcement" /\ state \in {"PUBLISHED", "ARCHIVED"} => EveryoneHasOne
    /\ "escalatedItemId" \in filled => items > 0
    /\ kind = "opportunity" => (state = "LOST" <=> "lostReason" \in filled)
    /\ kind = "version" =>
            (state \in {"RELEASED", "DEPRECATED", "END_OF_LIFE"} <=> "releasedAt" \in filled)
    /\ kind = "defect" /\ state = "CLOSED" /\ "severe" \in filled => "rootCause" \in filled
    /\ kind = "assessment" /\ state = "APPROVED" => {"approverRole", "approvedAt"} \subseteq filled
    /\ kind = "work" /\ state = "IN_PROGRESS" => "actualStart" \in filled
    /\ kind = "contract" /\ state \in Live => "signature" \in filled
    /\ kind = "contract" => items = Cardinality(Of("obligation"))
    /\ \A b \in Of("bill") : b.state = "READY" =>
            \E p \in Of("obligation") : p.round = b.round /\ p.state = "COMPLETED"

(* As long as no two handlers of the row overlap, the row and what hangs   *)
(* on it agree exactly: one execution is pending while the request is      *)
(* executing and none otherwise, everyone has one commitment, and nobody   *)
(* has taken up a directive that still says ISSUED.  Totals are the sum of *)
(* the lines; a discount that needs it is approved with a note; a signed   *)
(* contract is closed to new lines and, once live, has an obligation for   *)
(* each milestone line; only a work item that is DONE has a completion.    *)
AgreesUnlessRaced ==
    ~raced =>
        /\ kind = "request" =>
            Cardinality({p \in parts : p.state = "pending"}) = IF state = "EXECUTING" THEN 1 ELSE 0
        /\ kind = "directive" => \A p, q \in parts : p.who = q.who => p = q
        /\ kind = "directive" /\ state = "ISSUED" => \A p \in parts : p.state = "ASSIGNED"
        /\ total = Cardinality(Of("line"))
        /\ kind = "proposal" /\ state \in {"APPROVED", "SENT", "ACCEPTED", "EXPIRED"} /\ Has("discounted")
            => "approverNote" \in filled
        /\ kind = "contract" /\ "signature" \in filled => state \notin PRE_SIGNING_STATUSES
        /\ kind = "contract" /\ state \in Live =>
            \A l \in Of("line") : l.state = "MILESTONE" => \E p \in Of("obligation") : p.round = l.round
        /\ kind = "work" /\ "completedAt" \in filled => state = "DONE"
=============================================================================
