----------------------------- MODULE CaseTables -----------------------------
(***************************************************************************)
(* The transition tables of the services whose rows Casework runs: which   *)
(* action, or which target, is legal from which state.  The names are the  *)
(* constants of the *.fsm.ts files and of the services.                    *)
(***************************************************************************)

Tr(a, from, to) == [action |-> a, from |-> from, to |-> to]

(* Services with one handler, transition, keep the table by state. *)
Legal(next) == UNION {{Tr("transition", {s}, t) : t \in next[s]} : s \in DOMAIN next}

REVIEWABLE == {"SUBMITTED", "RESUBMITTED", "IN_REVIEW"}

REQUEST_TRANSITIONS ==
    { Tr("submit", {"DRAFT"}, "SUBMITTED"),
      Tr("request-supplement", REVIEWABLE, "WAITING_SUPPLEMENT"),
      Tr("resubmit", {"WAITING_SUPPLEMENT"}, "RESUBMITTED"),
      Tr("approve", REVIEWABLE, "APPROVED"),
      Tr("reject", REVIEWABLE, "REJECTED"),
      Tr("withdraw", REVIEWABLE \cup {"WAITING_SUPPLEMENT", "DRAFT"}, "WITHDRAWN"),
      Tr("cancel", REVIEWABLE \cup {"WAITING_SUPPLEMENT", "DRAFT"}, "CANCELLED"),
      Tr("execute", {"APPROVED"}, "EXECUTING"),
      Tr("evidence", {"EXECUTING"}, "DONE") }

TICKET_TRANSITIONS ==
    { Tr("triage", {"NEW"}, "TRIAGED"),
      Tr("assign", {"NEW", "TRIAGED", "ASSIGNED", "IN_PROGRESS"}, "ASSIGNED"),
      Tr("claim", {"NEW", "TRIAGED", "ASSIGNED"}, "ASSIGNED"),
      Tr("start", {"ASSIGNED", "PENDING_REQUESTER"}, "IN_PROGRESS"),
      Tr("pending", {"IN_PROGRESS"}, "PENDING_REQUESTER"),
      Tr("resume", {"PENDING_REQUESTER"}, "IN_PROGRESS"),
      Tr("resolve", {"IN_PROGRESS", "PENDING_REQUESTER"}, "RESOLVED"),
      Tr("close", {"RESOLVED"}, "CLOSED"),
      Tr("cancel", {"NEW", "TRIAGED", "ASSIGNED", "IN_PROGRESS", "PENDING_REQUESTER"},
         "CANCELLED") }

SUPPORT_CASE_TRANSITIONS ==
    { Tr("triage", {"NEW"}, "TRIAGED"),
      Tr("start", {"TRIAGED", "WAITING_CUSTOMER"}, "IN_PROGRESS"),
      Tr("wait", {"IN_PROGRESS"}, "WAITING_CUSTOMER"),
      Tr("resume", {"WAITING_CUSTOMER"}, "IN_PROGRESS"),
      Tr("resolve", {"IN_PROGRESS", "WAITING_CUSTOMER"}, "RESOLVED"),
      Tr("close", {"RESOLVED"}, "CLOSED"),
      Tr("cancel", {"NEW", "TRIAGED", "IN_PROGRESS", "WAITING_CUSTOMER"}, "CANCELLED") }

(* "progress" is no handler's action: commitmentAct writes it, see below. *)
DIRECTIVE_TRANSITIONS ==
    { Tr("issue", {"DRAFT"}, "ISSUED"),
      Tr("complete", {"ISSUED", "IN_PROGRESS"}, "COMPLETED"),
      Tr("cancel", {"DRAFT", "ISSUED", "IN_PROGRESS"}, "CANCELLED") }

COMMITMENT_TRANSITIONS ==
    { Tr("acknowledge", {"ASSIGNED"}, "ACKNOWLEDGED"),
      Tr("start", {"ACKNOWLEDGED", "RETURNED"}, "IN_PROGRESS"),
      Tr("submit", {"IN_PROGRESS"}, "SUBMITTED"),
      Tr("accept", {"SUBMITTED"}, "ACCEPTED"),
      Tr("return", {"SUBMITTED"}, "RETURNED") }

ANNOUNCEMENT_TRANSITIONS ==
    { Tr("publish", {"DRAFT"}, "PUBLISHED"),
      Tr("archive", {"PUBLISHED"}, "ARCHIVED"),
      Tr("cancel", {"DRAFT", "PUBLISHED"}, "CANCELLED") }
-----------------------------------------------------------------------------
OPPORTUNITY_TRANSITIONS == Legal(
    [ LEAD        |-> {"QUALIFIED", "LOST"},
      QUALIFIED   |-> {"DISCOVERY", "LOST"},
      DISCOVERY   |-> {"PROPOSAL", "LOST"},
      PROPOSAL    |-> {"NEGOTIATION", "LOST"},
      NEGOTIATION |-> {"WON", "LOST"} ])

PROPOSAL_TRANSITIONS == Legal(
    [ DRAFT     |-> {"IN_REVIEW"},
      IN_REVIEW |-> {"APPROVED", "REJECTED"},
      APPROVED  |-> {"SENT"},
      SENT      |-> {"ACCEPTED", "REJECTED", "EXPIRED"} ])

PRE_SIGNING_STATUSES == {"DRAFT", "REVIEW", "NEGOTIATION", "APPROVED"}

CONTRACT_TRANSITIONS == Legal(
    [ DRAFT       |-> {"REVIEW"},
      REVIEW      |-> {"NEGOTIATION", "APPROVED"},
      NEGOTIATION |-> {"REVIEW", "APPROVED"},
      APPROVED    |-> {"SIGNING"},
      SIGNING     |-> {"EFFECTIVE"},
      EFFECTIVE   |-> {"SUSPENDED", "TERMINATED", "COMPLETED", "EXPIRED"},
      SUSPENDED   |-> {"EFFECTIVE", "TERMINATED"} ])

VERSION_TRANSITIONS == Legal(
    [ DRAFT             |-> {"PLANNING"},
      PLANNING          |-> {"IN_DEVELOPMENT"},
      IN_DEVELOPMENT    |-> {"CODE_FREEZE"},
      CODE_FREEZE       |-> {"UAT", "IN_DEVELOPMENT"},
      UAT               |-> {"RELEASE_CANDIDATE", "IN_DEVELOPMENT"},
      RELEASE_CANDIDATE |-> {"RELEASED", "UAT"},
      RELEASED          |-> {"DEPRECATED"},
      DEPRECATED        |-> {"END_OF_LIFE"} ])

DEFECT_TRANSITIONS == Legal(
    [ NEW         |-> {"TRIAGED", "WONT_FIX"},
      TRIAGED     |-> {"IN_PROGRESS", "WONT_FIX", "DUPLICATE"},
      IN_PROGRESS |-> {"FIX_READY", "TRIAGED"},
      FIX_READY   |-> {"VERIFYING", "IN_PROGRESS"},
      VERIFYING   |-> {"CLOSED", "REOPENED"},
      CLOSED      |-> {"REOPENED"},
      WONT_FIX    |-> {"REOPENED"},
      DUPLICATE   |-> {"REOPENED"},
      REOPENED    |-> {"TRIAGED"} ])

(* Impact assessments: of AI systems and of privacy, the same table. *)
ASSESSMENT_TRANSITIONS == Legal(
    [ DRAFT        |-> {"IN_REVIEW"},
      IN_REVIEW    |-> {"APPROVED", "REJECTED", "NEEDS_UPDATE"},
      NEEDS_UPDATE |-> {"DRAFT"},
      REJECTED     |-> {"DRAFT"},
      APPROVED     |-> {"NEEDS_UPDATE"} ])

WORK_STATUSES ==
    {"BACKLOG", "TODO", "IN_PROGRESS", "REVIEW", "BLOCKED", "DONE", "CANCELLED"}

WORK_TRANSITIONS == Legal(
    [ BACKLOG     |-> {"TODO", "IN_PROGRESS", "CANCELLED"},
      TODO        |-> {"IN_PROGRESS", "BLOCKED", "BACKLOG", "CANCELLED"},
      IN_PROGRESS |-> {"REVIEW", "BLOCKED", "DONE", "TODO", "CANCELLED"},
      REVIEW      |-> {"DONE", "IN_PROGRESS", "BLOCKED", "CANCELLED"},
      BLOCKED     |-> {"IN_PROGRESS", "TODO", "CANCELLED"},
      DONE        |-> {"IN_PROGRESS", "TODO"},
      CANCELLED   |-> {"TODO", "BACKLOG"} ])
=============================================================================
