--------------------------- MODULE OutreachState ----------------------------
(***************************************************************************)
(* The state shared by the components that talk to the suppliers of one    *)
(* RFQ: the database rows (invitations, quotes, follow-ups, the RFQ's      *)
(* status) and what every worker holds between two of its database steps.  *)
(*                                                                         *)
(* The backend is one process. A buyer's request and a scheduler sweep run *)
(* in threads of their own, a supplier's submission runs on the event loop *)
(* and yields only where it awaits. Each has its own Session on a database *)
(* at READ COMMITTED, without row locks or version columns: what a worker  *)
(* read earlier may be stale when it commits, and a commit writes only the *)
(* columns whose value differs from the value read.                        *)
(***************************************************************************)
EXTENDS FollowUpPolicy, FiniteSets

CONSTANTS
    Invitations,      \* invitation ids, in the order they were issued
    Submissions,      \* concurrent POSTs of the public form
    Requests,         \* concurrent requests of the buyer
    Sweeps,           \* drivers of run_scheduler
    Timers,           \* the drivers that are the process's own timer; others are cron jobs
    MaxRows,          \* bound: rows of follow_ups
    MaxMail,          \* bound: accepted emails per row
    MaxRefusals,      \* bound: rows in status failed before the provider recovers
    MaxTime,          \* bound: the last instant
    Deadline,         \* rfq.deadline, or None
    Grace,            \* days a link outlives the deadline
    LinkTTL,          \* settings.INVITATION_TTL_DAYS
    HighRisk,         \* invitations whose supplier is rated high risk
    Answers,          \* the answers a submission can parse to
    BuyerOps,         \* the operations the buyer uses in this instance
    AutoSend,         \* settings.AUTO_SEND_FOLLOWUPS
    MayRestart,       \* whether the process may die and be restarted
    SweepLimit,       \* the LIMIT of open_invitations
    StartInvitation   \* the row every invitation starts with

VARIABLES
    now,          \* the clock
    rfq,          \* rfq.status
    invitation,   \* the invitations table
    quotes,       \* the quotes attached to an invitation
    followups,    \* the follow_ups table
    mailed,       \* how often the provider accepted the message of a row
    consent,      \* the rows whose sending the buyer asked for
    submission,   \* what a submission holds
    request,      \* what a buyer's request holds
    sweep,        \* what a sweep holds
    delivery      \* what _deliver holds, in a request or in a sweep

database == <<rfq, invitation, quotes, followups>>
history  == <<mailed, consent>>
workers  == <<submission, request, sweep, delivery>>
vars     == <<now, database, history, workers>>

-----------------------------------------------------------------------------
Rows    == 1 .. MaxRows
Workers == Requests \union Sweeps

InvitationStatuses ==
    {"absent", "pending", "submitted", "incomplete", "expired", "cancelled", "deleted"}

\* The RFQ statuses this part tells apart; draft and awarded act like closed.
RfqStatuses == {"open", "closed", "cancelled"}

RowStatuses == {"none", "draft", "queued", "sent", "failed", "rejected", "deleted"}

Completeness == {"complete", "incomplete"}

(***************************************************************************)
(* An invitation row. lastSent stands for sent_at and last_sent_at, which  *)
(* are always set together. The status "absent" is an id not issued yet,   *)
(* "deleted" one whose row is gone for good.                               *)
(***************************************************************************)
InvitationRow ==
    [status : InvitationStatuses, lastSent : Nat \union {None}, expires : Nat,
     reminders : Nat]

AbsentInvitation ==
    [status |-> "absent", lastSent |-> None, expires |-> 0, reminders |-> 0]

(***************************************************************************)
(* A quote, as far as the follow-ups look at it: missing_fields is nonempty*)
(* exactly when completeness is "incomplete".                              *)
(***************************************************************************)
Quote == [completeness : Completeness, blocked : BOOLEAN]

(***************************************************************************)
(* A follow_ups row. auto says that triggered_by is the scheduler. basis   *)
(* is history: what the sweep that decided on the row had read of the      *)
(* quote.                                                                  *)
(***************************************************************************)
Basis == {"none", "complete", "incomplete", "blocked"}

FollowUpRow ==
    [inv : Invitations \union {None}, kind : Kinds \union {"none"},
     status : RowStatuses, auto : BOOLEAN, basis : Basis]

NoRow ==
    [inv |-> None, kind |-> "none", status |-> "none", auto |-> FALSE, basis |-> "none"]

(***************************************************************************)
(* What the workers hold. pc names the step a worker takes next.           *)
(***************************************************************************)
SubmissionState ==
    [pc : {"idle", "parsing"}, inv : Invitations \union {None},
     seen : InvitationStatuses]

RequestState ==
    [pc : {"idle", "mail", "send", "cancel", "reject", "draft", "queue"},
     inv : Invitations \union {None}, row : Rows \union {None},
     seen : InvitationStatuses \union RowStatuses, renew : Nat \union {None},
     kind : Kinds \union {"none"}, outcome : {"none", "sent", "failed"}]

SweepState ==
    [pc : {"idle", "expire", "expireOnly", "scan", "items", "draft"}, at : Nat,
     overdue : SUBSET Invitations, todo : SUBSET Invitations,
     seen : [Invitations -> InvitationRow \union {None}],
     item : Invitations \union {None}, kind : Kinds \union {"none"}, basis : Basis]

DeliveryState ==
    [pc : {"none", "mail", "count", "commit"}, row : Rows \union {None},
     seen : RowStatuses, outcome : {"none", "sent", "failed"}, count : Nat]

IdleSubmission == [pc |-> "idle", inv |-> None, seen |-> "absent"]

IdleRequest ==
    [pc |-> "idle", inv |-> None, row |-> None, seen |-> "absent", renew |-> None,
     kind |-> "none", outcome |-> "none"]

IdleSweep ==
    [pc |-> "idle", at |-> 0, overdue |-> {}, todo |-> {},
     seen |-> [i \in Invitations |-> None], item |-> None, kind |-> "none",
     basis |-> "none"]

NoDelivery ==
    [pc |-> "none", row |-> None, seen |-> "none", outcome |-> "none", count |-> 0]

-----------------------------------------------------------------------------
ASSUME OutreachAssumption ==
    /\ IsFiniteSet(Invitations) /\ Invitations \subseteq Nat
    /\ IsFiniteSet(Sweeps) /\ IsFiniteSet(Requests)
    /\ Requests \intersect Sweeps = {}
    /\ Timers \subseteq Sweeps
    /\ {MaxRows, MaxMail, MaxRefusals, MaxTime, Grace, LinkTTL, SweepLimit} \subseteq Nat
    /\ Deadline \in Nat \union {None}
    /\ Answers \subseteq Quote
    /\ {AutoSend, MayRestart} \subseteq BOOLEAN
    /\ StartInvitation \in InvitationRow
    /\ None \notin Invitations
    /\ HighRisk \subseteq Invitations

-----------------------------------------------------------------------------
(***************************************************************************)
(* Reads the components share.                                             *)
(***************************************************************************)
Present(row) == row.status \notin {"absent", "deleted"}

Exists(i) == Present(invitation[i])

HasQuote(i) == quotes[i] # <<>>

\* find_quote: a query with no order, so any quote of the invitation answers it.
QuotesOf(i) == {quotes[i][n] : n \in DOMAIN quotes[i]}

Delivering(w) == delivery[w].pc # "none"

\* A request slot that is free for the buyer's next request.
Idle(b) == request[b].pc = "idle" /\ ~Delivering(b)

\* Whether this instance lets the buyer use an operation.
Uses(op) == op \in BuyerOps

\* A column is written when the new value differs from the one the session loaded.
Written(current, loaded, new) == IF new = loaded THEN current ELSE new

HasRow(r) == followups[r].status \notin {"none", "deleted"}

\* The provider may refuse a message (bounded by MaxRefusals).
MayRefuse == Cardinality({r \in Rows : followups[r].status = "failed"}) < MaxRefusals

\* The id the next INSERT into follow_ups gets.
NewRow(r) ==
    /\ followups[r].status = "none"
    /\ \A q \in Rows : q < r => followups[q].status # "none"

FollowUp(i, kind, status, auto, basis) ==
    [inv |-> i, kind |-> kind, status |-> status, auto |-> auto, basis |-> basis]

LinkExpired(expires, at) == expires <= at

DeadlinePassed(at) == Deadline # None /\ Deadline <= at

\* InvitationService.default_expiry
DefaultExpiry ==
    IF Deadline = None \/ Deadline + Grace <= now THEN now + LinkTTL
    ELSE IF Deadline + Grace < now + LinkTTL THEN Deadline + Grace
    ELSE now + LinkTTL
=============================================================================
