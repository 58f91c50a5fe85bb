------------------------------ MODULE Outreach ------------------------------
(***************************************************************************)
(* Everything that talks to the suppliers of one RFQ, composed: the public *)
(* form, the buyer's operations, the follow-ups and the scheduler's sweeps *)
(* over the shared database, a clock, and a process that may be restarted. *)
(***************************************************************************)
EXTENDS Submission, InvitationOps, SchedulerSweep

Init ==
    /\ now = 1
    /\ rfq = "open"
    /\ invitation = [i \in Invitations |-> StartInvitation]
    /\ quotes = [i \in Invitations |-> <<>>]
    /\ followups = [r \in Rows |-> NoRow]
    /\ mailed = [r \in Rows |-> 0]
    /\ consent = {}
    /\ submission = [p \in Submissions |-> IdleSubmission]
    /\ request = [b \in Requests |-> IdleRequest]
    /\ sweep = [w \in Sweeps |-> IdleSweep]
    /\ delivery = [w \in Workers |-> NoDelivery]

Tick ==
    /\ now < MaxTime
    /\ now' = now + 1
    /\ UNCHANGED <<database, history, workers>>

\* The process dies and is started again: whatever was not committed is gone.
Restart ==
    /\ MayRestart
    /\ submission' = [p \in Submissions |-> IdleSubmission]
    /\ request' = [b \in Requests |-> IdleRequest]
    /\ sweep' = [w \in Sweeps |-> IdleSweep]
    /\ delivery' = [w \in Workers |-> NoDelivery]
    /\ UNCHANGED <<now, database, history>>

SubmissionStep(p) ==
    \/ \E i \in Invitations : BeginSubmit(p, i)
    \/ FinishSubmit(p)
    \/ RefuseSubmit(p)

InvitationStep(b) ==
    \/ \E i \in Invitations : Invite(b, i) \/ Resend(b, i) \/ BeginCancel(b, i)
    \/ MailLink(b) \/ RecordLink(b) \/ LoseLink(b)
    \/ FinishCancel(b) \/ LoseCancel(b)

\* The buyer's operations that take effect in one commit, with nothing in between.
BuyerStep ==
    \/ \E i \in Invitations : DeleteInvitation(i) \/ EditQuote(i) \/ DeleteQuote(i)
    \/ \E status \in RfqStatuses : SetRfqStatus(status)

FollowUpStep(b) ==
    \/ \E r \in Rows : Approve(b, r) \/ BeginReject(b, r)
    \/ FinishReject(b)
    \/ \E i \in Invitations : ManualCustom(b, i) \/ BeginManual(b, i)
    \/ DraftManual(b) \/ QueueManual(b) \/ LoseManual(b)

DeliveryStep(w) == DeliverMail(w) \/ DeliverCount(w) \/ DeliverCommit(w) \/ LoseDelivery(w)

\* A sweep that has begun goes on.
SweepGoesOn(w) ==
    \/ SweepExpire(w) \/ SweepScan(w)
    \/ \E i \in Invitations : SweepConsider(w, i)
    \/ SweepDraft(w) \/ SweepDies(w) \/ SweepEnd(w)

Next ==
    \/ Tick
    \/ Restart
    \/ \E p \in Submissions : SubmissionStep(p)
    \/ BuyerStep
    \/ \E b \in Requests : InvitationStep(b) \/ FollowUpStep(b)
    \/ \E w \in Workers : DeliveryStep(w)
    \/ \E w \in Sweeps : SweepBegin(w, "expire")
    \/ \E w \in Sweeps \ Timers : SweepBegin(w, "expireOnly")
    \/ \E w \in Sweeps : SweepGoesOn(w)

Spec == Init /\ [][Next]_vars

(***************************************************************************)
(* What the code's scheduling justifies. The timer starts the next sweep   *)
(* FOLLOWUP_CHECK_INTERVAL_MINUTES after the last one came back, and time  *)
(* passes. A sweep is a thread of its own that waits for its own calls     *)
(* only: the calls to the email provider have a timeout, and the database  *)
(* answers. The message is another matter: _draft_sync runs the agent on a *)
(* private event loop, and there the client's lock and semaphore may keep  *)
(* it waiting for ever (module LlmClient). So nothing is assumed of a      *)
(* sweep that drafts, of the suppliers or of the buyer.                    *)
(***************************************************************************)
SweepProceeds(w) == sweep[w].pc # "draft" /\ SweepGoesOn(w)

Fairness ==
    /\ WF_vars(Tick)
    /\ \A w \in Timers : WF_vars(SweepBegin(w, "expire"))
    /\ \A w \in Sweeps : WF_vars(SweepProceeds(w)) /\ WF_vars(DeliveryStep(w))

FairSpec == Spec /\ Fairness

-----------------------------------------------------------------------------
TypeOK ==
    /\ now \in Nat
    /\ rfq \in RfqStatuses
    /\ invitation \in [Invitations -> InvitationRow]
    /\ quotes \in [Invitations -> Seq(Quote)]
    /\ followups \in [Rows -> FollowUpRow]
    /\ mailed \in [Rows -> Nat]
    /\ consent \in SUBSET Rows
    /\ submission \in [Submissions -> SubmissionState]
    /\ request \in [Requests -> RequestState]
    /\ sweep \in [Sweeps -> SweepState]
    /\ delivery \in [Workers -> DeliveryState]

(***************************************************************************)
(* What a worker holds between two steps refers to rows that were issued.  *)
(***************************************************************************)
Issued(r) == r \in Rows /\ followups[r].status # "none"

RowHolds(row) == row.status # "none" => row.inv \in Invitations

SubmissionHolds(s) == s.pc = "parsing" => s.inv \in Invitations

RequestHolds(q) ==
    /\ q.pc \in {"mail", "send", "cancel", "draft"} => q.inv \in Invitations
    /\ q.pc \in {"reject", "queue"} => Issued(q.row)
    /\ q.pc = "send" => q.outcome # "none"

SweepHolds(s) == s.pc = "draft" => s.item \in Invitations

DeliveryHolds(d) ==
    /\ d.pc # "none" => Issued(d.row)
    /\ d.pc \in {"count", "commit"} => d.outcome # "none"

HeldRowsIssued ==
    /\ \A r \in Rows : RowHolds(followups[r])
    /\ \A p \in Submissions : SubmissionHolds(submission[p])
    /\ \A b \in Requests : RequestHolds(request[b])
    /\ \A w \in Sweeps : SweepHolds(sweep[w])
    /\ \A w \in Workers : DeliveryHolds(delivery[w])

(***************************************************************************)
(* What a delivery knows of its message: an outcome read as accepted was   *)
(* accepted, and with automatic sending off the buyer asked for it.        *)
(***************************************************************************)
DeliveryTrue(d) ==
    d.pc # "none" =>
    /\ d.outcome = "sent" => mailed[d.row] > 0
    /\ ~AutoSend => d.row \in consent

DeliveriesTrue == \A w \in Workers : DeliveryTrue(delivery[w])

-----------------------------------------------------------------------------
(***************************************************************************)
(* However many submissions of one link are parsed at the same time, an    *)
(* invitation never has two quotes: upsert_quote looks for the quote to    *)
(* amend after the parse, not before it.                                   *)
(***************************************************************************)
OneQuotePerInvitation == \A i \in Invitations : Len(quotes[i]) <= 1

(***************************************************************************)
(* An invitation that counts as answered has an answer, unless the buyer   *)
(* deletes quotes: neither a refused submission, nor a resend, a sweep or  *)
(* a withdrawal that ran meanwhile, leaves the status without the quote.   *)
(***************************************************************************)
AnsweredMeansQuoted ==
    "deleteQuote" \notin BuyerOps =>
    \A i \in Invitations :
        invitation[i].status \in {"submitted", "incomplete"} => HasQuote(i)

(***************************************************************************)
(* A supplier is chased by the scheduler only after an email with the link *)
(* was accepted: a failed first send never starts the reminder clock.      *)
(***************************************************************************)
AutoRow(r) == HasRow(r) /\ followups[r].auto

ChasedMeansInvited ==
    StartInvitation.lastSent = None =>
    \A r \in Rows :
        (AutoRow(r) /\ followups[r].kind \in ReminderKinds) =>
        \E q \in Rows : /\ followups[q].inv = followups[r].inv
                        /\ followups[q].kind = "manual"
                        /\ mailed[q] > 0

-----------------------------------------------------------------------------
(***************************************************************************)
(* The communication log does not claim an email that never left: a row in *)
(* status sent was accepted by the provider, whoever else approved,        *)
(* rejected, retried or deleted it in the meantime.                        *)
(***************************************************************************)
SentMeansMailed == \A r \in Rows : followups[r].status = "sent" => mailed[r] > 0

(***************************************************************************)
(* With AUTO_SEND_FOLLOWUPS off, no message leaves that the buyer has not  *)
(* asked for: a sweep only ever drafts, and a restart, a refusal or a      *)
(* queued row left behind does not turn a draft into an email.             *)
(***************************************************************************)
NothingMailedUnasked ==
    ~AutoSend => \A r \in Rows : mailed[r] > 0 => r \in consent

\* The emails of these rows, when row r was accepted times[r] times.
MailsOf(rows, times) == UNION {{r} \X (1 .. times[r]) : r \in rows}

(***************************************************************************)
(* The reminder count never exceeds the reminders the provider accepted    *)
(* for the invitation, even when two deliveries read it at once, so that   *)
(* nobody is given up on earlier than MAX_FOLLOWUPS_PER_INVITATION says.   *)
(***************************************************************************)
RemindersMailed(i) ==
    LET rows == {r \in Rows : followups[r].inv = i /\ followups[r].kind \in ReminderKinds}
    IN  Cardinality(MailsOf(rows, mailed))

RemindersNeverOvercounted ==
    \A i \in Invitations : Exists(i) => invitation[i].reminders <= RemindersMailed(i)

(***************************************************************************)
(* The buyer's queue does not fill up with copies: one driver of the sweep *)
(* keeps at most one open message of a kind for an invitation, whatever    *)
(* the buyer approves and rejects in between.                              *)
(***************************************************************************)
OpenAutoRows(i, kind) ==
    {r \in Rows : /\ AutoRow(r)
                  /\ followups[r].inv = i /\ followups[r].kind = kind
                  /\ followups[r].status \in {"draft", "queued"}}

NoDuplicateDrafts ==
    \A i \in Invitations, kind \in Kinds : Cardinality(OpenAutoRows(i, kind)) <= 1

(***************************************************************************)
(* Automatic sending emails a supplier at most once with one kind of       *)
(* message, whenever the process dies and whatever the provider refuses.   *)
(***************************************************************************)
AutoMailed(i, kind) ==
    LET rows == {r \in Rows : /\ followups[r].auto
                              /\ followups[r].inv = i /\ followups[r].kind = kind}
    IN  Cardinality(MailsOf(rows, mailed))

NeverMailedTwice ==
    \A i \in Invitations, kind \in Kinds : AutoMailed(i, kind) <= 1

(***************************************************************************)
(* A sweep asks for missing fields only when the quote it read names some  *)
(* and does not say that the supplier is waiting for the buyer.            *)
(***************************************************************************)
AskedOnlyWhatIsMissing ==
    \A r \in Rows :
        (followups[r].auto /\ followups[r].kind = "incomplete_quote") =>
        followups[r].basis = "incomplete"

(***************************************************************************)
(* open_invitations says that the policy reads the quote itself, so that a *)
(* row whose status lags behind its quote is skipped: a supplier whose     *)
(* quote was read as complete is not reminded.                             *)
(***************************************************************************)
NoReminderForCompleteQuote ==
    \A r \in Rows :
        (followups[r].auto /\ followups[r].kind \in ReminderKinds) =>
        followups[r].basis # "complete"

-----------------------------------------------------------------------------
\* What the ledger of contacts sees of a row and of a delivery.
EntryOf(r) ==
    IF followups[r].status = "none" THEN [to |-> None, kind |-> "none", auto |-> FALSE]
    ELSE [to |-> followups[r].inv, kind |-> followups[r].kind, auto |-> followups[r].auto]

AttemptOf(w) == [row |-> delivery[w].row, answer |-> delivery[w].outcome]

Contacts == INSTANCE ContactLedger WITH
    Suppliers <- Invitations,
    Buyers    <- Requests,
    Messages  <- Kinds,
    Reminders <- ReminderKinds,
    Automatic <- AutoSend,
    Nothing   <- None,
    entry     <- [r \in Rows |-> EntryOf(r)],
    attempt   <- [w \in Workers |-> AttemptOf(w)],
    accepted  <- mailed,
    claimed   <- {r \in Rows : followups[r].status = "sent"},
    forgotten <- {r \in Rows : followups[r].status = "deleted"},
    credited  <- [i \in Invitations |-> invitation[i].reminders]

(***************************************************************************)
(* Every email is on record, on somebody's word, and none is retried by    *)
(* the process on its own: the component implements the ledger of          *)
(* contacts, whatever the sweeps, the buyer's requests, deletions and      *)
(* restarts do between two steps of a delivery.                            *)
(***************************************************************************)
ContactsOnRecord == Contacts!Spec

-----------------------------------------------------------------------------
(***************************************************************************)
(* A sweep that begins comes to its end, whatever the buyer and the        *)
(* supplier change under it, unless it waits for ever for a draft: no      *)
(* invitation is looked at over and over, no delivery is left half done.   *)
(***************************************************************************)
DraftsEnd(w) == []<>(sweep[w].pc # "draft")

AllDraftsEnd == \A w \in Sweeps : DraftsEnd(w)

SweepsEnd == \A w \in Sweeps : DraftsEnd(w) => (sweep[w].pc # "idle" ~> sweep[w].pc = "idle")

(***************************************************************************)
(* A message of the scheduler has reached the supplier, or waits for the   *)
(* buyer's word. A row that was refused or left behind queued is neither.  *)
(***************************************************************************)
Reached(i, kinds) ==
    \E r \in Rows : /\ AutoRow(r) /\ followups[r].inv = i /\ followups[r].kind \in kinds
                    /\ mailed[r] > 0 \/ followups[r].status = "draft"

Silent(i) ==
    /\ invitation[i].status = "pending"
    /\ invitation[i].lastSent # None
    /\ ~HasQuote(i)

\* Silent, with the first interval over before the clock of the instance stops.
SilentInTime(i) == Silent(i) /\ invitation[i].lastSent + Thresholds[1] <= MaxTime

(***************************************************************************)
(* A supplier who got the link and stays silent is reminded eventually,    *)
(* also when the provider refuses the reminder at first, unless something  *)
(* ends the wait before or the sweep waits for ever for a draft.           *)
(***************************************************************************)
SilentSupplierReminded ==
    AllDraftsEnd =>
    \A i \in Invitations :
        SilentInTime(i) ~> (Reached(i, ReminderKinds) \/ ~SilentInTime(i))

\* The quote counts, not the status: a row that was expired over its answer and
\* sent again, or withdrawn over it and invited again, reads pending.
AwaitsFields(i) ==
    /\ invitation[i].status \in {"pending", "incomplete"}
    /\ \E q \in QuotesOf(i) : q.completeness = "incomplete" /\ ~q.blocked

(***************************************************************************)
(* A supplier who left required fields blank is asked for them eventually, *)
(* also when the status of the invitation lags behind the quote and when   *)
(* the provider refuses at first, unless the quote or the status changes   *)
(* before or the sweep waits for ever for a draft.                         *)
(***************************************************************************)
IncompleteQuoteChased ==
    AllDraftsEnd =>
    \A i \in Invitations :
        AwaitsFields(i) ~> (Reached(i, {"incomplete_quote"}) \/ ~AwaitsFields(i))

(***************************************************************************)
(* FOLLOWUP_INTERVALS_HOURS has one entry per reminder: a supplier who     *)
(* stays silent after the first reminder gets the second, unless a sweep   *)
(* waits for ever for its draft.                                           *)
(***************************************************************************)
SecondReminder ==
    AllDraftsEnd =>
    \A i \in Invitations :
        (Silent(i) /\ invitation[i].reminders = 1) ~>
        (invitation[i].reminders > 1 \/ ~Silent(i))

(***************************************************************************)
(* expire_overdue closes RFQs past their deadline, if the sweeps come to   *)
(* it, that is unless one waits for ever for a draft.                      *)
(***************************************************************************)
OverdueRfqCloses ==
    AllDraftsEnd => ((rfq = "open" /\ DeadlinePassed(now)) ~> rfq # "open")
=============================================================================
