--------------------------- MODULE SchedulerSweep ---------------------------
(***************************************************************************)
(* run_scheduler: one pass over the open invitations. It is started by the *)
(* timer of the process and by POST /internal/scheduler/tick from outside, *)
(* in two threads that know nothing of each other. POST /internal/expire   *)
(* does the first part alone.                                              *)
(***************************************************************************)
EXTENDS FollowUpOps

(***************************************************************************)
(* open_invitations: by exclusion, the oldest SweepLimit of them.          *)
(***************************************************************************)
OpenInvitations ==
    {i \in Invitations : Exists(i) /\ invitation[i].status \notin TerminalStatuses}

Scanned ==
    {i \in OpenInvitations :
        Cardinality({j \in OpenInvitations : j < i}) < SweepLimit}

-----------------------------------------------------------------------------
\* The open invitations without a quote whose link or deadline is over.
Overdue(at) ==
    {i \in Scanned : /\ ~HasQuote(i)
                     /\ LinkExpired(invitation[i].expires, at) \/ DeadlinePassed(at)}

SweepBegin(w, next) ==
    /\ sweep[w].pc = "idle"
    /\ next \in {"expire", "expireOnly"}
    /\ sweep' = [sweep EXCEPT
           ![w] = [IdleSweep EXCEPT !.pc = next, !.at = now, !.overdue = Overdue(now)]]
    /\ UNCHANGED <<now, database, history, submission, request, delivery>>

(***************************************************************************)
(* expire_overdue commits. RFQs past their deadline are closed only by a   *)
(* pass that expires some invitation. A row that is gone ends the sweep.   *)
(***************************************************************************)
SweepExpire(w) ==
    LET overdue == sweep[w].overdue
        gone    == \E i \in overdue : ~Exists(i)
    IN  /\ sweep[w].pc \in {"expire", "expireOnly"}
        /\ IF overdue = {} \/ gone
           THEN UNCHANGED <<invitation, rfq>>
           ELSE /\ invitation' = [i \in Invitations |->
                       IF i \in overdue THEN [invitation[i] EXCEPT !.status = "expired"]
                                        ELSE invitation[i]]
                /\ rfq' = IF rfq = "open" /\ DeadlinePassed(sweep[w].at)
                          THEN "closed" ELSE rfq
        /\ sweep' = IF sweep[w].pc = "expire" /\ ~gone
                    THEN [sweep EXCEPT ![w].pc = "scan", ![w].overdue = {}]
                    ELSE [sweep EXCEPT ![w] = IdleSweep]
        /\ UNCHANGED <<now, quotes, followups, history, submission, request, delivery>>

\* The list is loaded; its rows stay as read until this session commits.
SweepScan(w) ==
    /\ sweep[w].pc = "scan"
    /\ sweep' = [sweep EXCEPT
           ![w].pc = "items",
           ![w].todo = Scanned,
           ![w].seen = [i \in Invitations |->
                            IF i \in Scanned THEN invitation[i] ELSE None]]
    /\ UNCHANGED <<now, database, history, submission, request, delivery>>

-----------------------------------------------------------------------------
\* The invitations are looked at in the order of their ids.
IsNext(w, i) == i \in sweep[w].todo /\ \A j \in sweep[w].todo : i <= j

\* The session's row of i: as it was listed, or read again since the last commit.
Row(w, i) == IF sweep[w].seen[i] = None THEN invitation[i] ELSE sweep[w].seen[i]

\* _count_incomplete_reminders
AskedFor(i) ==
    Cardinality({r \in Rows : /\ followups[r].inv = i
                              /\ followups[r].kind = "incomplete_quote"
                              /\ followups[r].status \in {"sent", "queued"}})

\* Mutant: a row left behind in status queued is not taken for a duplicate.
Duplicate_ignoresQueued(i, kind) ==
    \E r \in Rows : /\ followups[r].inv = i
                    /\ followups[r].kind = kind
                    /\ followups[r].status \in {"draft", "sent"}

\* Mutant: only what was sent is taken for a duplicate.
Duplicate_sentOnly(i, kind) ==
    \E r \in Rows : /\ followups[r].inv = i
                    /\ followups[r].kind = kind
                    /\ followups[r].status = "sent"

\* Mutant: a row the provider refused is taken for a duplicate as well.
Duplicate_countsFailed(i, kind) ==
    \E r \in Rows : /\ followups[r].inv = i
                    /\ followups[r].kind = kind
                    /\ followups[r].status \in {"draft", "queued", "sent", "failed"}

\* find_recent_duplicate: however long ago the message was.
Duplicate(i, kind) ==
    \E r \in Rows : /\ followups[r].inv = i
                    /\ followups[r].kind = kind
                    /\ followups[r].status \in {"draft", "queued", "sent"}

(***************************************************************************)
(* build_snapshot: the invitation as the session holds it, the quote and   *)
(* the requests already made as they are now.                              *)
(***************************************************************************)
Snapshot(i, row, quote) ==
    [status |-> row.status, deadline |-> Deadline,
     blocked |-> quote # None /\ quote.blocked,
     completeness |-> IF quote = None THEN "none" ELSE quote.completeness,
     missing |-> quote # None /\ quote.completeness = "incomplete",
     asked |-> AskedFor(i), highRisk |-> i \in HighRisk,
     reminders |-> row.reminders, lastSent |-> row.lastSent, expires |-> row.expires]

FoundQuotes(i) == IF HasQuote(i) THEN QuotesOf(i) ELSE {None}

BasisOf(quote) ==
    IF quote = None THEN "none" ELSE IF quote.blocked THEN "blocked" ELSE quote.completeness

\* Mutant: an invitation that is skipped stays on the list.
SweepConsider_keepsSkipped(w, i) ==
    /\ sweep[w].pc = "items"
    /\ ~Delivering(w)
    /\ IsNext(w, i)
    /\ Present(Row(w, i))
    /\ \E quote \in FoundQuotes(i) :
         LET decision == Decide(Snapshot(i, Row(w, i), quote), sweep[w].at)
         IN  /\ IsActionable(decision) /\ ~Duplicate(i, decision.kind)
             /\ sweep' = [sweep EXCEPT ![w].pc = "draft", ![w].item = i,
                                       ![w].kind = decision.kind,
                                       ![w].basis = BasisOf(quote)]
    /\ UNCHANGED <<now, database, history, submission, request, delivery>>

(***************************************************************************)
(* The next invitation of the list: decide(), then the duplicate check.    *)
(* An invitation that is skipped leaves the list here.                     *)
(***************************************************************************)
SweepConsider(w, i) ==
    /\ sweep[w].pc = "items"
    /\ ~Delivering(w)
    /\ IsNext(w, i)
    /\ Present(Row(w, i))
    /\ \E quote \in FoundQuotes(i) :
         LET decision == Decide(Snapshot(i, Row(w, i), quote), sweep[w].at)
         IN  sweep' =
               IF IsActionable(decision) /\ ~Duplicate(i, decision.kind)
               THEN [sweep EXCEPT ![w].pc = "draft", ![w].item = i,
                                  ![w].kind = decision.kind,
                                  ![w].basis = BasisOf(quote)]
               ELSE [sweep EXCEPT ![w].todo = @ \ {i}]
    /\ UNCHANGED <<now, database, history, submission, request, delivery>>

\* Mutant: the setting that leaves sending to the buyer is not looked at.
SweepDraft_sendsAlways(w) ==
    LET i == sweep[w].item
    IN  /\ sweep[w].pc = "draft"
        /\ Exists(i)
        /\ \E r \in Rows :
             /\ NewRow(r)
             /\ followups' = [followups EXCEPT
                    ![r] = FollowUp(i, sweep[w].kind, "queued", TRUE, sweep[w].basis)]
             /\ StartDelivery(w, r, "queued")
        /\ sweep' = [sweep EXCEPT
               ![w].pc = "items", ![w].todo = @ \ {i}, ![w].item = None,
               ![w].kind = "none", ![w].basis = "none",
               ![w].seen = [j \in Invitations |-> None]]
        /\ UNCHANGED <<now, rfq, invitation, quotes, history, submission, request>>

(***************************************************************************)
(* create_draft: the message has been written, by the agent or from the    *)
(* template; the row is inserted and, when sending is automatic, delivered *)
(* at once. Its commit makes the session read every listed row again.      *)
(***************************************************************************)
SweepDraft(w) ==
    LET i == sweep[w].item
    IN  /\ sweep[w].pc = "draft"
        /\ Exists(i)
        /\ \E r \in Rows :
             /\ NewRow(r)
             /\ followups' = [followups EXCEPT
                    ![r] = FollowUp(i, sweep[w].kind,
                                    IF AutoSend THEN "queued" ELSE "draft",
                                    TRUE, sweep[w].basis)]
             /\ IF AutoSend THEN StartDelivery(w, r, "queued") ELSE UNCHANGED delivery
        /\ sweep' = [sweep EXCEPT
               ![w].pc = "items", ![w].todo = @ \ {i}, ![w].item = None,
               ![w].kind = "none", ![w].basis = "none",
               ![w].seen = [j \in Invitations |-> None]]
        /\ UNCHANGED <<now, rfq, invitation, quotes, history, submission, request>>

\* The invitation it is about to read or to write about was deleted: the sweep ends.
SweepDies(w) ==
    /\ \/ /\ sweep[w].pc = "items" /\ ~Delivering(w)
          /\ \E i \in sweep[w].todo : IsNext(w, i) /\ ~Present(Row(w, i))
       \/ sweep[w].pc = "draft" /\ ~Exists(sweep[w].item)
    /\ sweep' = [sweep EXCEPT ![w] = IdleSweep]
    /\ UNCHANGED <<now, database, history, submission, request, delivery>>

SweepEnd(w) ==
    /\ sweep[w].pc = "items"
    /\ sweep[w].todo = {}
    /\ ~Delivering(w)
    /\ sweep' = [sweep EXCEPT ![w] = IdleSweep]
    /\ UNCHANGED <<now, database, history, submission, request, delivery>>
=============================================================================
