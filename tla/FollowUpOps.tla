----------------------------- MODULE FollowUpOps ----------------------------
(***************************************************************************)
(* Follow-up rows: the buyer approves or rejects a draft, or asks for a    *)
(* message right now; a request and a sweep deliver in the same three      *)
(* steps (the email, the reminder count read, the commit).                 *)
(***************************************************************************)
EXTENDS OutreachState

StartDelivery(w, r, status) ==
    delivery' = [delivery EXCEPT
        ![w] = [NoDelivery EXCEPT !.pc = "mail", !.row = r, !.seen = status]]

\* Mutant: a row that was sent may be approved and sent again.
Approve_sentAgain(b, r) ==
    /\ Uses("approve")
    /\ Idle(b)
    /\ HasRow(r)
    /\ followups[r].status # "rejected"
    /\ StartDelivery(b, r, followups[r].status)
    /\ consent' = consent \union {r}
    /\ UNCHANGED <<now, database, mailed, submission, request, sweep>>

(***************************************************************************)
(* approve: refused for a sent or rejected row; a draft, a queued row left *)
(* behind and a failed one are delivered. Neither the policy nor the       *)
(* invitation is consulted again.                                          *)
(***************************************************************************)
Approve(b, r) ==
    /\ Uses("approve")
    /\ Idle(b)
    /\ HasRow(r)
    /\ followups[r].status \notin {"sent", "rejected"}
    /\ StartDelivery(b, r, followups[r].status)
    /\ consent' = consent \union {r}
    /\ UNCHANGED <<now, database, mailed, submission, request, sweep>>

\* reject: refused for a sent row.
BeginReject(b, r) ==
    /\ Uses("reject")
    /\ Idle(b)
    /\ HasRow(r)
    /\ followups[r].status # "sent"
    /\ request' = [request EXCEPT ![b] =
           [IdleRequest EXCEPT !.pc = "reject", !.row = r,
                               !.seen = followups[r].status]]
    /\ UNCHANGED <<now, database, history, submission, sweep, delivery>>

FinishReject(b) ==
    LET r == request[b].row
    IN  /\ request[b].pc = "reject"
        /\ followups' = IF HasRow(r)
                        THEN [followups EXCEPT
                                ![r].status = Written(@, request[b].seen, "rejected")]
                        ELSE followups
        /\ request' = [request EXCEPT ![b] = IdleRequest]
        /\ UNCHANGED <<now, rfq, invitation, quotes, history, submission, sweep,
                       delivery>>

-----------------------------------------------------------------------------
(***************************************************************************)
(* create_manual, mode "custom": the buyer's own words go out at once.     *)
(***************************************************************************)
ManualCustom(b, i) ==
    /\ Uses("manual")
    /\ Idle(b)
    /\ Exists(i)
    /\ \E r \in Rows :
         /\ NewRow(r)
         /\ followups' = [followups EXCEPT
                ![r] = FollowUp(i, "manual", "queued", FALSE, "none")]
         /\ StartDelivery(b, r, "queued")
         /\ consent' = consent \union {r}
    /\ UNCHANGED <<now, rfq, invitation, quotes, mailed, submission, request, sweep>>

(***************************************************************************)
(* create_manual, modes "reminder" and "incomplete": the agent writes the  *)
(* message, which takes a while. Only mode "incomplete" looks at the quote.*)
(***************************************************************************)
BeginManual(b, i) ==
    /\ Uses("manual")
    /\ Idle(b)
    /\ Exists(i)
    /\ \E kind \in {"no_response", "incomplete_quote"} :
         /\ kind = "incomplete_quote" =>
              \E q \in QuotesOf(i) : q.completeness = "incomplete"
         /\ request' = [request EXCEPT ![b] =
                [IdleRequest EXCEPT !.pc = "draft", !.inv = i, !.kind = kind]]
    /\ UNCHANGED <<now, database, history, submission, sweep, delivery>>

\* create_draft
DraftManual(b) ==
    LET i == request[b].inv
    IN  /\ request[b].pc = "draft"
        /\ Exists(i)
        /\ \E r \in Rows :
             /\ NewRow(r)
             /\ followups' = [followups EXCEPT
                    ![r] = FollowUp(i, request[b].kind,
                                    IF AutoSend THEN "queued" ELSE "draft",
                                    FALSE, "none")]
             /\ request' = [request EXCEPT ![b].pc = "queue", ![b].row = r]
        /\ UNCHANGED <<now, rfq, invitation, quotes, history, submission, sweep,
                       delivery>>

\* The row becomes queued; it is delivered now or left for the buyer to approve.
QueueManual(b) ==
    LET r == request[b].row
    IN  /\ request[b].pc = "queue"
        /\ HasRow(r)
        /\ followups' = [followups EXCEPT ![r].status = "queued"]
        /\ request' = [request EXCEPT ![b] = IdleRequest]
        /\ \E sendNow \in BOOLEAN :
             IF sendNow
             THEN StartDelivery(b, r, "queued") /\ consent' = consent \union {r}
             ELSE UNCHANGED <<delivery, consent>>
        /\ UNCHANGED <<now, rfq, invitation, quotes, mailed, submission, sweep>>

\* The invitation was deleted under a manual follow-up.
LoseManual(b) ==
    /\ \/ request[b].pc = "draft" /\ ~Exists(request[b].inv)
       \/ request[b].pc = "queue" /\ ~HasRow(request[b].row)
    /\ request' = [request EXCEPT ![b] = IdleRequest]
    /\ UNCHANGED <<now, database, history, submission, sweep, delivery>>

-----------------------------------------------------------------------------
(***************************************************************************)
(* _deliver: the provider accepts or refuses the message. Nothing of it is *)
(* in the database yet.                                                    *)
(***************************************************************************)
DeliverMail(w) ==
    LET r == delivery[w].row
    IN  /\ delivery[w].pc = "mail"
        /\ mailed[r] < MaxMail
        /\ \/ /\ mailed' = [mailed EXCEPT ![r] = @ + 1]
              /\ delivery' = [delivery EXCEPT ![w].outcome = "sent", ![w].pc = "count"]
           \/ /\ MayRefuse
              /\ mailed' = mailed
              /\ delivery' = [delivery EXCEPT ![w].outcome = "failed",
                                              ![w].pc = "commit"]
        /\ UNCHANGED <<now, database, consent, submission, request, sweep>>

\* followup.invitation is loaded after the email, and its count with it.
DeliverCount(w) ==
    /\ delivery[w].pc = "count"
    /\ delivery' = [delivery EXCEPT
           ![w].count = IF HasRow(delivery[w].row)
                        THEN invitation[followups[delivery[w].row].inv].reminders ELSE 0,
           ![w].pc = "commit"]
    /\ UNCHANGED <<now, database, history, submission, request, sweep>>

\* Mutant: a failed attempt counts as a reminder too.
DeliverCommit_countsFailures(w) ==
    LET r == delivery[w].row
        i == followups[r].inv
    IN  /\ delivery[w].pc = "commit"
        /\ HasRow(r)
        /\ followups' = [followups EXCEPT
               ![r].status = Written(@, delivery[w].seen, delivery[w].outcome)]
        /\ invitation' = IF followups[r].kind \in ReminderKinds
                         THEN [invitation EXCEPT ![i].reminders = delivery[w].count + 1]
                         ELSE invitation
        /\ delivery' = [delivery EXCEPT ![w] = NoDelivery]
        /\ UNCHANGED <<now, rfq, quotes, history, submission, request, sweep>>

(***************************************************************************)
(* The outcome on the row and, for an accepted reminder, the count read    *)
(* before plus one, in one commit.                                         *)
(***************************************************************************)
DeliverCommit(w) ==
    LET r == delivery[w].row
        i == followups[r].inv
        counts == delivery[w].outcome = "sent" /\ followups[r].kind \in ReminderKinds
    IN  /\ delivery[w].pc = "commit"
        /\ HasRow(r)
        /\ followups' = [followups EXCEPT
               ![r].status = Written(@, delivery[w].seen, delivery[w].outcome)]
        /\ invitation' = IF counts
                         THEN [invitation EXCEPT ![i].reminders = delivery[w].count + 1]
                         ELSE invitation
        /\ delivery' = [delivery EXCEPT ![w] = NoDelivery]
        /\ UNCHANGED <<now, rfq, quotes, history, submission, request, sweep>>

(***************************************************************************)
(* The row was deleted with its invitation: the commit fails, nothing is   *)
(* recorded, and a sweep ends with the exception.                          *)
(***************************************************************************)
LoseDelivery(w) ==
    /\ delivery[w].pc = "commit"
    /\ ~HasRow(delivery[w].row)
    /\ delivery' = [delivery EXCEPT ![w] = NoDelivery]
    /\ sweep' = [v \in Sweeps |-> IF v = w THEN IdleSweep ELSE sweep[v]]
    /\ UNCHANGED <<now, database, history, submission, request>>
=============================================================================
