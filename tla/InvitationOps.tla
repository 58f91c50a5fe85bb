---------------------------- MODULE InvitationOps ---------------------------
(***************************************************************************)
(* What the buyer does to invitations and to the quotes that answer them:  *)
(* invite or reinstate, send and resend the link, withdraw, delete; edit   *)
(* or delete a quote; change the RFQ's status.                             *)
(***************************************************************************)
EXTENDS OutreachState

\* A request that answers with an error, or dies on a row that is gone.
DropRequest(b) ==
    /\ request' = [request EXCEPT ![b] = IdleRequest]
    /\ UNCHANGED <<now, database, history, submission, sweep, delivery>>

(***************************************************************************)
(* InvitationService.create: a new row, or a cancelled one put back to     *)
(* pending; any other row is a conflict. With send_now the same request    *)
(* goes on to send the link.                                               *)
(***************************************************************************)
Invite(b, i) ==
    /\ Uses("invite")
    /\ Idle(b)
    /\ invitation[i].status \in {"absent", "cancelled"}
    /\ invitation' = [invitation EXCEPT
           ![i].status = "pending", ![i].expires = DefaultExpiry]
    /\ \E sendNow \in BOOLEAN :
         request' = IF sendNow
                    THEN [request EXCEPT ![b] =
                            [IdleRequest EXCEPT !.pc = "mail", !.inv = i,
                                                !.seen = "pending"]]
                    ELSE request
    /\ UNCHANGED <<now, rfq, quotes, followups, history, submission, sweep, delivery>>

(***************************************************************************)
(* resend: refused for a submitted invitation only. A link that has        *)
(* expired gets a fresh window, written with the outcome of the send.      *)
(***************************************************************************)
Resend(b, i) ==
    /\ Uses("resend")
    /\ Idle(b)
    /\ Exists(i)
    /\ invitation[i].status # "submitted"
    /\ request' = [request EXCEPT ![b] =
           [IdleRequest EXCEPT
              !.pc = "mail", !.inv = i, !.seen = invitation[i].status,
              !.renew = IF LinkExpired(invitation[i].expires, now)
                        THEN now + LinkTTL ELSE None]]
    /\ UNCHANGED <<now, database, history, submission, sweep, delivery>>

\* send: the email goes out first.
MailLink(b) ==
    /\ request[b].pc = "mail"
    /\ \E outcome \in {"sent", "failed"} :
         /\ outcome = "failed" => MayRefuse
         /\ request' = [request EXCEPT ![b].pc = "send", ![b].outcome = outcome]
    /\ UNCHANGED <<now, database, history, submission, sweep, delivery>>

\* Mutant: a link the provider refused is dated as sent.
RecordLink_datesFailures(b) ==
    LET i == request[b].inv
        accepted == request[b].outcome = "sent"
    IN  /\ request[b].pc = "send"
        /\ Exists(i)
        /\ \E r \in Rows :
             /\ NewRow(r)
             /\ followups' = [followups EXCEPT
                    ![r] = FollowUp(i, "manual", request[b].outcome, FALSE, "none")]
             /\ mailed' = IF accepted THEN [mailed EXCEPT ![r] = @ + 1] ELSE mailed
             /\ consent' = consent \union {r}
        /\ invitation' = [invitation EXCEPT
               ![i].expires  = IF request[b].renew # None THEN request[b].renew ELSE @,
               ![i].lastSent = now,
               ![i].status   = IF accepted /\ request[b].seen = "expired"
                               THEN "pending" ELSE @]
        /\ request' = [request EXCEPT ![b] = IdleRequest]
        /\ UNCHANGED <<now, rfq, quotes, submission, sweep, delivery>>

(***************************************************************************)
(* send: the row of kind manual and the invitation's dates, in one commit. *)
(* Whether the invitation had expired is read from what was loaded before  *)
(* the email.                                                              *)
(***************************************************************************)
RecordLink(b) ==
    LET i == request[b].inv
        accepted == request[b].outcome = "sent"
    IN  /\ request[b].pc = "send"
        /\ Exists(i)
        /\ \E r \in Rows :
             /\ NewRow(r)
             /\ followups' = [followups EXCEPT
                    ![r] = FollowUp(i, "manual", request[b].outcome, FALSE, "none")]
             /\ mailed' = IF accepted THEN [mailed EXCEPT ![r] = @ + 1] ELSE mailed
             /\ consent' = consent \union {r}
        /\ invitation' = [invitation EXCEPT
               ![i].expires  = IF request[b].renew # None THEN request[b].renew ELSE @,
               ![i].lastSent = IF accepted THEN now ELSE @,
               ![i].status   = IF accepted /\ request[b].seen = "expired"
                               THEN "pending" ELSE @]
        /\ request' = [request EXCEPT ![b] = IdleRequest]
        /\ UNCHANGED <<now, rfq, quotes, submission, sweep, delivery>>

\* The invitation was deleted while its link was being mailed.
LoseLink(b) ==
    /\ request[b].pc = "send"
    /\ ~Exists(request[b].inv)
    /\ DropRequest(b)

(***************************************************************************)
(* cancel_invitation: refused once a quote is there.                       *)
(***************************************************************************)
BeginCancel(b, i) ==
    /\ Uses("cancel")
    /\ Idle(b)
    /\ Exists(i)
    /\ ~HasQuote(i)
    /\ request' = [request EXCEPT ![b] =
           [IdleRequest EXCEPT !.pc = "cancel", !.inv = i,
                               !.seen = invitation[i].status]]
    /\ UNCHANGED <<now, database, history, submission, sweep, delivery>>

FinishCancel(b) ==
    LET i == request[b].inv
    IN  /\ request[b].pc = "cancel"
        /\ Exists(i)
        /\ invitation' = [invitation EXCEPT
               ![i].status = Written(@, request[b].seen, "cancelled")]
        /\ request' = [request EXCEPT ![b] = IdleRequest]
        /\ UNCHANGED <<now, rfq, quotes, followups, history, submission, sweep,
                       delivery>>

LoseCancel(b) ==
    /\ request[b].pc = "cancel"
    /\ ~Exists(request[b].inv)
    /\ DropRequest(b)

(***************************************************************************)
(* delete_invitation: the follow-ups go with the row, the quote stays but  *)
(* is no longer attached to it.                                            *)
(***************************************************************************)
DeleteInvitation(i) ==
    /\ Uses("delete")
    /\ Exists(i)
    /\ invitation' = [invitation EXCEPT ![i] = [AbsentInvitation EXCEPT !.status = "deleted"]]
    /\ quotes' = [quotes EXCEPT ![i] = <<>>]
    /\ followups' = [r \in Rows |->
           IF followups[r].inv = i THEN [followups[r] EXCEPT !.status = "deleted"]
                                   ELSE followups[r]]
    /\ UNCHANGED <<now, rfq, history, workers>>

(***************************************************************************)
(* update_quote: the fields change and completeness is evaluated again;    *)
(* the invitation's status is not looked at.                               *)
(***************************************************************************)
EditQuote(i) ==
    /\ Uses("editQuote")
    /\ HasQuote(i)
    /\ \E c \in Completeness :
         LET edited == [quotes[i][1] EXCEPT !.completeness = c]
         IN  quotes' = [quotes EXCEPT ![i] = [@ EXCEPT ![1] = edited]]
    /\ UNCHANGED <<now, rfq, invitation, followups, history, workers>>

DeleteQuote(i) ==
    /\ Uses("deleteQuote")
    /\ HasQuote(i)
    /\ quotes' = [quotes EXCEPT ![i] = Tail(@)]
    /\ UNCHANGED <<now, rfq, invitation, followups, history, workers>>

\* RFQService.update: the buyer may set any status.
SetRfqStatus(status) ==
    /\ Uses("rfq")
    /\ rfq' = status
    /\ UNCHANGED <<now, invitation, quotes, followups, history, workers>>
=============================================================================
