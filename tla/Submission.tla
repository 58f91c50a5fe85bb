----------------------------- MODULE Submission -----------------------------
(***************************************************************************)
(* The public form: a supplier submits a quote, or amends it, through the  *)
(* secret link. submit_quote and PublicFormService.submit are coroutines.  *)
(* They check the link, then await the language model that parses the      *)
(* supplier's words; upsert_quote runs after that await, in one piece as   *)
(* far as the event loop's other submissions can tell.                     *)
(***************************************************************************)
EXTENDS OutreachState

\* InvitationService.assert_usable, on the rows as they are now.
Usable(i) ==
    /\ Exists(i)
    /\ invitation[i].status # "cancelled"
    /\ ~LinkExpired(invitation[i].expires, now)
    /\ rfq # "cancelled"

\* The link is checked and the parse begins; the session keeps what it read.
BeginSubmit(p, i) ==
    /\ submission[p].pc = "idle"
    /\ Usable(i)
    /\ submission' = [submission EXCEPT
           ![p] = [pc |-> "parsing", inv |-> i, seen |-> invitation[i].status]]
    /\ UNCHANGED <<now, database, history, request, sweep, delivery>>

Upsert(i, answer) ==
    IF HasQuote(i) THEN [quotes[i] EXCEPT ![1] = answer] ELSE <<answer>>

\* Mutant: the quote to amend is looked for before the parse, by the status loaded then.
FinishSubmit_earlyLookup(p) ==
    LET i == submission[p].inv
    IN  /\ submission[p].pc = "parsing"
        /\ Exists(i)
        /\ \E answer \in Answers :
             /\ quotes' = [quotes EXCEPT
                    ![i] = IF submission[p].seen \in {"submitted", "incomplete"}
                           THEN Upsert(i, answer) ELSE Append(quotes[i], answer)]
             /\ invitation' = [invitation EXCEPT
                    ![i].status = IF answer.completeness = "complete"
                                  THEN "submitted" ELSE "incomplete"]
        /\ submission' = [submission EXCEPT ![p] = IdleSubmission]
        /\ UNCHANGED <<now, rfq, followups, history, request, sweep, delivery>>

\* Mutant: the invitation's status is the quote's completeness, word for word.
FinishSubmit_copiesCompleteness(p) ==
    LET i == submission[p].inv
    IN  /\ submission[p].pc = "parsing"
        /\ Exists(i)
        /\ \E answer \in Answers :
             /\ quotes' = [quotes EXCEPT ![i] = Upsert(i, answer)]
             /\ invitation' = [invitation EXCEPT ![i].status = answer.completeness]
        /\ submission' = [submission EXCEPT ![p] = IdleSubmission]
        /\ UNCHANGED <<now, rfq, followups, history, request, sweep, delivery>>

(***************************************************************************)
(* upsert_quote: the quote is looked up only now, then created or amended; *)
(* the invitation's status follows the answer, whatever it has become in   *)
(* the meantime.                                                           *)
(***************************************************************************)
FinishSubmit(p) ==
    LET i == submission[p].inv
    IN  /\ submission[p].pc = "parsing"
        /\ Exists(i)
        /\ \E answer \in Answers :
             LET status == IF answer.completeness = "complete"
                           THEN "submitted" ELSE "incomplete"
             IN  /\ quotes' = [quotes EXCEPT ![i] = Upsert(i, answer)]
                 /\ invitation' = [invitation EXCEPT
                        ![i].status = Written(@, submission[p].seen, status)]
        /\ submission' = [submission EXCEPT ![p] = IdleSubmission]
        /\ UNCHANGED <<now, rfq, followups, history, request, sweep, delivery>>

\* Mutant: the status is set before the quote is known to be acceptable.
RefuseSubmit_marksSubmitted(p) ==
    LET i == submission[p].inv
    IN  /\ submission[p].pc = "parsing"
        /\ invitation' = IF Exists(i)
                         THEN [invitation EXCEPT ![i].status = "submitted"]
                         ELSE invitation
        /\ submission' = [submission EXCEPT ![p] = IdleSubmission]
        /\ UNCHANGED <<now, rfq, quotes, followups, history, request, sweep, delivery>>

(***************************************************************************)
(* The submission is refused after the parse (no price, or attachments     *)
(* that cannot be resolved), or its invitation is gone: nothing is stored. *)
(***************************************************************************)
RefuseSubmit(p) ==
    /\ submission[p].pc = "parsing"
    /\ submission' = [submission EXCEPT ![p] = IdleSubmission]
    /\ UNCHANGED <<now, database, history, request, sweep, delivery>>
=============================================================================
