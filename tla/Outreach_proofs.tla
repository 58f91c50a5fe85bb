--------------------------- MODULE Outreach_proofs --------------------------
(***************************************************************************)
(* Proofs about Outreach, for every number of invitations, submissions,    *)
(* requests, sweeps and rows.                                              *)
(***************************************************************************)
EXTENDS Outreach, SequenceTheorems, TLAPS

(***************************************************************************)
(* The typing invariant is not inductive by itself: a step that follows a  *)
(* reference a worker holds needs to know that the reference is to a row.  *)
(***************************************************************************)
Inv == TypeOK /\ HeldRowsIssued

(***************************************************************************)
(* Every worker's idle record is of the worker's type and holds nothing.   *)
(***************************************************************************)
LEMMA IdleTypes ==
    /\ IdleSubmission \in SubmissionState /\ SubmissionHolds(IdleSubmission)
    /\ IdleRequest \in RequestState       /\ RequestHolds(IdleRequest)
    /\ IdleSweep \in SweepState           /\ SweepHolds(IdleSweep)
    /\ NoDelivery \in DeliveryState       /\ DeliveryHolds(NoDelivery)
    /\ NoRow \in FollowUpRow              /\ RowHolds(NoRow)
    /\ AbsentInvitation \in InvitationRow
<1>1. IdleSubmission \in SubmissionState /\ SubmissionHolds(IdleSubmission)
  BY DEF IdleSubmission, SubmissionState, SubmissionHolds, InvitationStatuses
<1>2. IdleRequest \in RequestState /\ RequestHolds(IdleRequest)
  BY DEF IdleRequest, RequestState, RequestHolds, InvitationStatuses
<1>3. IdleSweep \in SweepState /\ SweepHolds(IdleSweep)
  BY DEF IdleSweep, SweepState, SweepHolds, Basis
<1>4. NoDelivery \in DeliveryState /\ DeliveryHolds(NoDelivery)
  BY DEF NoDelivery, DeliveryState, DeliveryHolds, RowStatuses
<1>5. NoRow \in FollowUpRow /\ RowHolds(NoRow)
  BY DEF NoRow, FollowUpRow, RowHolds, RowStatuses, Basis
<1>6. AbsentInvitation \in InvitationRow
  BY DEF AbsentInvitation, InvitationRow, InvitationStatuses
<1> QED BY <1>1, <1>2, <1>3, <1>4, <1>5, <1>6

(***************************************************************************)
(* Frames: a step that only gives one worker a new record keeps Inv when   *)
(* the record is of its type and refers to issued rows.                    *)
(***************************************************************************)
LEMMA SubmissionFrame ==
    ASSUME Inv, NEW p \in Submissions, NEW s \in SubmissionState, SubmissionHolds(s),
           submission' = [submission EXCEPT ![p] = s],
           UNCHANGED <<now, database, history, request, sweep, delivery>>
    PROVE  Inv'
<1>1. TypeOK'
  BY DEF Inv, TypeOK, database, history
<1>2. HeldRowsIssued'
  BY DEF Inv, TypeOK, HeldRowsIssued, RowHolds, SubmissionHolds, RequestHolds, SweepHolds,
         DeliveryHolds, Issued, database, history
<1> QED BY <1>1, <1>2 DEF Inv

LEMMA RequestFrame ==
    ASSUME Inv, NEW b \in Requests, NEW q \in RequestState, RequestHolds(q),
           request' = [request EXCEPT ![b] = q],
           UNCHANGED <<now, database, history, submission, sweep, delivery>>
    PROVE  Inv'
<1>1. TypeOK'
  BY DEF Inv, TypeOK, database, history
<1>2. HeldRowsIssued'
  BY DEF Inv, TypeOK, HeldRowsIssued, RowHolds, SubmissionHolds, RequestHolds, SweepHolds,
         DeliveryHolds, Issued, database, history
<1> QED BY <1>1, <1>2 DEF Inv

LEMMA SweepFrame ==
    ASSUME Inv, NEW w \in Sweeps, NEW s \in SweepState, SweepHolds(s),
           sweep' = [sweep EXCEPT ![w] = s],
           UNCHANGED <<now, database, history, submission, request, delivery>>
    PROVE  Inv'
<1>1. TypeOK'
  BY DEF Inv, TypeOK, database, history
<1>2. HeldRowsIssued'
  BY DEF Inv, TypeOK, HeldRowsIssued, RowHolds, SubmissionHolds, RequestHolds, SweepHolds,
         DeliveryHolds, Issued, database, history
<1> QED BY <1>1, <1>2 DEF Inv

(***************************************************************************)
(* Any step keeps the references when it keeps rows issued, gives new      *)
(* contents only to rows and workers that satisfy theirs, and keeps types. *)
(***************************************************************************)
LEMMA HeldFrame ==
    ASSUME Inv, TypeOK',
           \A r \in Rows : RowHolds(followups'[r]) /\ (Issued(r) => Issued(r)'),
           \A p \in Submissions :
               submission'[p] = submission[p] \/ SubmissionHolds(submission'[p]),
           \A b \in Requests : request'[b] = request[b] \/ RequestHolds(request[b])',
           \A w \in Sweeps : sweep'[w] = sweep[w] \/ SweepHolds(sweep'[w]),
           \A w \in Workers :
               delivery'[w] = delivery[w] \/ DeliveryHolds(delivery[w])'
    PROVE  Inv'
<1>1. \A p \in Submissions : SubmissionHolds(submission'[p])
  BY DEF Inv, HeldRowsIssued
<1>2. \A b \in Requests : RequestHolds(request[b])'
  BY DEF Inv, HeldRowsIssued, RequestHolds, Issued
<1>3. \A w \in Sweeps : SweepHolds(sweep'[w])
  BY DEF Inv, HeldRowsIssued
<1>4. \A w \in Workers : DeliveryHolds(delivery[w])'
  BY DEF Inv, HeldRowsIssued, DeliveryHolds, Issued
<1> QED BY <1>1, <1>2, <1>3, <1>4 DEF Inv, HeldRowsIssued, RowHolds, SubmissionHolds, SweepHolds

-----------------------------------------------------------------------------
(***************************************************************************)
(* Steps that only move a submission along.                                *)
(***************************************************************************)
LEMMA BeginSubmitInv ==
    ASSUME Inv, NEW p \in Submissions, NEW i \in Invitations, BeginSubmit(p, i)
    PROVE  Inv'
<1> DEFINE s == [pc |-> "parsing", inv |-> i, seen |-> invitation[i].status]
<1>1. s \in SubmissionState /\ SubmissionHolds(s)
  BY IdleTypes DEF Inv, TypeOK, SubmissionState, SubmissionHolds, InvitationRow
<1>2. /\ submission' = [submission EXCEPT ![p] = s]
      /\ UNCHANGED <<now, database, history, request, sweep, delivery>>
  BY DEF BeginSubmit
<1> HIDE DEF s
<1> QED BY <1>1, <1>2, SubmissionFrame

LEMMA RefuseSubmitInv ==
    ASSUME Inv, NEW p \in Submissions, RefuseSubmit(p)
    PROVE  Inv'
BY IdleTypes, SubmissionFrame DEF RefuseSubmit

-----------------------------------------------------------------------------
(***************************************************************************)
(* Steps of the buyer that only move a request along.                      *)
(***************************************************************************)
LEMMA Naturals ==
    /\ LinkTTL \in Nat /\ Grace \in Nat
    /\ Deadline # None => Deadline \in Nat
BY OutreachAssumption

LEMMA ResendInv ==
    ASSUME Inv, NEW b \in Requests, NEW i \in Invitations, Resend(b, i)
    PROVE  Inv'
<1> DEFINE renew == IF LinkExpired(invitation[i].expires, now)
                    THEN now + LinkTTL ELSE None
           q == [IdleRequest EXCEPT
                   !.pc = "mail", !.inv = i, !.seen = invitation[i].status,
                   !.renew = renew]
<1>1. renew \in Nat \union {None}
  BY Naturals DEF Inv, TypeOK
<1>2. invitation[i].status \in InvitationStatuses
  BY DEF Inv, TypeOK, InvitationRow
<1>3. /\ request' = [request EXCEPT ![b] = q]
      /\ UNCHANGED <<now, database, history, submission, sweep, delivery>>
  BY DEF Resend
<1> HIDE DEF renew
<1>4. q \in RequestState /\ RequestHolds(q)
  BY ZenonT(90), <1>1, <1>2, IdleTypes DEF RequestState, RequestHolds
<1> HIDE DEF q
<1> QED BY <1>3, <1>4, RequestFrame

LEMMA MailLinkInv ==
    ASSUME Inv, NEW b \in Requests, MailLink(b)
    PROVE  Inv'
<1>1. PICK outcome \in {"sent", "failed"} :
        request' = [request EXCEPT ![b].pc = "send", ![b].outcome = outcome]
  BY DEF MailLink
<1> DEFINE q == [request[b] EXCEPT !.pc = "send", !.outcome = outcome]
<1>2. request[b] \in RequestState /\ RequestHolds(request[b]) /\ request[b].pc = "mail"
  BY DEF Inv, TypeOK, HeldRowsIssued, MailLink
<1>3. q \in RequestState /\ RequestHolds(q)
  BY <1>2 DEF RequestState, RequestHolds, Issued
<1>4. request' = [request EXCEPT ![b] = q]
  BY <1>1 
<1>5. UNCHANGED <<now, database, history, submission, sweep, delivery>>
  BY DEF MailLink
<1> HIDE DEF q
<1> QED BY <1>3, <1>4, <1>5, RequestFrame

LEMMA DropRequestInv ==
    ASSUME Inv, NEW b \in Requests, DropRequest(b)
    PROVE  Inv'
BY IdleTypes, RequestFrame DEF DropRequest

LEMMA BeginCancelInv ==
    ASSUME Inv, NEW b \in Requests, NEW i \in Invitations, BeginCancel(b, i)
    PROVE  Inv'
<1> DEFINE q == [IdleRequest EXCEPT !.pc = "cancel", !.inv = i,
                                       !.seen = invitation[i].status]
<1>1. q \in RequestState /\ RequestHolds(q)
  BY ZenonT(90), IdleTypes DEF Inv, TypeOK, InvitationRow, RequestState, RequestHolds
<1>2. /\ request' = [request EXCEPT ![b] = q]
      /\ UNCHANGED <<now, database, history, submission, sweep, delivery>>
  BY DEF BeginCancel
<1> HIDE DEF q
<1> QED BY <1>1, <1>2, RequestFrame

LEMMA BeginRejectInv ==
    ASSUME Inv, NEW b \in Requests, NEW r \in Rows, BeginReject(b, r)
    PROVE  Inv'
<1> DEFINE q == [IdleRequest EXCEPT !.pc = "reject", !.row = r,
                                       !.seen = followups[r].status]
<1>1. q \in RequestState /\ RequestHolds(q)
  BY ZenonT(90), IdleTypes DEF Inv, TypeOK, FollowUpRow, RequestState, RequestHolds, Issued, BeginReject, HasRow
<1>2. /\ request' = [request EXCEPT ![b] = q]
      /\ UNCHANGED <<now, database, history, submission, sweep, delivery>>
  BY DEF BeginReject
<1> HIDE DEF q
<1> QED BY <1>1, <1>2, RequestFrame

LEMMA BeginManualInv ==
    ASSUME Inv, NEW b \in Requests, NEW i \in Invitations, BeginManual(b, i)
    PROVE  Inv'
<1>1. PICK kind \in {"no_response", "incomplete_quote"} :
        request' = [request EXCEPT
            ![b] = [IdleRequest EXCEPT !.pc = "draft", !.inv = i, !.kind = kind]]
  BY DEF BeginManual
<1> DEFINE q == [IdleRequest EXCEPT !.pc = "draft", !.inv = i, !.kind = kind]
<1>2. q \in RequestState /\ RequestHolds(q)
  BY ZenonT(90), <1>1, IdleTypes DEF RequestState, RequestHolds, Kinds, ReminderKinds
<1>3. /\ request' = [request EXCEPT ![b] = q]
      /\ UNCHANGED <<now, database, history, submission, sweep, delivery>>
  BY <1>1 DEF BeginManual
<1> HIDE DEF q
<1> QED BY <1>2, <1>3, RequestFrame

LEMMA LoseManualInv ==
    ASSUME Inv, NEW b \in Requests, LoseManual(b)
    PROVE  Inv'
BY IdleTypes, RequestFrame DEF LoseManual

-----------------------------------------------------------------------------
(***************************************************************************)
(* Steps that only move a sweep along.                                     *)
(***************************************************************************)
LEMMA SweepBeginInv ==
    ASSUME Inv, NEW w \in Sweeps, NEW next, SweepBegin(w, next)
    PROVE  Inv'
<1> DEFINE s == [IdleSweep EXCEPT !.pc = next, !.at = now, !.overdue = Overdue(now)]
<1>1. s \in SweepState /\ SweepHolds(s)
  BY IdleTypes DEF Inv, TypeOK, SweepState, SweepHolds, SweepBegin, Overdue, Scanned, OpenInvitations
<1>2. /\ sweep' = [sweep EXCEPT ![w] = s]
      /\ UNCHANGED <<now, database, history, submission, request, delivery>>
  BY DEF SweepBegin
<1> HIDE DEF s
<1> QED BY <1>1, <1>2, SweepFrame

LEMMA SweepScanInv ==
    ASSUME Inv, NEW w \in Sweeps, SweepScan(w)
    PROVE  Inv'
<1> DEFINE seen == [i \in Invitations |-> IF i \in Scanned THEN invitation[i] ELSE None]
           s == [sweep[w] EXCEPT !.pc = "items", !.todo = Scanned, !.seen = seen]
<1>1. seen \in [Invitations -> InvitationRow \union {None}]
  BY DEF Inv, TypeOK
<1>2. Scanned \in SUBSET Invitations
  BY DEF Scanned, OpenInvitations
<1>3. /\ sweep' = [sweep EXCEPT ![w] = s]
      /\ UNCHANGED <<now, database, history, submission, request, delivery>>
  BY DEF SweepScan
<1>4. sweep[w] \in SweepState
  BY DEF Inv, TypeOK
<1> HIDE DEF seen
<1>5. s \in SweepState /\ SweepHolds(s)
  BY <1>1, <1>2, <1>4 DEF SweepState, SweepHolds
<1> HIDE DEF s
<1> QED BY <1>3, <1>5, SweepFrame

(***************************************************************************)
(* Whatever the snapshot, the policy answers with a kind of message.       *)
(***************************************************************************)
LEMMA DecideKind ==
    ASSUME NEW s, NEW at
    PROVE  Decide(s, at).kind \in Kinds \union {"none"}
BY DEF Decide, DecideIncomplete, DecideOpen, ReminderKind, Skip, Escalate, Ask, Reminder,
       Kinds, ReminderKinds

LEMMA BasisType ==
    ASSUME Inv, NEW i \in Invitations, NEW quote \in FoundQuotes(i)
    PROVE  BasisOf(quote) \in Basis
<1>1. CASE ~HasQuote(i)
  BY <1>1 DEF FoundQuotes, BasisOf, Basis
<1>2. CASE HasQuote(i)
  <2>1. quotes[i] \in Seq(Quote)
    BY DEF Inv, TypeOK
  <2>2. quote \in Quote
    BY <1>2, <2>1, LenProperties, ElementOfSeq DEF FoundQuotes, QuotesOf
  <2> QED BY <2>2 DEF Quote, Completeness, BasisOf, Basis
<1> QED BY <1>1, <1>2

LEMMA SweepConsiderInv ==
    ASSUME Inv, NEW w \in Sweeps, NEW i \in Invitations, SweepConsider(w, i)
    PROVE  Inv'
<1>1. PICK quote \in FoundQuotes(i) :
        LET decision == Decide(Snapshot(i, Row(w, i), quote), sweep[w].at)
        IN  sweep' =
              IF IsActionable(decision) /\ ~Duplicate(i, decision.kind)
              THEN [sweep EXCEPT ![w].pc = "draft", ![w].item = i,
                                 ![w].kind = decision.kind,
                                 ![w].basis = BasisOf(quote)]
              ELSE [sweep EXCEPT ![w].todo = @ \ {i}]
  BY DEF SweepConsider
<1> DEFINE decision == Decide(Snapshot(i, Row(w, i), quote), sweep[w].at)
           drafting == [sweep[w] EXCEPT !.pc = "draft", !.item = i,
                                        !.kind = decision.kind,
                                        !.basis = BasisOf(quote)]
           skipping == [sweep[w] EXCEPT !.todo = @ \ {i}]
<1>2. decision.kind \in Kinds \union {"none"}
  BY DecideKind
<1>3. BasisOf(quote) \in Basis
  BY BasisType
<1>4. \/ sweep' = [sweep EXCEPT ![w] = drafting]
      \/ sweep' = [sweep EXCEPT ![w] = skipping]
  BY <1>1
<1>5. sweep[w] \in SweepState /\ sweep[w].pc = "items"
  BY DEF Inv, TypeOK, SweepConsider
<1> HIDE DEF decision
<1>6. drafting \in SweepState /\ SweepHolds(drafting)
  BY <1>2, <1>3, <1>5 DEF SweepState, SweepHolds
<1>7. skipping \in SweepState /\ SweepHolds(skipping)
  BY <1>5 DEF SweepState, SweepHolds
<1>8. UNCHANGED <<now, database, history, submission, request, delivery>>
  BY DEF SweepConsider
<1> HIDE DEF drafting, skipping
<1> QED BY <1>4, <1>6, <1>7, <1>8, SweepFrame

LEMMA SweepDiesInv ==
    ASSUME Inv, NEW w \in Sweeps, SweepDies(w) \/ SweepEnd(w)
    PROVE  Inv'
BY IdleTypes, SweepFrame DEF SweepDies, SweepEnd

-----------------------------------------------------------------------------
(***************************************************************************)
(* Steps that change the database.                                         *)
(***************************************************************************)
LEMMA UpsertType ==
    ASSUME Inv, NEW i \in Invitations, NEW answer \in Answers
    PROVE  /\ Upsert(i, answer) \in Seq(Quote)
           /\ Len(Upsert(i, answer)) <= 1 \/ Len(Upsert(i, answer)) = Len(quotes[i])
<1>1. quotes[i] \in Seq(Quote) /\ answer \in Quote
  BY OutreachAssumption DEF Inv, TypeOK
<1>2. CASE HasQuote(i)
  <2>1. 1 \in 1 .. Len(quotes[i])
    BY <1>1, <1>2, EmptySeq, LenProperties DEF HasQuote
  <2>2. /\ [quotes[i] EXCEPT ![1] = answer] \in Seq(Quote)
        /\ Len([quotes[i] EXCEPT ![1] = answer]) = Len(quotes[i])
    BY <1>1, <2>1, ExceptSeq
  <2> QED BY <1>2, <2>2 DEF Upsert
<1>3. CASE ~HasQuote(i)
  BY <1>1, <1>3 DEF Upsert
<1> QED BY <1>2, <1>3

LEMMA FinishSubmitInv ==
    ASSUME Inv, NEW p \in Submissions, FinishSubmit(p)
    PROVE  Inv'
<1> DEFINE i == submission[p].inv
<1>1. i \in Invitations
  BY DEF Inv, HeldRowsIssued, SubmissionHolds, FinishSubmit
<1>2. PICK answer \in Answers, status \in {"submitted", "incomplete"} :
        /\ quotes' = [quotes EXCEPT ![i] = Upsert(i, answer)]
        /\ invitation' = [invitation EXCEPT
               ![i].status = Written(invitation[i].status, submission[p].seen, status)]
  BY DEF FinishSubmit
<1>3. quotes' \in [Invitations -> Seq(Quote)]
  BY <1>1, <1>2, UpsertType DEF Inv, TypeOK
<1>4. invitation' \in [Invitations -> InvitationRow]
  BY ZenonT(90), <1>1, <1>2 DEF Inv, TypeOK, InvitationRow, InvitationStatuses, Written
<1>5. submission' \in [Submissions -> SubmissionState]
  BY IdleTypes DEF Inv, TypeOK, FinishSubmit
<1>6. TypeOK'
  BY <1>3, <1>4, <1>5 DEF Inv, TypeOK, FinishSubmit, history
<1> QED
  BY <1>6, IdleTypes, HeldFrame DEF Inv, TypeOK, HeldRowsIssued, FinishSubmit, Issued

LEMMA ExpiryType ==
    ASSUME Inv
    PROVE  DefaultExpiry \in Nat
BY Naturals DEF Inv, TypeOK, DefaultExpiry

LEMMA InviteInv ==
    ASSUME Inv, NEW b \in Requests, NEW i \in Invitations, Invite(b, i)
    PROVE  Inv'
<1> DEFINE q == [IdleRequest EXCEPT !.pc = "mail", !.inv = i, !.seen = "pending"]
<1>1. q \in RequestState /\ RequestHolds(q)
  BY ZenonT(90), IdleTypes DEF RequestState, RequestHolds, InvitationStatuses
<1>2. request' = request \/ request' = [request EXCEPT ![b] = q]
  BY DEF Invite
<1>3. RequestHolds(q)'
  BY DEF RequestHolds, Issued, IdleRequest
<1> HIDE DEF q
<1>4. request' \in [Requests -> RequestState]
  BY <1>1, <1>2 DEF Inv, TypeOK
<1>5. invitation' \in [Invitations -> InvitationRow]
  BY ZenonT(90), ExpiryType DEF Inv, TypeOK, InvitationRow, InvitationStatuses, Invite
<1>6. TypeOK'
  BY <1>4, <1>5 DEF Inv, TypeOK, Invite, history
<1>7. \A c \in Requests : request'[c] = request[c] \/ RequestHolds(request[c])'
  BY <1>2, <1>3 DEF Inv, TypeOK, RequestHolds, Issued
<1> QED
  BY <1>6, <1>7, HeldFrame DEF Inv, HeldRowsIssued, Invite, Issued

(***************************************************************************)
(* A request that becomes idle holds nothing, whatever else changes.       *)
(***************************************************************************)
LEMMA RequestEnds ==
    ASSUME Inv, NEW b \in Requests, request' = [request EXCEPT ![b] = IdleRequest]
    PROVE  /\ request' \in [Requests -> RequestState]
           /\ \A c \in Requests : request'[c] = request[c] \/ RequestHolds(request[c])'
BY IdleTypes DEF Inv, TypeOK, RequestHolds, IdleRequest

LEMMA RecordLinkInv ==
    ASSUME Inv, NEW b \in Requests, RecordLink(b)
    PROVE  Inv'
<1> DEFINE i == request[b].inv
<1>1. /\ i \in Invitations
      /\ request[b] \in RequestState
      /\ request[b].outcome \in {"sent", "failed"}
  BY DEF Inv, TypeOK, HeldRowsIssued, RequestHolds, RequestState, RecordLink
<1>2. PICK r \in Rows :
        /\ NewRow(r)
        /\ followups' = [followups EXCEPT
               ![r] = FollowUp(i, "manual", request[b].outcome, FALSE, "none")]
        /\ mailed' = IF request[b].outcome = "sent"
                     THEN [mailed EXCEPT ![r] = @ + 1] ELSE mailed
        /\ consent' = consent \union {r}
  BY DEF RecordLink
<1> DEFINE row == FollowUp(i, "manual", request[b].outcome, FALSE, "none")
<1>3. row \in FollowUpRow /\ RowHolds(row) /\ row.status # "none"
  BY <1>1 DEF FollowUp, FollowUpRow, RowHolds, Kinds, RowStatuses, Basis
<1> HIDE DEF row
<1>4. followups' = [followups EXCEPT ![r] = row]
  BY <1>2 DEF row
<1>5. /\ followups' \in [Rows -> FollowUpRow]
      /\ \A q \in Rows : RowHolds(followups'[q]) /\ (Issued(q) => Issued(q)')
  BY <1>3, <1>4 DEF Inv, TypeOK, HeldRowsIssued, Issued
<1>6. mailed' \in [Rows -> Nat] /\ consent' \in SUBSET Rows
  BY <1>2 DEF Inv, TypeOK
<1>7. invitation' \in [Invitations -> InvitationRow]
  <2>1. request[b].renew # None => request[b].renew \in Nat
    BY <1>1 DEF RequestState
  <2>2. now \in Nat /\ invitation[i] \in InvitationRow
    BY <1>1 DEF Inv, TypeOK
  <2> DEFINE new == [invitation[i] EXCEPT
               !.expires  = IF request[b].renew # None THEN request[b].renew ELSE @,
               !.lastSent = IF request[b].outcome = "sent" THEN now ELSE @,
               !.status   = IF request[b].outcome = "sent" /\ request[b].seen = "expired"
                            THEN "pending" ELSE @]
  <2>3. new \in InvitationRow
    BY <2>1, <2>2 DEF InvitationRow, InvitationStatuses
  <2>4. invitation' = [invitation EXCEPT ![i] = new]
    BY DEF RecordLink
  <2> HIDE DEF new
  <2> QED BY <2>3, <2>4 DEF Inv, TypeOK
<1>8. request' = [request EXCEPT ![b] = IdleRequest]
  BY DEF RecordLink
<1>9. UNCHANGED <<now, rfq, quotes, submission, sweep, delivery>>
  BY DEF RecordLink
<1>10. TypeOK'
  BY <1>5, <1>6, <1>7, <1>8, <1>9, RequestEnds DEF Inv, TypeOK
<1> QED
  BY <1>5, <1>8, <1>9, <1>10, RequestEnds, HeldFrame

LEMMA FinishCancelInv ==
    ASSUME Inv, NEW b \in Requests, FinishCancel(b)
    PROVE  Inv'
<1>1. request' = [request EXCEPT ![b] = IdleRequest]
  BY DEF FinishCancel
<1>2. invitation' \in [Invitations -> InvitationRow]
  BY ZenonT(90) DEF Inv, TypeOK, InvitationRow, InvitationStatuses, FinishCancel, Written
<1>3. TypeOK'
  BY <1>1, <1>2, RequestEnds DEF Inv, TypeOK, FinishCancel, history
<1> QED
  BY <1>1, <1>3, RequestEnds, HeldFrame DEF Inv, HeldRowsIssued, FinishCancel, Issued

LEMMA DeleteInvitationInv ==
    ASSUME Inv, NEW i \in Invitations, DeleteInvitation(i)
    PROVE  Inv'
<1>1. invitation' \in [Invitations -> InvitationRow]
  BY IdleTypes DEF Inv, TypeOK, InvitationRow, InvitationStatuses, DeleteInvitation
<1>2. quotes' \in [Invitations -> Seq(Quote)]
  BY EmptySeq DEF Inv, TypeOK, DeleteInvitation
<1>3. \A r \in Rows :
        /\ followups'[r] \in FollowUpRow
        /\ RowHolds(followups'[r])
        /\ Issued(r) => Issued(r)'
  <2> SUFFICES ASSUME NEW r \in Rows
               PROVE  /\ followups'[r] \in FollowUpRow
                      /\ RowHolds(followups'[r])
                      /\ Issued(r) => Issued(r)'
    OBVIOUS
  <2>1. followups[r] \in FollowUpRow /\ RowHolds(followups[r])
    BY DEF Inv, TypeOK, HeldRowsIssued
  <2>2. CASE followups[r].inv = i
    BY <2>1, <2>2 DEF DeleteInvitation, FollowUpRow, RowHolds, Issued, RowStatuses
  <2>3. CASE followups[r].inv # i
    BY <2>1, <2>3 DEF DeleteInvitation, Issued
  <2> QED BY <2>2, <2>3
<1>4. followups' \in [Rows -> FollowUpRow]
  BY <1>3 DEF DeleteInvitation
<1>5. TypeOK'
  BY <1>1, <1>2, <1>4 DEF Inv, TypeOK, DeleteInvitation, history, workers
<1> QED
  BY <1>3, <1>5, HeldFrame DEF DeleteInvitation, workers

LEMMA EditQuoteType ==
    ASSUME Inv, NEW i \in Invitations, EditQuote(i) \/ DeleteQuote(i)
    PROVE  /\ quotes' \in [Invitations -> Seq(Quote)]
           /\ \A j \in Invitations : Len(quotes'[j]) <= Len(quotes[j])
<1>1. quotes \in [Invitations -> Seq(Quote)] /\ quotes[i] # << >>
  BY DEF Inv, TypeOK, EditQuote, DeleteQuote, HasQuote
<1>2. CASE EditQuote(i)
  <2>1. PICK c \in Completeness :
          LET edited == [quotes[i][1] EXCEPT !.completeness = c]
          IN  quotes' = [quotes EXCEPT ![i] = [@ EXCEPT ![1] = edited]]
    BY <1>2 DEF EditQuote
  <2>2. 1 \in 1 .. Len(quotes[i])
    BY <1>1, EmptySeq, LenProperties
  <2> DEFINE q == [quotes[i][1] EXCEPT !.completeness = c]
  <2>3. q \in Quote
    <3>1. quotes[i][1] \in Quote
      BY <1>1, <2>2, ElementOfSeq
    <3> QED BY <2>1, <3>1 DEF Quote
  <2>4. quotes' = [quotes EXCEPT ![i] = [quotes[i] EXCEPT ![1] = q]]
    BY <2>1, Zenon
  <2> HIDE DEF q
  <2>5. /\ [quotes[i] EXCEPT ![1] = q] \in Seq(Quote)
        /\ Len([quotes[i] EXCEPT ![1] = q]) = Len(quotes[i])
    BY <1>1, <2>2, <2>3, ExceptSeq
  <2> DEFINE amended == [quotes[i] EXCEPT ![1] = q]
  <2> HIDE DEF amended
  <2>6. /\ quotes' = [quotes EXCEPT ![i] = amended]
        /\ amended \in Seq(Quote)
        /\ Len(amended) = Len(quotes[i])
    BY <2>4, <2>5 DEF amended
  <2>7. \A j \in Invitations : Len(quotes[j]) \in Nat
    BY <1>1, LenProperties
  <2> QED BY <1>1, <2>6, <2>7
<1>3. CASE DeleteQuote(i)
  <2>1. quotes' = [quotes EXCEPT ![i] = Tail(quotes[i])]
    BY <1>3 DEF DeleteQuote
  <2>2. Tail(quotes[i]) \in Seq(Quote) /\ Len(Tail(quotes[i])) = Len(quotes[i]) - 1
    BY <1>1, HeadTailProperties
  <2>3. \A j \in Invitations : Len(quotes[j]) \in Nat
    BY <1>1, LenProperties
  <2> QED BY <1>1, <2>1, <2>2, <2>3
<1> QED BY <1>2, <1>3

LEMMA EditQuoteInv ==
    ASSUME Inv, NEW i \in Invitations, EditQuote(i) \/ DeleteQuote(i)
    PROVE  Inv'
<1>1. TypeOK'
  BY EditQuoteType DEF Inv, TypeOK, EditQuote, DeleteQuote, history, workers
<1> QED
  BY <1>1, HeldFrame DEF Inv, HeldRowsIssued, EditQuote, DeleteQuote, workers, Issued

LEMMA SetRfqStatusInv ==
    ASSUME Inv, NEW status \in RfqStatuses, SetRfqStatus(status)
    PROVE  Inv'
<1>1. TypeOK'
  BY DEF Inv, TypeOK, SetRfqStatus, history, workers
<1> QED
  BY <1>1, HeldFrame DEF Inv, HeldRowsIssued, SetRfqStatus, workers, Issued

-----------------------------------------------------------------------------
(***************************************************************************)
(* Steps on follow-up rows and their deliveries.                           *)
(***************************************************************************)
(***************************************************************************)
(* The type and the references of a delivery that starts on a row that is  *)
(* issued after the step.                                                  *)
(***************************************************************************)
LEMMA StartDeliveryFrame ==
    ASSUME Inv, NEW w \in Workers, NEW r \in Rows, NEW status \in RowStatuses,
           Issued(r)', StartDelivery(w, r, status)
    PROVE  /\ delivery' \in [Workers -> DeliveryState]
           /\ \A v \in Workers :
                delivery'[v] = delivery[v] \/ DeliveryHolds(delivery[v])'
<1> DEFINE d == [NoDelivery EXCEPT !.pc = "mail", !.row = r, !.seen = status]
<1>1. d \in DeliveryState
  BY DEF NoDelivery, DeliveryState
<1>2. d.pc = "mail" /\ d.row = r
  BY DEF NoDelivery
<1>3. delivery' = [delivery EXCEPT ![w] = d]
  BY DEF StartDelivery
<1> HIDE DEF d
<1> QED BY <1>1, <1>2, <1>3 DEF Inv, TypeOK, DeliveryHolds

(***************************************************************************)
(* A new row of the right type is issued, and no other row changes.        *)
(***************************************************************************)
LEMMA NewRowFrame ==
    ASSUME Inv, NEW r \in Rows, NEW row \in FollowUpRow, RowHolds(row),
           row.status # "none", followups' = [followups EXCEPT ![r] = row]
    PROVE  /\ followups' \in [Rows -> FollowUpRow]
           /\ \A q \in Rows : RowHolds(followups'[q]) /\ (Issued(q) => Issued(q)')
           /\ Issued(r)'
BY DEF Inv, TypeOK, HeldRowsIssued, Issued

LEMMA ApproveInv ==
    ASSUME Inv, NEW b \in Requests, NEW r \in Rows, Approve(b, r)
    PROVE  Inv'
<1>1. Issued(r) /\ Issued(r)' /\ followups[r].status \in RowStatuses
  BY DEF Inv, TypeOK, FollowUpRow, Issued, HasRow, Approve, database
<1>2. StartDelivery(b, r, followups[r].status) /\ b \in Workers
  BY DEF Approve, Workers
<1>3. /\ delivery' \in [Workers -> DeliveryState]
      /\ \A v \in Workers : delivery'[v] = delivery[v] \/ DeliveryHolds(delivery[v])'
  BY <1>1, <1>2, StartDeliveryFrame
<1>4. consent' \in SUBSET Rows
  BY DEF Inv, TypeOK, Approve
<1>5. UNCHANGED <<now, rfq, invitation, quotes, followups, mailed, submission, request,
                  sweep>>
  BY DEF Approve, database
<1>6. TypeOK'
  BY <1>3, <1>4, <1>5 DEF Inv, TypeOK
<1> QED
  BY <1>3, <1>5, <1>6, HeldFrame DEF Inv, HeldRowsIssued, Issued

LEMMA FinishRejectInv ==
    ASSUME Inv, NEW b \in Requests, FinishReject(b)
    PROVE  Inv'
<1>1. /\ request' = [request EXCEPT ![b] = IdleRequest]
      /\ UNCHANGED <<now, rfq, invitation, quotes, mailed, consent, submission, sweep,
                     delivery>>
  BY DEF FinishReject, history
<1> DEFINE r == request[b].row
           status == Written(followups[r].status, request[b].seen, "rejected")
<1>2. /\ followups' \in [Rows -> FollowUpRow]
      /\ \A q \in Rows : RowHolds(followups'[q]) /\ (Issued(q) => Issued(q)')
  <2>1. CASE HasRow(r)
    <3>1. r \in Rows
      BY DEF Inv, HeldRowsIssued, RequestHolds, Issued, FinishReject
    <3>2. followups[r] \in FollowUpRow /\ RowHolds(followups[r])
      BY <3>1 DEF Inv, TypeOK, HeldRowsIssued
    <3>3. followups[r].status # "none"
      BY <2>1 DEF HasRow
    <3>4. status \in RowStatuses /\ status # "none"
      BY <3>2, <3>3 DEF Written, FollowUpRow, RowStatuses
    <3> DEFINE row == [followups[r] EXCEPT !.status = status]
    <3>5. followups' = [followups EXCEPT ![r] = row]
      BY <2>1 DEF FinishReject
    <3> HIDE DEF status
    <3>6. row \in FollowUpRow /\ RowHolds(row) /\ row.status # "none"
      BY <3>2, <3>3, <3>4 DEF FollowUpRow, RowHolds
    <3> HIDE DEF row
    <3> QED BY <3>1, <3>5, <3>6, NewRowFrame
  <2>2. CASE ~HasRow(r)
    BY <2>2 DEF FinishReject, Inv, TypeOK, HeldRowsIssued, Issued
  <2> QED BY <2>1, <2>2
<1>3. TypeOK'
  BY <1>1, <1>2, RequestEnds DEF Inv, TypeOK
<1> QED BY <1>1, <1>2, <1>3, RequestEnds, HeldFrame

LEMMA ManualCustomInv ==
    ASSUME Inv, NEW b \in Requests, NEW i \in Invitations, ManualCustom(b, i)
    PROVE  Inv'
<1>1. PICK r \in Rows :
        /\ NewRow(r)
        /\ followups' = [followups EXCEPT
               ![r] = FollowUp(i, "manual", "queued", FALSE, "none")]
        /\ StartDelivery(b, r, "queued")
        /\ consent' = consent \union {r}
  BY DEF ManualCustom
<1>2. UNCHANGED <<now, rfq, invitation, quotes, mailed, submission, request, sweep>>
  BY DEF ManualCustom
<1> DEFINE row == FollowUp(i, "manual", "queued", FALSE, "none")
<1>3. row \in FollowUpRow /\ RowHolds(row) /\ row.status # "none"
  BY DEF FollowUp, FollowUpRow, RowHolds, Kinds, RowStatuses, Basis
<1>4. followups' = [followups EXCEPT ![r] = row]
  BY <1>1
<1> HIDE DEF row
<1>5. /\ followups' \in [Rows -> FollowUpRow]
      /\ \A q \in Rows : RowHolds(followups'[q]) /\ (Issued(q) => Issued(q)')
      /\ Issued(r)'
  BY <1>3, <1>4, NewRowFrame
<1>6. /\ delivery' \in [Workers -> DeliveryState]
      /\ \A v \in Workers : delivery'[v] = delivery[v] \/ DeliveryHolds(delivery[v])'
  BY <1>1, <1>5, StartDeliveryFrame DEF Workers, RowStatuses
<1>7. consent' \in SUBSET Rows
  BY <1>1 DEF Inv, TypeOK
<1>8. TypeOK'
  BY <1>2, <1>5, <1>6, <1>7 DEF Inv, TypeOK
<1> QED BY <1>2, <1>5, <1>6, <1>8, HeldFrame

LEMMA DraftManualInv ==
    ASSUME Inv, NEW b \in Requests, DraftManual(b)
    PROVE  Inv'
<1> DEFINE i == request[b].inv
           status == IF AutoSend THEN "queued" ELSE "draft"
           row == FollowUp(i, request[b].kind, status, FALSE, "none")
<1>1. PICK r \in Rows :
        /\ NewRow(r)
        /\ followups' = [followups EXCEPT ![r] = row]
        /\ request' = [request EXCEPT ![b].pc = "queue", ![b].row = r]
  BY DEF DraftManual
<1>2. UNCHANGED <<now, rfq, invitation, quotes, mailed, consent, submission, sweep,
                  delivery>>
  BY DEF DraftManual, history
<1>3. request[b] \in RequestState /\ i \in Invitations
  BY DEF Inv, TypeOK, HeldRowsIssued, RequestHolds, DraftManual
<1>4. row \in FollowUpRow /\ RowHolds(row) /\ row.status # "none"
  BY <1>3 DEF RequestState, FollowUp, FollowUpRow, RowHolds, RowStatuses, Basis
<1> HIDE DEF row
<1>5. /\ followups' \in [Rows -> FollowUpRow]
      /\ \A q \in Rows : RowHolds(followups'[q]) /\ (Issued(q) => Issued(q)')
      /\ Issued(r)'
  BY <1>1, <1>4, NewRowFrame
<1> DEFINE q == [request[b] EXCEPT !.pc = "queue", !.row = r]
<1>6. q \in RequestState /\ q.pc = "queue" /\ q.row = r
  BY <1>3 DEF RequestState
<1>7. request' = [request EXCEPT ![b] = q]
  BY <1>1
<1> HIDE DEF q
<1>8. /\ request' \in [Requests -> RequestState]
      /\ \A c \in Requests : request'[c] = request[c] \/ RequestHolds(request[c])'
  BY <1>5, <1>6, <1>7 DEF Inv, TypeOK, RequestHolds
<1>9. TypeOK'
  BY <1>2, <1>5, <1>8 DEF Inv, TypeOK
<1> QED BY <1>2, <1>5, <1>8, <1>9, HeldFrame

LEMMA QueueManualInv ==
    ASSUME Inv, NEW b \in Requests, QueueManual(b)
    PROVE  Inv'
<1>1. PICK r \in Rows : r = request[b].row
  BY DEF Inv, HeldRowsIssued, RequestHolds, Issued, QueueManual
<1> DEFINE row == [followups[r] EXCEPT !.status = "queued"]
<1>2. /\ followups' = [followups EXCEPT ![r] = row]
      /\ request' = [request EXCEPT ![b] = IdleRequest]
      /\ UNCHANGED <<now, rfq, invitation, quotes, mailed, submission, sweep>>
  BY <1>1 DEF QueueManual
<1>3. \/ StartDelivery(b, r, "queued") /\ consent' = consent \union {r}
      \/ UNCHANGED <<delivery, consent>>
  BY <1>1 DEF QueueManual
<1>4. followups[r] \in FollowUpRow /\ RowHolds(followups[r])
  BY DEF Inv, TypeOK, HeldRowsIssued
<1>5. followups[r].status # "none"
  BY <1>1 DEF QueueManual, HasRow
<1>6. row \in FollowUpRow /\ RowHolds(row) /\ row.status # "none"
  BY <1>4, <1>5 DEF FollowUpRow, RowHolds, RowStatuses
<1> HIDE DEF row
<1>7. /\ followups' \in [Rows -> FollowUpRow]
      /\ \A q \in Rows : RowHolds(followups'[q]) /\ (Issued(q) => Issued(q)')
      /\ Issued(r)'
  BY <1>2, <1>4, <1>6, NewRowFrame
<1>8. /\ delivery' \in [Workers -> DeliveryState]
      /\ \A v \in Workers : delivery'[v] = delivery[v] \/ DeliveryHolds(delivery[v])'
  <2>1. CASE StartDelivery(b, r, "queued")
    BY <2>1, <1>4, <1>7, StartDeliveryFrame DEF Workers, RowStatuses
  <2>2. CASE UNCHANGED <<delivery, consent>>
    BY <2>2 DEF Inv, TypeOK
  <2> QED BY <1>3, <2>1, <2>2
<1>9. consent' \in SUBSET Rows
  BY <1>3 DEF Inv, TypeOK
<1>10. TypeOK'
  BY <1>2, <1>7, <1>8, <1>9, RequestEnds DEF Inv, TypeOK
<1> QED BY <1>2, <1>7, <1>8, <1>10, RequestEnds, HeldFrame

LEMMA DeliverMailInv ==
    ASSUME Inv, NEW w \in Workers, DeliverMail(w)
    PROVE  Inv'
<1> DEFINE accepted == [delivery[w] EXCEPT !.outcome = "sent", !.pc = "count"]
           refused  == [delivery[w] EXCEPT !.outcome = "failed", !.pc = "commit"]
<1>1. \/ delivery' = [delivery EXCEPT ![w] = accepted]
      \/ delivery' = [delivery EXCEPT ![w] = refused]
  BY DEF DeliverMail
<1>2. mailed' \in [Rows -> Nat]
  BY DEF Inv, TypeOK, DeliverMail
<1>3. /\ delivery[w] \in DeliveryState
      /\ DeliveryHolds(delivery[w])
      /\ delivery[w].pc = "mail"
  BY DEF Inv, TypeOK, HeldRowsIssued, DeliverMail
<1>4. /\ accepted \in DeliveryState /\ DeliveryHolds(accepted)
      /\ refused \in DeliveryState /\ DeliveryHolds(refused)
  BY <1>3 DEF DeliveryState, DeliveryHolds
<1> HIDE DEF accepted, refused
<1>5. /\ UNCHANGED <<now, rfq, invitation, quotes, followups, consent, submission,
                     request, sweep>>
  BY DEF DeliverMail, database
<1>6. /\ delivery' \in [Workers -> DeliveryState]
      /\ \A v \in Workers : delivery'[v] = delivery[v] \/ DeliveryHolds(delivery[v])'
  BY <1>1, <1>4, <1>5 DEF Inv, TypeOK, DeliveryHolds, Issued
<1>7. TypeOK'
  BY <1>2, <1>5, <1>6 DEF Inv, TypeOK
<1> QED BY <1>5, <1>6, <1>7, HeldFrame DEF Inv, HeldRowsIssued, Issued

LEMMA DeliverCountInv ==
    ASSUME Inv, NEW w \in Workers, DeliverCount(w)
    PROVE  Inv'
<1> DEFINE count == IF HasRow(delivery[w].row)
                    THEN invitation[followups[delivery[w].row].inv].reminders ELSE 0
           d == [delivery[w] EXCEPT !.count = count, !.pc = "commit"]
<1>1. /\ delivery' = [delivery EXCEPT ![w] = d]
      /\ UNCHANGED <<now, rfq, invitation, quotes, followups, mailed, consent, submission,
                     request, sweep>>
  BY DEF DeliverCount, database, history
<1>2. /\ delivery[w] \in DeliveryState
      /\ DeliveryHolds(delivery[w])
      /\ delivery[w].pc = "count"
  BY DEF Inv, TypeOK, HeldRowsIssued, DeliverCount
<1>3. followups[delivery[w].row].inv \in Invitations
  BY <1>2 DEF DeliveryHolds, Issued, Inv, HeldRowsIssued, RowHolds
<1>4. count \in Nat
  BY <1>3 DEF Inv, TypeOK, InvitationRow
<1> HIDE DEF count
<1>5. d \in DeliveryState /\ DeliveryHolds(d)
  BY <1>2, <1>4 DEF DeliveryState, DeliveryHolds
<1> HIDE DEF d
<1>6. /\ delivery' \in [Workers -> DeliveryState]
      /\ \A v \in Workers : delivery'[v] = delivery[v] \/ DeliveryHolds(delivery[v])'
  BY <1>1, <1>5 DEF Inv, TypeOK, DeliveryHolds, Issued
<1>7. TypeOK'
  BY <1>1, <1>6 DEF Inv, TypeOK
<1> QED BY <1>1, <1>6, <1>7, HeldFrame DEF Inv, HeldRowsIssued, Issued

(***************************************************************************)
(* A delivery that ends holds nothing.                                     *)
(***************************************************************************)
LEMMA DeliveryEnds ==
    ASSUME Inv, NEW w \in Workers, delivery' = [delivery EXCEPT ![w] = NoDelivery]
    PROVE  /\ delivery' \in [Workers -> DeliveryState]
           /\ \A v \in Workers :
                delivery'[v] = delivery[v] \/ DeliveryHolds(delivery[v])'
BY IdleTypes DEF Inv, TypeOK, DeliveryHolds, NoDelivery

LEMMA DeliverCommitInv ==
    ASSUME Inv, NEW w \in Workers, DeliverCommit(w)
    PROVE  Inv'
<1> DEFINE r == delivery[w].row
           i == followups[r].inv
           status == Written(followups[r].status, delivery[w].seen, delivery[w].outcome)
           row == [followups[r] EXCEPT !.status = status]
<1>1. /\ delivery' = [delivery EXCEPT ![w] = NoDelivery]
      /\ UNCHANGED <<now, rfq, quotes, mailed, consent, submission, request, sweep>>
  BY ZenonT(90) DEF DeliverCommit, history
<1>2. /\ delivery[w] \in DeliveryState
      /\ r \in Rows
      /\ delivery[w].outcome \in {"sent", "failed"}
  BY DEF Inv, TypeOK, HeldRowsIssued, DeliveryHolds, DeliveryState, Issued, DeliverCommit
<1>3. followups[r] \in FollowUpRow /\ followups[r].status # "none" /\ i \in Invitations
  BY <1>2 DEF Inv, TypeOK, HeldRowsIssued, RowHolds, DeliverCommit, HasRow
<1>4. status \in RowStatuses /\ status # "none"
  BY <1>2, <1>3 DEF Written, FollowUpRow, RowStatuses
<1>5. followups' = [followups EXCEPT ![r] = row]
  BY DEF DeliverCommit
<1> HIDE DEF status
<1>6. row \in FollowUpRow /\ RowHolds(row) /\ row.status # "none"
  BY <1>3, <1>4 DEF FollowUpRow, RowHolds
<1> HIDE DEF row
<1>7. /\ followups' \in [Rows -> FollowUpRow]
      /\ \A q \in Rows : RowHolds(followups'[q]) /\ (Issued(q) => Issued(q)')
  BY <1>2, <1>5, <1>6, NewRowFrame
<1>8. invitation' \in [Invitations -> InvitationRow]
  <2>1. delivery[w].count + 1 \in Nat
    BY <1>2 DEF DeliveryState
  <2> DEFINE new == [invitation[i] EXCEPT !.reminders = delivery[w].count + 1]
  <2>2. invitation' = invitation \/ invitation' = [invitation EXCEPT ![i] = new]
    BY DEF DeliverCommit
  <2>3. new \in InvitationRow
    BY ZenonT(90), <1>3, <2>1 DEF Inv, TypeOK, InvitationRow
  <2> HIDE DEF new
  <2> QED BY <2>2, <2>3 DEF Inv, TypeOK
<1>9. TypeOK'
  BY <1>1, <1>7, <1>8, DeliveryEnds DEF Inv, TypeOK
<1> QED BY <1>1, <1>7, <1>9, DeliveryEnds, HeldFrame

LEMMA LoseDeliveryInv ==
    ASSUME Inv, NEW w \in Workers, LoseDelivery(w)
    PROVE  Inv'
<1>1. /\ delivery' = [delivery EXCEPT ![w] = NoDelivery]
      /\ UNCHANGED <<now, rfq, invitation, quotes, followups, mailed, consent, submission,
                     request>>
  BY DEF LoseDelivery, database, history
<1>2. /\ sweep' \in [Sweeps -> SweepState]
      /\ \A v \in Sweeps : sweep'[v] = sweep[v] \/ SweepHolds(sweep'[v])
  BY IdleTypes DEF LoseDelivery, Inv, TypeOK
<1>3. TypeOK'
  BY <1>1, <1>2, DeliveryEnds DEF Inv, TypeOK
<1> QED
  BY <1>1, <1>2, <1>3, DeliveryEnds, HeldFrame DEF Inv, HeldRowsIssued, Issued

-----------------------------------------------------------------------------
(***************************************************************************)
(* Steps of a sweep that change the database.                              *)
(***************************************************************************)
LEMMA SweepExpireInv ==
    ASSUME Inv, NEW w \in Sweeps, SweepExpire(w)
    PROVE  Inv'
<1> DEFINE s == [sweep[w] EXCEPT !.pc = "scan", !.overdue = {}]
<1>1. UNCHANGED <<now, quotes, followups, mailed, consent, submission, request, delivery>>
  BY DEF SweepExpire, history
<1>2. \/ sweep' = [sweep EXCEPT ![w] = s]
      \/ sweep' = [sweep EXCEPT ![w] = IdleSweep]
  BY DEF SweepExpire
<1>3. s \in SweepState /\ SweepHolds(s)
  BY ZenonT(90) DEF Inv, TypeOK, SweepState, SweepHolds
<1> HIDE DEF s
<1>4. /\ sweep' \in [Sweeps -> SweepState]
      /\ \A v \in Sweeps : sweep'[v] = sweep[v] \/ SweepHolds(sweep'[v])
  BY <1>2, <1>3, IdleTypes DEF Inv, TypeOK
<1>5. rfq' \in RfqStatuses
  BY DEF Inv, TypeOK, SweepExpire, RfqStatuses
<1>6. invitation' \in [Invitations -> InvitationRow]
  <2> DEFINE expired(i) == [invitation[i] EXCEPT !.status = "expired"]
  <2>1. \A i \in Invitations : expired(i) \in InvitationRow
    BY DEF Inv, TypeOK, InvitationRow, InvitationStatuses
  <2>2. \/ invitation' = invitation
        \/ invitation' = [i \in Invitations |->
              IF i \in sweep[w].overdue THEN expired(i) ELSE invitation[i]]
    BY DEF SweepExpire
  <2> HIDE DEF expired
  <2> QED BY <2>1, <2>2 DEF Inv, TypeOK
<1>7. TypeOK'
  BY <1>1, <1>4, <1>5, <1>6 DEF Inv, TypeOK
<1> QED BY <1>1, <1>4, <1>7, HeldFrame DEF Inv, HeldRowsIssued, Issued

LEMMA SweepDraftInv ==
    ASSUME Inv, NEW w \in Sweeps, SweepDraft(w)
    PROVE  Inv'
<1> DEFINE i == sweep[w].item
           status == IF AutoSend THEN "queued" ELSE "draft"
           row == FollowUp(i, sweep[w].kind, status, TRUE, sweep[w].basis)
           unread == [j \in Invitations |-> None]
           s == [sweep[w] EXCEPT !.pc = "items", !.todo = @ \ {i}, !.item = None,
                                 !.kind = "none", !.basis = "none", !.seen = unread]
<1>1. PICK r \in Rows :
        /\ NewRow(r)
        /\ followups' = [followups EXCEPT ![r] = row]
        /\ IF AutoSend THEN StartDelivery(w, r, "queued") ELSE UNCHANGED delivery
  BY DEF SweepDraft
<1>2. /\ sweep' = [sweep EXCEPT ![w] = s]
      /\ UNCHANGED <<now, rfq, invitation, quotes, mailed, consent, submission, request>>
  BY DEF SweepDraft, history
<1>3. sweep[w] \in SweepState /\ i \in Invitations
  BY DEF Inv, TypeOK, HeldRowsIssued, SweepHolds, SweepDraft
<1>4. row \in FollowUpRow /\ RowHolds(row) /\ row.status # "none"
  BY <1>3 DEF SweepState, FollowUp, FollowUpRow, RowHolds, RowStatuses
<1> HIDE DEF row
<1>5. /\ followups' \in [Rows -> FollowUpRow]
      /\ \A q \in Rows : RowHolds(followups'[q]) /\ (Issued(q) => Issued(q)')
      /\ Issued(r)'
  BY <1>1, <1>4, NewRowFrame
<1>6. /\ delivery' \in [Workers -> DeliveryState]
      /\ \A v \in Workers : delivery'[v] = delivery[v] \/ DeliveryHolds(delivery[v])'
  <2>1. CASE AutoSend
    BY <2>1, <1>1, <1>5, StartDeliveryFrame DEF Workers, RowStatuses
  <2>2. CASE ~AutoSend
    BY <2>2, <1>1 DEF Inv, TypeOK
  <2> QED BY <2>1, <2>2
<1>7. unread \in [Invitations -> InvitationRow \union {None}]
  OBVIOUS
<1> HIDE DEF unread
<1>8. s \in SweepState /\ SweepHolds(s)
  BY <1>3, <1>7 DEF SweepState, SweepHolds, Basis
<1> HIDE DEF s
<1>9. /\ sweep' \in [Sweeps -> SweepState]
      /\ \A v \in Sweeps : sweep'[v] = sweep[v] \/ SweepHolds(sweep'[v])
  BY <1>2, <1>8 DEF Inv, TypeOK
<1>10. TypeOK'
  BY <1>2, <1>5, <1>6, <1>9 DEF Inv, TypeOK
<1> QED BY <1>2, <1>5, <1>6, <1>9, <1>10, HeldFrame

-----------------------------------------------------------------------------
LEMMA TickInv ==
    ASSUME Inv, Tick
    PROVE  Inv'
BY DEF Inv, TypeOK, HeldRowsIssued, RowHolds, SubmissionHolds, RequestHolds, SweepHolds,
       DeliveryHolds, Issued, Tick, database, history, workers

LEMMA RestartInv ==
    ASSUME Inv, Restart
    PROVE  Inv'
<1>1. TypeOK'
  BY IdleTypes DEF Inv, TypeOK, Restart, database, history
<1>2. /\ \A b \in Requests : RequestHolds(request[b])'
      /\ \A w \in Workers : DeliveryHolds(delivery[w])'
  BY DEF Restart, RequestHolds, DeliveryHolds, IdleRequest, NoDelivery
<1> QED
  BY <1>1, <1>2, IdleTypes, HeldFrame DEF Inv, HeldRowsIssued, Restart, database, Issued

LEMMA InitInv == Init => Inv
<1> SUFFICES ASSUME Init PROVE Inv
  OBVIOUS
<1>1. quotes \in [Invitations -> Seq(Quote)]
  BY EmptySeq DEF Init
<1>2. TypeOK
  BY <1>1, IdleTypes, OutreachAssumption DEF Init, TypeOK, RfqStatuses
<1>3. HeldRowsIssued
  BY IdleTypes DEF Init, HeldRowsIssued
<1> QED BY <1>2, <1>3 DEF Inv

LEMMA NextInv ==
    ASSUME Inv, [Next]_vars
    PROVE  Inv'
<1>1. CASE Tick
  BY <1>1, TickInv
<1>2. CASE Restart
  BY <1>2, RestartInv
<1>3. CASE \E p \in Submissions : SubmissionStep(p)
  BY <1>3, BeginSubmitInv, FinishSubmitInv, RefuseSubmitInv DEF SubmissionStep
<1>4. CASE BuyerStep
  BY <1>4, DeleteInvitationInv, EditQuoteInv, SetRfqStatusInv DEF BuyerStep
<1>5. CASE \E b \in Requests : InvitationStep(b)
  BY <1>5, InviteInv, ResendInv, BeginCancelInv, MailLinkInv, RecordLinkInv, DropRequestInv,
     FinishCancelInv DEF InvitationStep, LoseLink, LoseCancel
<1>6. CASE \E b \in Requests : FollowUpStep(b)
  BY <1>6, ApproveInv, BeginRejectInv, FinishRejectInv, ManualCustomInv, BeginManualInv,
     DraftManualInv, QueueManualInv, LoseManualInv DEF FollowUpStep
<1>7. CASE \E w \in Workers : DeliveryStep(w)
  BY <1>7, DeliverMailInv, DeliverCountInv, DeliverCommitInv, LoseDeliveryInv
  DEF DeliveryStep
<1>8. CASE \E w \in Sweeps : SweepBegin(w, "expire")
  BY <1>8, SweepBeginInv
<1>9. CASE \E w \in Sweeps \ Timers : SweepBegin(w, "expireOnly")
  BY <1>9, SweepBeginInv
<1>10. CASE \E w \in Sweeps : SweepGoesOn(w)
  BY <1>10, SweepExpireInv, SweepScanInv, SweepConsiderInv, SweepDraftInv, SweepDiesInv
  DEF SweepGoesOn
<1>11. CASE UNCHANGED vars
  BY <1>11 DEF Inv, TypeOK, HeldRowsIssued, RowHolds, SubmissionHolds, RequestHolds,
     SweepHolds, DeliveryHolds, Issued, vars, database, history, workers
<1> QED
  BY <1>1, <1>2, <1>3, <1>4, <1>5, <1>6, <1>7, <1>8, <1>9, <1>10, <1>11 DEF Next

LEMMA InvHolds == Spec => []Inv
<1>1. Inv /\ [Next]_vars => Inv'
  BY NextInv
<1> QED BY <1>1, InitInv, PTL DEF Spec

(***************************************************************************)
(* Every variable keeps its type, and what a worker holds between two      *)
(* database steps always refers to rows that were issued.                  *)
(***************************************************************************)
THEOREM TypeCorrect == Spec => []TypeOK
<1>1. Inv => TypeOK
  BY DEF Inv
<1> QED BY <1>1, InvHolds, PTL

-----------------------------------------------------------------------------
(***************************************************************************)
(* What the mail says: a row in status sent was accepted by the provider,  *)
(* and with automatic sending off nothing leaves unasked. Both need to     *)
(* know what a delivery in flight carries.                                 *)
(***************************************************************************)
MailInv == SentMeansMailed /\ NothingMailedUnasked /\ DeliveriesTrue

LEMMA MailFrame ==
    ASSUME Inv, MailInv,
           \A r \in Rows : mailed[r] > 0 => mailed'[r] > 0,
           consent \subseteq consent',
           \A r \in Rows : followups'[r].status = "sent" =>
               followups[r].status = "sent" \/ mailed'[r] > 0,
           \A r \in Rows : mailed'[r] > 0 => mailed[r] > 0 \/ r \in consent' \/ AutoSend,
           \A w \in Workers : delivery'[w] = delivery[w] \/ DeliveryTrue(delivery[w])'
    PROVE  MailInv'
<1>1. SentMeansMailed'
  BY DEF MailInv, SentMeansMailed
<1>2. NothingMailedUnasked'
  BY DEF MailInv, NothingMailedUnasked
<1>3. DeliveriesTrue'
  <2> SUFFICES ASSUME NEW w \in Workers PROVE DeliveryTrue(delivery[w])'
    BY DEF DeliveriesTrue
  <2>1. DeliveryTrue(delivery[w])
    BY DEF MailInv, DeliveriesTrue
  <2>2. delivery[w].pc # "none" => delivery[w].row \in Rows
    BY DEF Inv, HeldRowsIssued, DeliveryHolds, Issued
  <2>3. CASE delivery'[w] = delivery[w]
    BY <2>1, <2>2, <2>3 DEF DeliveryTrue
  <2> QED BY <2>3
<1> QED BY <1>1, <1>2, <1>3 DEF MailInv

(***************************************************************************)
(* Steps that touch neither the mail nor a delivery.                       *)
(***************************************************************************)
LEMMA MailUntouched ==
    ASSUME MailInv, UNCHANGED <<mailed, consent, followups, delivery>>
    PROVE  MailInv'
BY DEF MailInv, SentMeansMailed, NothingMailedUnasked, DeliveriesTrue, DeliveryTrue

(***************************************************************************)
(* Steps that change rows without delivering, and put none in status sent. *)
(***************************************************************************)
LEMMA MailUnsent ==
    ASSUME Inv, MailInv, UNCHANGED <<mailed, consent, delivery>>,
           \A r \in Rows : followups'[r].status = "sent" => followups[r].status = "sent"
    PROVE  MailInv'
BY MailFrame

(***************************************************************************)
(* A delivery that starts has no outcome yet; the buyer asked for it, or   *)
(* sending is automatic.                                                   *)
(***************************************************************************)
LEMMA MailStarts ==
    ASSUME Inv, MailInv, NEW w \in Workers, NEW r \in Rows, NEW status,
           StartDelivery(w, r, status), AutoSend \/ r \in consent',
           UNCHANGED mailed, consent \subseteq consent',
           \A q \in Rows : followups'[q].status = "sent" => followups[q].status = "sent"
    PROVE  MailInv'
<1> DEFINE d == [NoDelivery EXCEPT !.pc = "mail", !.row = r, !.seen = status]
<1>1. d.row = r /\ d.outcome = "none"
  BY DEF NoDelivery
<1>2. delivery' = [delivery EXCEPT ![w] = d]
  BY DEF StartDelivery
<1> HIDE DEF d
<1>3. \A v \in Workers : delivery'[v] = delivery[v] \/ DeliveryTrue(delivery[v])'
  BY <1>1, <1>2 DEF Inv, TypeOK, DeliveryTrue
<1> QED BY <1>3, MailFrame

(***************************************************************************)
(* A delivery that is dropped says nothing.                                *)
(***************************************************************************)
LEMMA MailEnds ==
    ASSUME Inv, MailInv, NEW w \in Workers, delivery' = [delivery EXCEPT ![w] = NoDelivery],
           UNCHANGED <<mailed, consent>>,
           \A r \in Rows : followups'[r].status = "sent" =>
               followups[r].status = "sent" \/ mailed[r] > 0
    PROVE  MailInv'
<1>1. \A v \in Workers : delivery'[v] = delivery[v] \/ DeliveryTrue(delivery[v])'
  BY DEF Inv, TypeOK, DeliveryTrue, NoDelivery
<1> QED BY <1>1, MailFrame

LEMMA RecordLinkMail ==
    ASSUME Inv, MailInv, NEW b \in Requests, RecordLink(b)
    PROVE  MailInv'
<1> DEFINE outcome == request[b].outcome
<1>1. PICK r \in Rows :
        /\ followups' = [followups EXCEPT
               ![r] = FollowUp(request[b].inv, "manual", outcome, FALSE, "none")]
        /\ mailed' = IF outcome = "sent" THEN [mailed EXCEPT ![r] = @ + 1] ELSE mailed
        /\ consent' = consent \union {r}
  BY DEF RecordLink
<1>2. UNCHANGED delivery
  BY ZenonT(90) DEF RecordLink
<1>3. mailed \in [Rows -> Nat] /\ followups \in [Rows -> FollowUpRow]
  BY DEF Inv, TypeOK
<1>4. \A q \in Rows : /\ mailed[q] > 0 => mailed'[q] > 0
                      /\ mailed'[q] > 0 => mailed[q] > 0 \/ q \in consent'
  BY <1>1, <1>3
<1>5. \A q \in Rows : followups'[q].status = "sent" =>
        followups[q].status = "sent" \/ mailed'[q] > 0
  BY <1>1, <1>3 DEF FollowUp
<1> QED BY <1>1, <1>2, <1>4, <1>5, MailFrame

LEMMA DeleteInvitationMail ==
    ASSUME Inv, MailInv, NEW i \in Invitations, DeleteInvitation(i)
    PROVE  MailInv'
<1>1. \A r \in Rows : followups'[r].status = "sent" => followups[r].status = "sent"
  BY DEF DeleteInvitation, Inv, TypeOK, FollowUpRow
<1> QED BY <1>1, MailUnsent DEF DeleteInvitation, history, workers

LEMMA ApproveMail ==
    ASSUME Inv, MailInv, NEW b \in Requests, NEW r \in Rows, Approve(b, r)
    PROVE  MailInv'
BY MailStarts DEF Approve, database, Workers

LEMMA FinishRejectMail ==
    ASSUME Inv, MailInv, NEW b \in Requests, FinishReject(b)
    PROVE  MailInv'
<1>1. \A r \in Rows : followups'[r].status = "sent" => followups[r].status = "sent"
  BY DEF FinishReject, Inv, TypeOK, FollowUpRow, Written
<1> QED BY <1>1, MailUnsent DEF FinishReject, history

LEMMA ManualCustomMail ==
    ASSUME Inv, MailInv, NEW b \in Requests, NEW i \in Invitations, ManualCustom(b, i)
    PROVE  MailInv'
<1>1. PICK r \in Rows :
        /\ followups' = [followups EXCEPT
               ![r] = FollowUp(i, "manual", "queued", FALSE, "none")]
        /\ StartDelivery(b, r, "queued")
        /\ consent' = consent \union {r}
  BY DEF ManualCustom
<1>2. \A q \in Rows : followups'[q].status = "sent" => followups[q].status = "sent"
  BY <1>1 DEF Inv, TypeOK, FollowUp
<1> QED BY <1>1, <1>2, MailStarts DEF ManualCustom, Workers

LEMMA DraftManualMail ==
    ASSUME Inv, MailInv, NEW b \in Requests, DraftManual(b)
    PROVE  MailInv'
<1>1. \A q \in Rows : followups'[q].status = "sent" => followups[q].status = "sent"
  BY DEF DraftManual, Inv, TypeOK, FollowUp
<1> QED BY <1>1, MailUnsent DEF DraftManual, history

LEMMA QueueManualMail ==
    ASSUME Inv, MailInv, NEW b \in Requests, QueueManual(b)
    PROVE  MailInv'
<1>1. PICK r \in Rows : r = request[b].row
  BY DEF Inv, HeldRowsIssued, RequestHolds, Issued, QueueManual
<1>2. \A q \in Rows : followups'[q].status = "sent" => followups[q].status = "sent"
  BY <1>1 DEF QueueManual, Inv, TypeOK, FollowUpRow
<1>3. \/ StartDelivery(b, r, "queued") /\ consent' = consent \union {r}
      \/ UNCHANGED <<delivery, consent>>
  BY <1>1 DEF QueueManual
<1>4. UNCHANGED mailed
  BY DEF QueueManual
<1>5. CASE StartDelivery(b, r, "queued") /\ consent' = consent \union {r}
  BY <1>2, <1>4, <1>5, MailStarts DEF Workers
<1>6. CASE UNCHANGED <<delivery, consent>>
  BY <1>2, <1>4, <1>6, MailUnsent
<1> QED BY <1>3, <1>5, <1>6

LEMMA DeliverMailMail ==
    ASSUME Inv, MailInv, NEW w \in Workers, DeliverMail(w)
    PROVE  MailInv'
<1>1. PICK r \in Rows : r = delivery[w].row
  BY DEF Inv, HeldRowsIssued, DeliveryHolds, Issued, DeliverMail
<1>2. UNCHANGED <<followups, consent>>
  BY DEF DeliverMail, database
<1>3. mailed' = [mailed EXCEPT ![r] = @ + 1] \/ mailed' = mailed
  BY <1>1 DEF DeliverMail
<1>4. /\ delivery[w] \in DeliveryState
      /\ delivery[w].pc # "none"
      /\ ~AutoSend => r \in consent
  BY <1>1 DEF Inv, TypeOK, DeliverMail, MailInv, DeliveriesTrue, DeliveryTrue
<1>5. \A q \in Rows :
        /\ mailed[q] > 0 => mailed'[q] > 0
        /\ mailed'[q] > 0 => mailed[q] > 0 \/ q \in consent' \/ AutoSend
  <2> SUFFICES ASSUME NEW q \in Rows
               PROVE  /\ mailed[q] > 0 => mailed'[q] > 0
                      /\ mailed'[q] > 0 => mailed[q] > 0 \/ q \in consent' \/ AutoSend
    OBVIOUS
  <2>1. mailed \in [Rows -> Nat]
    BY DEF Inv, TypeOK
  <2>2. CASE q = r
    <3>1. mailed'[q] = mailed[q] + 1 \/ mailed'[q] = mailed[q]
      BY <1>3, <2>1, <2>2
    <3>2. mailed[q] \in Nat
      BY <2>1
    <3>3. q \in consent' \/ AutoSend
      BY <1>2, <1>4, <2>2
    <3> QED BY <3>1, <3>2, <3>3
  <2>3. CASE q # r
    <3>1. mailed'[q] = mailed[q]
      BY <1>3, <2>1, <2>3
    <3> QED BY <3>1
  <2> QED BY <2>2, <2>3
<1> DEFINE accepted == [delivery[w] EXCEPT !.outcome = "sent", !.pc = "count"]
           refused  == [delivery[w] EXCEPT !.outcome = "failed", !.pc = "commit"]
<1>6. \/ delivery' = [delivery EXCEPT ![w] = accepted] /\ mailed' = [mailed EXCEPT ![r] = @ + 1]
      \/ delivery' = [delivery EXCEPT ![w] = refused]
  BY <1>1 DEF DeliverMail
<1>7. /\ accepted.row = r /\ refused.row = r
      /\ accepted.pc = "count" /\ refused.pc = "commit"
      /\ refused.outcome = "failed"
  BY <1>1, <1>4 DEF DeliveryState
<1> HIDE DEF accepted, refused
<1>8. \A v \in Workers : delivery'[v] = delivery[v] \/ DeliveryTrue(delivery[v])'
  <2>1. mailed[r] \in Nat /\ delivery \in [Workers -> DeliveryState]
    BY DEF Inv, TypeOK
  <2>2. CASE /\ delivery' = [delivery EXCEPT ![w] = accepted]
             /\ mailed' = [mailed EXCEPT ![r] = @ + 1]
    <3>1. mailed'[r] > 0
      BY <2>1, <2>2 DEF Inv, TypeOK
    <3> QED BY <1>2, <1>4, <1>7, <2>1, <2>2, <3>1 DEF DeliveryTrue
  <2>3. CASE delivery' = [delivery EXCEPT ![w] = refused]
    BY <1>2, <1>4, <1>7, <2>1, <2>3 DEF DeliveryTrue
  <2> QED BY <1>6, <2>2, <2>3
<1> QED BY <1>2, <1>5, <1>8, MailFrame

LEMMA DeliverCountMail ==
    ASSUME Inv, MailInv, NEW w \in Workers, DeliverCount(w)
    PROVE  MailInv'
<1> DEFINE count == IF HasRow(delivery[w].row)
                    THEN invitation[followups[delivery[w].row].inv].reminders ELSE 0
           d == [delivery[w] EXCEPT !.count = count, !.pc = "commit"]
<1>1. /\ delivery' = [delivery EXCEPT ![w] = d]
      /\ UNCHANGED <<followups, mailed, consent>>
  BY DEF DeliverCount, database, history
<1>2. /\ delivery[w] \in DeliveryState
      /\ delivery[w].pc = "count"
      /\ DeliveryTrue(delivery[w])
  BY DEF Inv, TypeOK, DeliverCount, MailInv, DeliveriesTrue
<1> HIDE DEF count
<1>3. d.row = delivery[w].row /\ d.outcome = delivery[w].outcome
  BY <1>2 DEF DeliveryState
<1> HIDE DEF d
<1>4. \A v \in Workers : delivery'[v] = delivery[v] \/ DeliveryTrue(delivery[v])'
  BY SMTT(60), ZenonT(90), <1>1, <1>2, <1>3 DEF Inv, TypeOK, DeliveryTrue
<1> QED BY <1>1, <1>4, MailFrame

LEMMA DeliverCommitMail ==
    ASSUME Inv, MailInv, NEW w \in Workers, DeliverCommit(w)
    PROVE  MailInv'
<1>1. PICK r \in Rows : r = delivery[w].row
  BY ZenonT(90) DEF Inv, HeldRowsIssued, DeliveryHolds, Issued, DeliverCommit
<1>2. delivery[w].outcome = "sent" => mailed[r] > 0
  BY <1>1 DEF MailInv, DeliveriesTrue, DeliveryTrue, DeliverCommit
<1>3. \A q \in Rows : followups'[q].status = "sent" =>
        followups[q].status = "sent" \/ mailed[q] > 0
  BY <1>1, <1>2 DEF DeliverCommit, Inv, TypeOK, FollowUpRow, Written
<1> QED BY <1>3, MailEnds DEF DeliverCommit, history

LEMMA SweepDraftMail ==
    ASSUME Inv, MailInv, NEW w \in Sweeps, SweepDraft(w)
    PROVE  MailInv'
<1>1. PICK r \in Rows :
        /\ followups' = [followups EXCEPT
               ![r] = FollowUp(sweep[w].item, sweep[w].kind,
                               IF AutoSend THEN "queued" ELSE "draft",
                               TRUE, sweep[w].basis)]
        /\ IF AutoSend THEN StartDelivery(w, r, "queued") ELSE UNCHANGED delivery
  BY DEF SweepDraft
<1>2. UNCHANGED <<mailed, consent>>
  BY DEF SweepDraft, history
<1>3. \A q \in Rows : followups'[q].status = "sent" => followups[q].status = "sent"
  BY <1>1 DEF Inv, TypeOK, FollowUp
<1>4. CASE AutoSend
  BY <1>1, <1>2, <1>3, <1>4, MailStarts DEF Workers
<1>5. CASE ~AutoSend
  BY <1>1, <1>2, <1>3, <1>5, MailUnsent
<1> QED BY <1>4, <1>5

LEMMA RestartMail ==
    ASSUME Inv, MailInv, Restart
    PROVE  MailInv'
<1>1. \A w \in Workers : DeliveryTrue(delivery[w])'
  BY DEF Restart, DeliveryTrue, NoDelivery
<1> QED BY <1>1, MailFrame DEF Restart, database, history

LEMMA NextMail ==
    ASSUME Inv, MailInv, [Next]_vars
    PROVE  MailInv'
<1>1. CASE Tick \/ UNCHANGED vars
  BY <1>1, MailUntouched DEF Tick, vars, database, history, workers
<1>2. CASE Restart
  BY <1>2, RestartMail
<1>3. CASE \E p \in Submissions : SubmissionStep(p)
  BY <1>3, MailUntouched
  DEF SubmissionStep, BeginSubmit, FinishSubmit, RefuseSubmit, database, history
<1>4. CASE BuyerStep
  BY SMTT(60), ZenonT(90), <1>4, MailUntouched, DeleteInvitationMail
  DEF BuyerStep, EditQuote, DeleteQuote, SetRfqStatus, history, workers
<1>5. CASE \E b \in Requests : InvitationStep(b)
  BY ZenonT(90), <1>5, MailUntouched, RecordLinkMail
  DEF InvitationStep, Invite, Resend, BeginCancel, MailLink, LoseLink, FinishCancel,
      LoseCancel, DropRequest, database, history
<1>6. CASE \E b \in Requests : FollowUpStep(b)
  BY <1>6, MailUntouched, ApproveMail, FinishRejectMail, ManualCustomMail, DraftManualMail,
     QueueManualMail
  DEF FollowUpStep, BeginReject, BeginManual, LoseManual, database, history
<1>7. CASE \E w \in Workers : DeliveryStep(w)
  <2> SUFFICES ASSUME NEW w \in Workers, DeliveryStep(w) PROVE MailInv'
    BY <1>7
  <2>1. CASE LoseDelivery(w)
    BY <2>1, MailEnds DEF LoseDelivery, database, history
  <2> QED
    BY <2>1, DeliverMailMail, DeliverCountMail, DeliverCommitMail DEF DeliveryStep
<1>8. CASE \/ \E w \in Sweeps : SweepBegin(w, "expire")
           \/ \E w \in Sweeps \ Timers : SweepBegin(w, "expireOnly")
  BY <1>8, MailUntouched DEF SweepBegin, database, history
<1>9. CASE \E w \in Sweeps : SweepGoesOn(w)
  BY ZenonT(90), <1>9, MailUntouched, SweepDraftMail
  DEF SweepGoesOn, SweepExpire, SweepScan, SweepConsider, SweepDies, SweepEnd, database,
      history
<1> QED
  BY <1>1, <1>2, <1>3, <1>4, <1>5, <1>6, <1>7, <1>8, <1>9 DEF Next

LEMMA MailInvHolds == Spec => []MailInv
<1>1. Init => MailInv
  BY DEF Init, MailInv, SentMeansMailed, NothingMailedUnasked, DeliveriesTrue, DeliveryTrue,
         NoRow, NoDelivery
<1>2. Inv /\ MailInv /\ [Next]_vars => MailInv'
  BY NextMail
<1> QED BY <1>1, <1>2, InvHolds, PTL DEF Spec

(***************************************************************************)
(* A row in status sent was accepted by the provider.                      *)
(***************************************************************************)
THEOREM SentRowsWereMailed == Spec => []SentMeansMailed
<1>1. MailInv => SentMeansMailed
  BY DEF MailInv
<1> QED BY <1>1, MailInvHolds, PTL

(***************************************************************************)
(* With AUTO_SEND_FOLLOWUPS off, nothing leaves that the buyer did not ask *)
(* for.                                                                    *)
(***************************************************************************)
THEOREM NothingLeavesUnasked == Spec => []NothingMailedUnasked
<1>1. MailInv => NothingMailedUnasked
  BY DEF MailInv
<1> QED BY <1>1, MailInvHolds, PTL

-----------------------------------------------------------------------------
LEMMA NextOneQuote ==
    ASSUME Inv, OneQuotePerInvitation, [Next]_vars
    PROVE  OneQuotePerInvitation'
<1>1. \A i \in Invitations : Len(quotes[i]) \in Nat
  BY LenProperties DEF Inv, TypeOK
<1>2. ASSUME NEW p \in Submissions, FinishSubmit(p)
      PROVE  OneQuotePerInvitation'
  <2>1. submission[p].inv \in Invitations
    BY <1>2 DEF Inv, HeldRowsIssued, SubmissionHolds, FinishSubmit
  <2>2. PICK answer \in Answers :
          quotes' = [quotes EXCEPT
              ![submission[p].inv] = Upsert(submission[p].inv, answer)]
    BY <1>2 DEF FinishSubmit
  <2>3. Len(Upsert(submission[p].inv, answer)) <= 1
    BY <2>1, UpsertType DEF OneQuotePerInvitation
  <2> QED BY <2>1, <2>2, <2>3 DEF OneQuotePerInvitation, Inv, TypeOK
<1>3. ASSUME NEW i \in Invitations, EditQuote(i) \/ DeleteQuote(i)
      PROVE  OneQuotePerInvitation'
  <2>1. \A j \in Invitations : Len(quotes'[j]) <= Len(quotes[j])
    BY <1>3, EditQuoteType
  <2>2. \A j \in Invitations : Len(quotes'[j]) \in Nat
    BY <1>3, EditQuoteType, LenProperties
  <2> QED BY <1>1, <2>1, <2>2 DEF OneQuotePerInvitation
<1>4. ASSUME NEW i \in Invitations, DeleteInvitation(i)
      PROVE  OneQuotePerInvitation'
  BY <1>4, EmptySeq DEF DeleteInvitation, OneQuotePerInvitation, Inv, TypeOK
<1>5. CASE UNCHANGED quotes
  BY <1>5 DEF OneQuotePerInvitation
<1>6. \/ UNCHANGED quotes
      \/ \E p \in Submissions : FinishSubmit(p)
      \/ \E i \in Invitations : EditQuote(i) \/ DeleteQuote(i) \/ DeleteInvitation(i)
  <2>1. CASE \E p \in Submissions : SubmissionStep(p)
    BY <2>1 DEF SubmissionStep, BeginSubmit, RefuseSubmit, database
  <2>2. CASE BuyerStep
    BY <2>2 DEF BuyerStep, SetRfqStatus
  <2>3. CASE \E b \in Requests : InvitationStep(b)
    BY ZenonT(90), <2>3 DEF InvitationStep, Invite, Resend, BeginCancel, MailLink, RecordLink, LoseLink,
                FinishCancel, LoseCancel, DropRequest, database
  <2>4. CASE \E b \in Requests : FollowUpStep(b)
    BY ZenonT(90), <2>4 DEF FollowUpStep, Approve, BeginReject, FinishReject, ManualCustom, BeginManual,
                DraftManual, QueueManual, LoseManual, database
  <2>5. CASE \E w \in Workers : DeliveryStep(w)
    BY ZenonT(90), <2>5 DEF DeliveryStep, DeliverMail, DeliverCount, DeliverCommit, LoseDelivery, database
  <2>6. CASE \E w \in Sweeps : SweepGoesOn(w)
    BY ZenonT(90), <2>6 DEF SweepGoesOn, SweepExpire, SweepScan, SweepConsider, SweepDraft, SweepDies,
                SweepEnd, database
  <2>7. CASE \/ Tick \/ Restart \/ UNCHANGED vars
             \/ \E w \in Sweeps : SweepBegin(w, "expire")
             \/ \E w \in Sweeps \ Timers : SweepBegin(w, "expireOnly")
    BY <2>7 DEF Tick, Restart, vars, SweepBegin, database
  <2> QED BY <2>1, <2>2, <2>3, <2>4, <2>5, <2>6, <2>7 DEF Next
<1> QED BY <1>2, <1>3, <1>4, <1>5, <1>6

(***************************************************************************)
(* An invitation never has two quotes.                                     *)
(***************************************************************************)
THEOREM OneQuote == Spec => []OneQuotePerInvitation
<1>1. Init => OneQuotePerInvitation
  BY EmptySeq DEF Init, OneQuotePerInvitation
<1>2. Inv /\ OneQuotePerInvitation /\ [Next]_vars => OneQuotePerInvitation'
  BY NextOneQuote
<1> QED BY <1>1, <1>2, InvHolds, PTL DEF Spec

-----------------------------------------------------------------------------
(***************************************************************************)
(* What a step does to an answered invitation: it becomes answered only    *)
(* with a quote, and keeps it until it is deleted itself.                  *)
(***************************************************************************)
Answered(i) == invitation[i].status \in {"submitted", "incomplete"}

AnswerInv == \A i \in Invitations : Answered(i) => HasQuote(i)

LEMMA FinishSubmitAnswers ==
    ASSUME Inv, AnswerInv, NEW p \in Submissions, FinishSubmit(p)
    PROVE  AnswerInv'
<1> DEFINE i == submission[p].inv
<1>0. /\ i \in Invitations
      /\ quotes \in [Invitations -> Seq(Quote)]
      /\ invitation \in [Invitations -> InvitationRow]
  BY DEF Inv, TypeOK, HeldRowsIssued, SubmissionHolds, FinishSubmit
<1>1. PICK answer \in Answers, status \in InvitationStatuses :
        /\ quotes' = [quotes EXCEPT ![i] = Upsert(i, answer)]
        /\ invitation' = [invitation EXCEPT
               ![i].status = Written(@, submission[p].seen, status)]
  BY DEF FinishSubmit, InvitationStatuses
<1>2. Upsert(i, answer) # <<>>
  <2>1. CASE HasQuote(i)
    <3>1. quotes[i] \in Seq(Quote) /\ answer \in Quote /\ quotes[i] # <<>>
      BY <1>0, <2>1, OutreachAssumption DEF HasQuote
    <3>2. Len(quotes[i]) \in Nat \ {0}
      BY <3>1, EmptySeq
    <3>3. Len([quotes[i] EXCEPT ![1] = answer]) = Len(quotes[i])
      BY <3>1, <3>2, ExceptSeq
    <3>4. Upsert(i, answer) = [quotes[i] EXCEPT ![1] = answer]
      BY <2>1 DEF Upsert
    <3> QED BY <3>2, <3>3, <3>4, EmptySeq
  <2>2. CASE ~HasQuote(i)
    BY <2>2 DEF Upsert
  <2> QED BY <2>1, <2>2
<1> HIDE DEF i
<1>3. quotes'[i] # <<>> /\ \A j \in Invitations \ {i} : quotes'[j] = quotes[j]
  BY <1>0, <1>1, <1>2
<1>4. \A j \in Invitations \ {i} : invitation'[j] = invitation[j]
  BY <1>0, <1>1
<1> QED BY <1>3, <1>4 DEF AnswerInv, Answered, HasQuote

LEMMA EditAnswers ==
    ASSUME Inv, AnswerInv, NEW i \in Invitations, EditQuote(i)
    PROVE  AnswerInv'
<1>1. PICK c \in Completeness :
        quotes' = [quotes EXCEPT ![i] =
            [quotes[i] EXCEPT ![1] = [quotes[i][1] EXCEPT !.completeness = c]]]
  BY DEF EditQuote
<1> DEFINE edited == [quotes[i][1] EXCEPT !.completeness = c]
<1>2. quotes[i] \in Seq(Quote) /\ HasQuote(i) /\ UNCHANGED invitation
  BY DEF Inv, TypeOK, EditQuote
<1>3. Len(quotes[i]) \in Nat \ {0}
  BY <1>2, EmptySeq DEF HasQuote
<1>4. quotes[i][1] \in Quote
  BY <1>2, <1>3, ElementOfSeq
<1>5. edited \in Quote
  BY <1>4 DEF Quote
<1> HIDE DEF edited
<1>6. Len([quotes[i] EXCEPT ![1] = edited]) = Len(quotes[i])
  BY <1>2, <1>3, <1>5, ExceptSeq
<1>7. [quotes[i] EXCEPT ![1] = edited] # <<>>
  BY <1>3, <1>6, EmptySeq
<1>8. quotes' = [quotes EXCEPT ![i] = [quotes[i] EXCEPT ![1] = edited]]
  BY <1>1 DEF edited
<1>9. \A j \in Invitations : HasQuote(j) => quotes'[j] # <<>>
  BY <1>7, <1>8 DEF HasQuote, Inv, TypeOK
<1> QED BY <1>2, <1>9 DEF AnswerInv, Answered, HasQuote

\* Steps that make no invitation answered and touch no quote.
LEMMA UnansweredStep ==
    ASSUME AnswerInv, UNCHANGED quotes,
           \A i \in Invitations : Answered(i)' => Answered(i)
    PROVE  AnswerInv'
BY DEF AnswerInv, HasQuote, Answered

LEMMA NextAnswers ==
    ASSUME Inv, AnswerInv, [Next]_vars, "deleteQuote" \notin BuyerOps
    PROVE  AnswerInv'
<1>0. /\ invitation \in [Invitations -> InvitationRow]
      /\ quotes \in [Invitations -> Seq(Quote)]
  BY DEF Inv, TypeOK
<1>1. CASE UNCHANGED <<quotes, invitation>>
  BY <1>1 DEF AnswerInv, HasQuote, Answered
<1>2. CASE \E p \in Submissions : SubmissionStep(p)
  BY <1>1, <1>2, FinishSubmitAnswers DEF SubmissionStep, BeginSubmit, RefuseSubmit, database
<1>3. CASE BuyerStep
  <2>1. ASSUME NEW i \in Invitations, DeleteInvitation(i)
        PROVE  AnswerInv'
    <3>1. [AbsentInvitation EXCEPT !.status = "deleted"].status = "deleted"
      BY DEF AbsentInvitation
    <3>2. ~ (Answered(i)')
      BY <1>0, <2>1, <3>1 DEF DeleteInvitation, Answered
    <3>3. \A j \in Invitations \ {i} :
            invitation'[j] = invitation[j] /\ quotes'[j] = quotes[j]
      BY <1>0, <2>1 DEF DeleteInvitation
    <3> QED BY <3>2, <3>3 DEF AnswerInv, Answered, HasQuote
  <2>2. \A i \in Invitations : ~DeleteQuote(i)
    BY DEF DeleteQuote, Uses
  <2> QED BY <1>1, <1>3, <2>1, <2>2, EditAnswers DEF BuyerStep, SetRfqStatus
<1>4. ASSUME NEW b \in Requests, InvitationStep(b)
      PROVE  AnswerInv'
  <2>1. ASSUME NEW i \in Invitations, Invite(b, i)
        PROVE  AnswerInv'
    <3>1. UNCHANGED quotes /\ \A j \in Invitations : Answered(j)' => Answered(j)
      BY SMTT(60), ZenonT(90), <1>0, <2>1 DEF Invite, Answered, InvitationRow
    <3> QED BY <3>1, UnansweredStep
  <2>2. CASE RecordLink(b)
    <3>1. PICK renew, sent, status :
            invitation' = [invitation EXCEPT
                ![request[b].inv].expires = renew, ![request[b].inv].lastSent = sent,
                ![request[b].inv].status = status]
            /\ status \in {"pending", invitation[request[b].inv].status}
      BY ZenonT(90), <1>0, <2>2 DEF RecordLink
    <3>2. \A j \in Invitations : Answered(j)' => Answered(j)
      BY <1>0, <3>1 DEF Answered, InvitationRow
    <3>3. UNCHANGED quotes
      BY <2>2 DEF RecordLink
    <3> QED BY <3>2, <3>3, UnansweredStep
  <2>3. CASE FinishCancel(b)
    <3>1. UNCHANGED quotes /\ \A j \in Invitations : Answered(j)' => Answered(j)
      BY <1>0, <2>3 DEF FinishCancel, Written, Answered, InvitationRow
    <3> QED BY <3>1, UnansweredStep
  <2> QED
    BY <1>1, <1>4, <2>1, <2>2, <2>3
    DEF InvitationStep, Resend, BeginCancel, MailLink, LoseLink, LoseCancel, DropRequest,
        database
<1>5. ASSUME NEW w \in Workers, DeliveryStep(w)
      PROVE  AnswerInv'
  <2>1. CASE DeliverCommit(w)
    <3>1. UNCHANGED quotes /\ \A j \in Invitations : Answered(j)' => Answered(j)
      BY ZenonT(90), <1>0, <2>1 DEF DeliverCommit, Answered, InvitationRow
    <3> QED BY <3>1, UnansweredStep
  <2> QED
    BY <1>1, <1>5, <2>1 DEF DeliveryStep, DeliverMail, DeliverCount, LoseDelivery, database
<1>6. ASSUME NEW w \in Sweeps, SweepGoesOn(w)
      PROVE  AnswerInv'
  <2>1. CASE SweepExpire(w)
    <3>1. UNCHANGED quotes /\ \A j \in Invitations : Answered(j)' => Answered(j)
      BY ZenonT(90), <1>0, <2>1 DEF SweepExpire, Answered, InvitationRow
    <3> QED BY <3>1, UnansweredStep
  <2> QED
    BY <1>1, <1>6, <2>1
    DEF SweepGoesOn, SweepScan, SweepConsider, SweepDraft, SweepDies, SweepEnd, database
<1>7. CASE \E b \in Requests : FollowUpStep(b)
  BY ZenonT(90), <1>1, <1>7
  DEF FollowUpStep, Approve, BeginReject, FinishReject, ManualCustom, BeginManual, DraftManual,
      QueueManual, LoseManual, database
<1>8. CASE \/ Tick \/ Restart \/ UNCHANGED vars
           \/ \E w \in Sweeps : SweepBegin(w, "expire")
           \/ \E w \in Sweeps \ Timers : SweepBegin(w, "expireOnly")
  BY <1>1, <1>8 DEF Tick, Restart, vars, SweepBegin, database
<1> QED
  BY <1>2, <1>3, <1>4, <1>5, <1>6, <1>7, <1>8 DEF Next

(***************************************************************************)
(* An invitation that counts as answered has an answer, whatever resends,  *)
(* sweeps, withdrawals and other submissions run meanwhile (when it does   *)
(* not start out as answered and the buyer deletes no quote).              *)
(***************************************************************************)
THEOREM AnsweredIsQuoted ==
    ASSUME StartInvitation.status \notin {"submitted", "incomplete"}
    PROVE  Spec => []AnsweredMeansQuoted
<1>1. Init => AnswerInv
  BY DEF Init, AnswerInv, Answered
<1>2. CASE "deleteQuote" \notin BuyerOps
  <2>1. Inv /\ AnswerInv /\ [Next]_vars => AnswerInv'
    BY <1>2, NextAnswers
  <2>2. AnswerInv => AnsweredMeansQuoted
    BY DEF AnswerInv, Answered, AnsweredMeansQuoted
  <2> QED BY <1>1, <2>1, <2>2, InvHolds, PTL DEF Spec
<1>3. CASE "deleteQuote" \in BuyerOps
  <2>1. AnsweredMeansQuoted
    BY <1>3 DEF AnsweredMeansQuoted
  <2> QED BY <2>1, PTL
<1> QED BY <1>2, <1>3
=============================================================================
