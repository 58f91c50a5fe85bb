---------------------------- MODULE Chasing_proofs ----------------------------
(***************************************************************************)
(* Proofs about who is chased, and for what: the rows a sweep writes, and  *)
(* what it had read when it decided on them.                               *)
(***************************************************************************)
EXTENDS Outreach_proofs, FiniteSetTheorems

(***************************************************************************)
(* The policy reminds only of a link that was sent, and asks only for      *)
(* fields that are missing of a supplier nobody keeps waiting.             *)
(***************************************************************************)
LEMMA DecideReminds ==
    ASSUME NEW s, NEW at, Decide(s, at).kind \in ReminderKinds
    PROVE  s.lastSent # None
BY DEF Decide, DecideIncomplete, DecideOpen, MayRemind, Skip, Escalate, Ask, ReminderKinds

LEMMA DecideAsks ==
    ASSUME NEW s, NEW at, Decide(s, at).kind = "incomplete_quote"
    PROVE  s.missing /\ ~s.blocked
BY DEF Decide, DecideIncomplete, DecideOpen, ReminderKind, Skip, Escalate, Ask, Reminder

-----------------------------------------------------------------------------
(***************************************************************************)
(* What a step can do to a row: change its status, or write a new one,     *)
(* that is not the scheduler's unless a sweep drafts it.                   *)
(***************************************************************************)
RowKept(r) ==
    /\ Issued(r) => Issued(r)' /\ (HasRow(r)' => HasRow(r))
    /\ Issued(r) => /\ followups'[r].inv = followups[r].inv
                    /\ followups'[r].kind = followups[r].kind
                    /\ followups'[r].auto = followups[r].auto
                    /\ followups'[r].basis = followups[r].basis
    /\ mailed[r] > 0 => mailed'[r] > 0

\* An open row was open before, or a manual follow-up is being queued.
RowOpens(r) ==
    followups'[r].status \in {"draft", "queued"} =>
        \/ followups[r].status \in {"draft", "queued"}
        \/ \E b \in Requests : request[b].pc = "queue" /\ request[b].row = r

RowWritten(r) ==
    /\ ~Issued(r) /\ Issued(r)'
    /\ mailed[r] > 0 => mailed'[r] > 0
    /\ \/ ~followups'[r].auto
       \/ followups'[r] = [followups[r] EXCEPT !.status = "deleted"]
       \/ \E w \in Sweeps :
            /\ SweepDraft(w)
            /\ followups'[r] = FollowUp(sweep[w].item, sweep[w].kind,
                                        IF AutoSend THEN "queued" ELSE "draft",
                                        TRUE, sweep[w].basis)

RowStep(r) ==
    \/ RowKept(r) /\ followups'[r] = followups[r]
    \/ RowKept(r) /\ Issued(r) /\ RowOpens(r)
    \/ RowWritten(r)

\* A step that gives one row that was issued another status.
LEMMA StatusStep ==
    ASSUME Inv, NEW q \in Rows, NEW s, HasRow(q), s # "none",
           followups' = [followups EXCEPT ![q].status = s],
           \/ s \notin {"draft", "queued"}
           \/ s = followups[q].status
           \/ \E b \in Requests : request[b].pc = "queue" /\ request[b].row = q,
           \A r \in Rows : mailed[r] > 0 => mailed'[r] > 0
    PROVE  \A r \in Rows : RowStep(r)
<1>1. followups \in [Rows -> FollowUpRow]
  BY DEF Inv, TypeOK
<1>2. /\ followups'[q].status = s
      /\ followups'[q].inv = followups[q].inv
      /\ followups'[q].kind = followups[q].kind
      /\ followups'[q].auto = followups[q].auto
      /\ followups'[q].basis = followups[q].basis
  BY <1>1 DEF FollowUpRow
<1>3. \A r \in Rows \ {q} : followups'[r] = followups[r]
  BY <1>1
<1>4. RowStep(q)
  BY <1>2 DEF RowStep, RowKept, RowOpens, Issued, HasRow
<1>5. \A r \in Rows \ {q} : RowStep(r)
  BY <1>3 DEF RowStep, RowKept, Issued, HasRow
<1> QED BY <1>4, <1>5

\* A step that writes a row that is not the scheduler's.
LEMMA WriteStep ==
    ASSUME Inv, NEW q \in Rows, NewRow(q), NEW row, ~row.auto, row.status # "none",
           followups' = [followups EXCEPT ![q] = row],
           \A r \in Rows : mailed[r] > 0 => mailed'[r] > 0
    PROVE  \A r \in Rows : RowStep(r)
<1>1. followups \in [Rows -> FollowUpRow] /\ ~Issued(q)
  BY DEF Inv, TypeOK, NewRow, Issued
<1>2. followups'[q] = row /\ \A r \in Rows \ {q} : followups'[r] = followups[r]
  BY <1>1
<1>3. RowStep(q)
  BY <1>1, <1>2 DEF RowStep, RowWritten, Issued
<1>4. \A r \in Rows \ {q} : RowStep(r)
  BY <1>2 DEF RowStep, RowKept, Issued, HasRow
<1> QED BY <1>3, <1>4

LEMMA QuietRows ==
    ASSUME UNCHANGED followups, \A r \in Rows : mailed[r] > 0 => mailed'[r] > 0
    PROVE  \A r \in Rows : RowStep(r)
BY DEF RowStep, RowKept, Issued, HasRow

LEMMA RecordLinkRows ==
    ASSUME Inv, NEW b \in Requests, RecordLink(b)
    PROVE  \A r \in Rows : RowStep(r)
<1>1. PICK q \in Rows :
        /\ NewRow(q)
        /\ followups' = [followups EXCEPT
               ![q] = FollowUp(request[b].inv, "manual", request[b].outcome, FALSE, "none")]
        /\ mailed' = IF request[b].outcome = "sent" THEN [mailed EXCEPT ![q] = @ + 1]
                                                    ELSE mailed
  BY DEF RecordLink
<1>2. \A r \in Rows : mailed[r] > 0 => mailed'[r] > 0
  BY <1>1 DEF Inv, TypeOK
<1>3. /\ ~FollowUp(request[b].inv, "manual", request[b].outcome, FALSE, "none").auto
      /\ FollowUp(request[b].inv, "manual", request[b].outcome, FALSE, "none").status # "none"
  BY ZenonT(90) DEF FollowUp, RecordLink, Inv, HeldRowsIssued, RequestHolds
<1> QED BY <1>1, <1>2, <1>3, WriteStep

LEMMA DeleteRows ==
    ASSUME Inv, NEW i \in Invitations, DeleteInvitation(i)
    PROVE  \A r \in Rows : RowStep(r)
<1> SUFFICES ASSUME NEW r \in Rows PROVE RowStep(r)
  OBVIOUS
<1>1. followups[r] \in FollowUpRow /\ mailed' = mailed
  BY DEF Inv, TypeOK, DeleteInvitation, history
<1>2. CASE Issued(r) /\ followups[r].inv = i
  <2>1. followups'[r] = [followups[r] EXCEPT !.status = "deleted"]
    BY <1>2 DEF DeleteInvitation
  <2> QED BY <1>1, <1>2, <2>1 DEF FollowUpRow, RowStep, RowKept, RowOpens, Issued, HasRow
<1>3. CASE followups[r].inv # i
  <2>1. followups'[r] = followups[r]
    BY <1>3 DEF DeleteInvitation
  <2> QED BY <1>1, <2>1 DEF RowStep, RowKept, Issued, HasRow
<1>4. CASE ~Issued(r) /\ followups[r].inv = i
  <2>1. followups'[r] = [followups[r] EXCEPT !.status = "deleted"]
    BY SMTT(60), ZenonT(90), <1>4 DEF DeleteInvitation
  <2> QED BY <1>1, <1>4, <2>1 DEF RowStep, RowWritten, Issued, FollowUpRow
<1> QED BY <1>2, <1>3, <1>4

LEMMA FollowUpRows ==
    ASSUME Inv, NEW b \in Requests, FollowUpStep(b)
    PROVE  \A r \in Rows : RowStep(r)
<1>1. CASE FinishReject(b)
  <2>1. request[b].row \in Rows /\ Issued(request[b].row) /\ mailed' = mailed
    BY <1>1 DEF Inv, HeldRowsIssued, RequestHolds, FinishReject, Issued, history
  <2>2. CASE HasRow(request[b].row)
    <3> DEFINE s == Written(followups[request[b].row].status, request[b].seen, "rejected")
    <3>1. followups' = [followups EXCEPT ![request[b].row].status = s]
      BY <1>1, <2>2 DEF FinishReject
    <3>2. s # "none" /\ (s \notin {"draft", "queued"} \/ s = followups[request[b].row].status)
      BY <2>2 DEF Written, HasRow
    <3> HIDE DEF s
    <3> QED BY <2>1, <2>2, <3>1, <3>2, StatusStep
  <2>3. CASE ~HasRow(request[b].row)
    BY <1>1, <2>1, <2>3, QuietRows DEF FinishReject
  <2> QED BY <2>2, <2>3
<1>2. CASE \E i \in Invitations : ManualCustom(b, i)
  <2>1. PICK i \in Invitations, q \in Rows :
          /\ NewRow(q)
          /\ followups' = [followups EXCEPT ![q] = FollowUp(i, "manual", "queued", FALSE, "none")]
    BY <1>2 DEF ManualCustom
  <2>2. mailed' = mailed
    BY <1>2 DEF ManualCustom
  <2>3. /\ ~FollowUp(i, "manual", "queued", FALSE, "none").auto
        /\ FollowUp(i, "manual", "queued", FALSE, "none").status # "none"
    BY DEF FollowUp
  <2> QED BY <2>1, <2>2, <2>3, WriteStep
<1>3. CASE DraftManual(b)
  <2>1. PICK q \in Rows :
          /\ NewRow(q)
          /\ followups' = [followups EXCEPT
                 ![q] = FollowUp(request[b].inv, request[b].kind,
                                 IF AutoSend THEN "queued" ELSE "draft", FALSE, "none")]
    BY <1>3 DEF DraftManual
  <2>2. mailed' = mailed
    BY <1>3 DEF DraftManual, history
  <2>3. /\ ~FollowUp(request[b].inv, request[b].kind,
                     IF AutoSend THEN "queued" ELSE "draft", FALSE, "none").auto
        /\ FollowUp(request[b].inv, request[b].kind,
                    IF AutoSend THEN "queued" ELSE "draft", FALSE, "none").status # "none"
    BY DEF FollowUp
  <2> QED BY <2>1, <2>2, <2>3, WriteStep
<1>4. CASE QueueManual(b)
  <2>1. request[b].row \in Rows /\ HasRow(request[b].row) /\ request[b].pc = "queue"
    BY <1>4 DEF Inv, HeldRowsIssued, RequestHolds, QueueManual, Issued
  <2>2. mailed' = mailed
    BY <1>4 DEF QueueManual
  <2>3. followups' = [followups EXCEPT ![request[b].row].status = "queued"]
    BY <1>4 DEF QueueManual
  <2> QED BY <2>1, <2>2, <2>3, StatusStep
<1>5. CASE UNCHANGED <<followups, mailed>>
  BY <1>5, QuietRows
<1> QED
  BY <1>1, <1>2, <1>3, <1>4, <1>5
  DEF FollowUpStep, Approve, BeginReject, BeginManual, LoseManual, database, history

LEMMA DeliveryRows ==
    ASSUME Inv, NEW w \in Workers, DeliveryStep(w)
    PROVE  \A r \in Rows : RowStep(r)
<1>1. CASE DeliverMail(w)
  <2>1. UNCHANGED followups
    BY <1>1 DEF DeliverMail, database
  <2>2. \A r \in Rows : mailed[r] > 0 => mailed'[r] > 0
    <3>1. mailed \in [Rows -> Nat]
      BY DEF Inv, TypeOK
    <3>2. \/ mailed' = [mailed EXCEPT ![delivery[w].row] = mailed[delivery[w].row] + 1]
          \/ mailed' = mailed
      BY <1>1 DEF DeliverMail
    <3> QED BY <3>1, <3>2
  <2> QED BY <2>1, <2>2, QuietRows
<1>2. CASE DeliverCommit(w)
  <2> DEFINE q == delivery[w].row
             s == Written(followups[q].status, delivery[w].seen, delivery[w].outcome)
  <2>1. q \in Rows /\ HasRow(q) /\ mailed' = mailed
    BY ZenonT(90), <1>2 DEF Inv, HeldRowsIssued, DeliveryHolds, DeliverCommit, Issued, history
  <2>2. followups' = [followups EXCEPT ![q].status = s]
    BY <1>2 DEF DeliverCommit
  <2>3. delivery[w].outcome \in {"sent", "failed"}
    BY <1>2 DEF Inv, TypeOK, HeldRowsIssued, DeliveryHolds, DeliveryState, DeliverCommit
  <2>4. s # "none" /\ (s \notin {"draft", "queued"} \/ s = followups[q].status)
    BY <2>1, <2>3 DEF Written, HasRow
  <2> HIDE DEF q, s
  <2> QED BY <2>1, <2>2, <2>4, StatusStep
<1>3. CASE UNCHANGED <<followups, mailed>>
  BY <1>3, QuietRows
<1> QED
  BY <1>1, <1>2, <1>3 DEF DeliveryStep, DeliverCount, LoseDelivery, database, history

LEMMA SweepRows ==
    ASSUME Inv, NEW w \in Sweeps, SweepGoesOn(w)
    PROVE  \A r \in Rows : RowStep(r)
<1>1. CASE SweepDraft(w)
  <2>1. PICK q \in Rows :
          /\ NewRow(q)
          /\ followups' = [followups EXCEPT
                 ![q] = FollowUp(sweep[w].item, sweep[w].kind,
                                 IF AutoSend THEN "queued" ELSE "draft",
                                 TRUE, sweep[w].basis)]
    BY <1>1 DEF SweepDraft
  <2>2. mailed' = mailed /\ followups \in [Rows -> FollowUpRow] /\ ~Issued(q)
    BY <1>1, <2>1 DEF SweepDraft, history, Inv, TypeOK, NewRow, Issued
  <2>3. RowStep(q)
    <3>1. Issued(q)'
      BY <2>1, <2>2 DEF FollowUp, Issued
    <3> QED BY <1>1, <2>1, <2>2, <3>1 DEF RowStep, RowWritten
  <2>4. \A r \in Rows \ {q} : RowStep(r)
    BY <2>1, <2>2 DEF RowStep, RowKept, Issued, HasRow
  <2> QED BY <2>3, <2>4
<1>2. CASE UNCHANGED <<followups, mailed>>
  BY <1>2, QuietRows
<1> QED
  BY <1>1, <1>2
  DEF SweepGoesOn, SweepExpire, SweepScan, SweepConsider, SweepDies, SweepEnd, database, history

LEMMA NextRows ==
    ASSUME Inv, [Next]_vars
    PROVE  \A r \in Rows : RowStep(r)
<1>1. CASE UNCHANGED <<followups, mailed>>
  BY <1>1, QuietRows
<1>2. CASE Tick \/ Restart \/ UNCHANGED vars
  BY <1>1, <1>2 DEF Tick, Restart, vars, database, history
<1>3. CASE \E p \in Submissions : SubmissionStep(p)
  BY <1>1, <1>3
  DEF SubmissionStep, BeginSubmit, FinishSubmit, RefuseSubmit, database, history
<1>4. CASE BuyerStep
  BY SMTT(60), ZenonT(90), <1>1, <1>4, DeleteRows DEF BuyerStep, EditQuote, DeleteQuote, SetRfqStatus, history
<1>5. CASE \E b \in Requests : InvitationStep(b)
  BY ZenonT(90), <1>1, <1>5, RecordLinkRows
  DEF InvitationStep, Invite, Resend, BeginCancel, MailLink, LoseLink, FinishCancel,
      LoseCancel, DropRequest, database, history
<1>6. CASE \/ \E w \in Sweeps : SweepBegin(w, "expire")
           \/ \E w \in Sweeps \ Timers : SweepBegin(w, "expireOnly")
  BY <1>1, <1>6 DEF SweepBegin, database, history
<1> QED
  BY <1>2, <1>3, <1>4, <1>5, <1>6, FollowUpRows, DeliveryRows, SweepRows DEF Next

-----------------------------------------------------------------------------
(***************************************************************************)
(* What a step can do to a sweep: leave it, move it along without a draft  *)
(* (reading rows of the invitations table), or decide on a message.        *)
(***************************************************************************)
MovesAlong(w) ==
    /\ sweep'[w].pc # "draft"
    /\ \A j \in Invitations : sweep'[w].seen[j] \in {None, sweep[w].seen[j], invitation[j]}

Drafts(w) ==
    \E i \in Invitations : \E quote \in FoundQuotes(i) :
        LET decision == Decide(Snapshot(i, Row(w, i), quote), sweep[w].at)
        IN  /\ ~Delivering(w) /\ IsActionable(decision) /\ ~Duplicate(i, decision.kind)
            /\ sweep'[w].item = i
            /\ sweep'[w].kind = decision.kind
            /\ sweep'[w].basis = BasisOf(quote)
            /\ sweep'[w].seen = sweep[w].seen
            /\ UNCHANGED <<followups, mailed, delivery>>

SweepStep(w) == sweep'[w] = sweep[w] \/ MovesAlong(w) \/ Drafts(w)

LEMMA IdleSees ==
    /\ IdleSweep.pc # "draft"
    /\ \A x, y : \A j \in Invitations : IdleSweep.seen[j] \in {None, x, y}
BY DEF IdleSweep

LEMMA ConsiderSweeps ==
    ASSUME Inv, NEW w \in Sweeps, NEW i \in Invitations, SweepConsider(w, i)
    PROVE  \A v \in Sweeps : SweepStep(v)
<1>1. PICK quote \in FoundQuotes(i) :
        LET decision == Decide(Snapshot(i, Row(w, i), quote), sweep[w].at)
        IN  sweep' =
              IF IsActionable(decision) /\ ~Duplicate(i, decision.kind)
              THEN [sweep EXCEPT ![w].pc = "draft", ![w].item = i,
                                 ![w].kind = decision.kind,
                                 ![w].basis = BasisOf(quote)]
              ELSE [sweep EXCEPT ![w].todo = @ \ {i}]
  BY DEF SweepConsider
<1> DEFINE decision == Decide(Snapshot(i, Row(w, i), quote), sweep[w].at)
<1>2. sweep \in [Sweeps -> SweepState] /\ sweep[w].pc = "items"
  BY DEF Inv, TypeOK, SweepConsider
<1>3. ~Delivering(w) /\ UNCHANGED <<followups, mailed, delivery>>
  BY DEF SweepConsider, database, history
<1> HIDE DEF decision
<1>4. CASE /\ IsActionable(decision) /\ ~Duplicate(i, decision.kind)
           /\ sweep' = [sweep EXCEPT ![w].pc = "draft", ![w].item = i,
                                     ![w].kind = decision.kind,
                                     ![w].basis = BasisOf(quote)]
  <2>1. /\ sweep'[w].item = i /\ sweep'[w].kind = decision.kind
        /\ sweep'[w].basis = BasisOf(quote) /\ sweep'[w].seen = sweep[w].seen
        /\ \A v \in Sweeps \ {w} : sweep'[v] = sweep[v]
    BY <1>2, <1>4 DEF SweepState
  <2>2. Drafts(w)
    BY ZenonT(90), <1>3, <1>4, <2>1 DEF Drafts, decision
  <2> QED BY <2>1, <2>2 DEF SweepStep
<1>5. CASE sweep' = [sweep EXCEPT ![w].todo = @ \ {i}]
  <2>1. /\ sweep'[w].pc = "items" /\ sweep'[w].seen = sweep[w].seen
        /\ \A v \in Sweeps \ {w} : sweep'[v] = sweep[v]
    BY <1>2, <1>5 DEF SweepState
  <2> QED BY <2>1 DEF SweepStep, MovesAlong
<1> QED BY <1>1, <1>4, <1>5 DEF decision

\* Steps that give one sweep a record without a draft.
LEMMA AlongSweeps ==
    ASSUME Inv, NEW w \in Sweeps, NEW s, s.pc # "draft",
           \A j \in Invitations : s.seen[j] \in {None, sweep[w].seen[j], invitation[j]},
           sweep' = [sweep EXCEPT ![w] = s]
    PROVE  \A v \in Sweeps : SweepStep(v)
BY DEF Inv, TypeOK, SweepStep, MovesAlong

LEMMA SweepStops ==
    ASSUME Inv, NEW w \in Sweeps, sweep' = [sweep EXCEPT ![w] = IdleSweep]
    PROVE  \A v \in Sweeps : SweepStep(v)
<1>1. \A j \in Invitations : IdleSweep.seen[j] \in {None, sweep[w].seen[j], invitation[j]}
  BY IdleSees
<1> QED BY <1>1, IdleSees, AlongSweeps

LEMMA NextSweeps ==
    ASSUME Inv, [Next]_vars
    PROVE  \A w \in Sweeps : SweepStep(w)
<1>0. sweep \in [Sweeps -> SweepState]
  BY DEF Inv, TypeOK
<1>1. CASE UNCHANGED sweep
  BY <1>1 DEF SweepStep
<1>2. CASE Restart
  <2>1. \A w \in Sweeps : sweep'[w] = IdleSweep
    BY <1>2 DEF Restart
  <2> QED BY <2>1, IdleSees DEF SweepStep, MovesAlong
<1>3. ASSUME NEW w \in Sweeps, NEW next \in {"expire", "expireOnly"}, SweepBegin(w, next)
      PROVE  \A v \in Sweeps : SweepStep(v)
  <2> DEFINE s == [IdleSweep EXCEPT !.pc = next, !.at = now, !.overdue = Overdue(now)]
  <2>1. sweep' = [sweep EXCEPT ![w] = s]
    BY <1>3 DEF SweepBegin
  <2>2. /\ s.pc # "draft"
        /\ \A j \in Invitations : s.seen[j] \in {None, sweep[w].seen[j], invitation[j]}
    BY <1>3 DEF IdleSweep
  <2> HIDE DEF s
  <2> QED BY <2>1, <2>2, AlongSweeps
<1>4. ASSUME NEW w \in Sweeps, SweepGoesOn(w)
      PROVE  \A v \in Sweeps : SweepStep(v)
  <2>1. CASE SweepExpire(w)
    <3>1. CASE sweep' = [sweep EXCEPT ![w] = IdleSweep]
      BY <3>1, SweepStops
    <3>2. CASE sweep' = [sweep EXCEPT ![w].pc = "scan", ![w].overdue = {}]
      <4> DEFINE s == [sweep[w] EXCEPT !.pc = "scan", !.overdue = {}]
      <4>1. sweep' = [sweep EXCEPT ![w] = s]
        BY <3>2
      <4>2. s.pc # "draft" /\ s.seen = sweep[w].seen
        BY <1>0 DEF SweepState
      <4> HIDE DEF s
      <4> QED BY <4>1, <4>2, AlongSweeps
    <3> QED BY <2>1, <3>1, <3>2 DEF SweepExpire
  <2>2. CASE SweepScan(w)
    <3> DEFINE seen == [i \in Invitations |-> IF i \in Scanned THEN invitation[i] ELSE None]
               s == [sweep[w] EXCEPT !.pc = "items", !.todo = Scanned, !.seen = seen]
    <3>1. sweep' = [sweep EXCEPT ![w] = s]
      BY <2>2 DEF SweepScan
    <3>2. s.pc # "draft" /\ s.seen = seen
      BY <1>0 DEF SweepState
    <3>3. \A j \in Invitations : seen[j] \in {None, sweep[w].seen[j], invitation[j]}
      OBVIOUS
    <3> HIDE DEF s, seen
    <3> QED BY <3>1, <3>2, <3>3, AlongSweeps
  <2>3. CASE SweepDraft(w)
    <3> DEFINE s == [sweep[w] EXCEPT
                       !.pc = "items", !.todo = @ \ {sweep[w].item}, !.item = None,
                       !.kind = "none", !.basis = "none",
                       !.seen = [j \in Invitations |-> None]]
    <3>1. sweep' = [sweep EXCEPT ![w] = s]
      BY <2>3 DEF SweepDraft
    <3>2. /\ s.pc # "draft"
          /\ \A j \in Invitations : s.seen[j] \in {None, sweep[w].seen[j], invitation[j]}
      BY <1>0 DEF SweepState
    <3> HIDE DEF s
    <3> QED BY <3>1, <3>2, AlongSweeps
  <2>4. CASE SweepDies(w) \/ SweepEnd(w)
    BY <2>4, SweepStops DEF SweepDies, SweepEnd
  <2> QED BY <1>4, <2>1, <2>2, <2>3, <2>4, ConsiderSweeps DEF SweepGoesOn
<1>5. ASSUME NEW w \in Workers, DeliveryStep(w)
      PROVE  \A v \in Sweeps : SweepStep(v)
  <2>1. CASE LoseDelivery(w)
    <3>1. \A v \in Sweeps : sweep'[v] = sweep[v] \/ sweep'[v] = IdleSweep
      BY <2>1 DEF LoseDelivery
    <3> QED BY <3>1, IdleSees DEF SweepStep, MovesAlong
  <2> QED
    BY ZenonT(90), <1>1, <1>5, <2>1 DEF DeliveryStep, DeliverMail, DeliverCount, DeliverCommit
<1>6. CASE Tick \/ UNCHANGED vars
  BY <1>1, <1>6 DEF Tick, vars, workers
<1>7. CASE \E p \in Submissions : SubmissionStep(p)
  BY <1>1, <1>7 DEF SubmissionStep, BeginSubmit, FinishSubmit, RefuseSubmit
<1>8. CASE BuyerStep
  BY <1>1, <1>8
  DEF BuyerStep, DeleteInvitation, EditQuote, DeleteQuote, SetRfqStatus, workers
<1>9. CASE \E b \in Requests : InvitationStep(b) \/ FollowUpStep(b)
  BY ZenonT(90), <1>1, <1>9
  DEF InvitationStep, Invite, Resend, BeginCancel, MailLink, RecordLink, LoseLink,
      FinishCancel, LoseCancel, DropRequest, FollowUpStep, Approve, BeginReject, FinishReject,
      ManualCustom, BeginManual, DraftManual, QueueManual, LoseManual
<1> QED
  BY <1>2, <1>3, <1>4, <1>5, <1>6, <1>7, <1>8, <1>9 DEF Next

-----------------------------------------------------------------------------
(***************************************************************************)
(* What a sweep asks for. It may hold a decision to ask for missing fields *)
(* only when the quote it read named some.                                 *)
(***************************************************************************)
AskInv ==
    /\ AskedOnlyWhatIsMissing
    /\ \A w \in Sweeps :
          (sweep[w].pc = "draft" /\ sweep[w].kind = "incomplete_quote") =>
          sweep[w].basis = "incomplete"

LEMMA NextAsks ==
    ASSUME Inv, AskInv, [Next]_vars
    PROVE  AskInv'
<1>1. ASSUME NEW r \in Rows, followups'[r].auto, followups'[r].kind = "incomplete_quote"
      PROVE  followups'[r].basis = "incomplete"
  <2>0. followups[r] \in FollowUpRow
    BY DEF Inv, TypeOK
  <2>1. RowStep(r)
    BY NextRows
  <2>2. CASE ~RowWritten(r)
    BY <1>1, <2>1, <2>2 DEF RowStep, RowKept, AskInv, AskedOnlyWhatIsMissing
  <2>3. CASE RowWritten(r)
    <3>1. CASE followups'[r] = [followups[r] EXCEPT !.status = "deleted"]
      BY <1>1, <2>0, <3>1 DEF FollowUpRow, AskInv, AskedOnlyWhatIsMissing
    <3>2. CASE followups'[r] # [followups[r] EXCEPT !.status = "deleted"]
      <4>1. PICK w \in Sweeps :
              /\ SweepDraft(w)
              /\ followups'[r] = FollowUp(sweep[w].item, sweep[w].kind,
                                          IF AutoSend THEN "queued" ELSE "draft",
                                          TRUE, sweep[w].basis)
        BY <1>1, <2>3, <3>2 DEF RowWritten
      <4>2. sweep[w].pc = "draft"
        BY <4>1 DEF SweepDraft
      <4> QED BY <1>1, <4>1, <4>2 DEF FollowUp, AskInv
    <3> QED BY <3>1, <3>2
  <2> QED BY <2>2, <2>3
<1>2. ASSUME NEW w \in Sweeps, sweep'[w].pc = "draft", sweep'[w].kind = "incomplete_quote"
      PROVE  sweep'[w].basis = "incomplete"
  <2>1. CASE sweep'[w] = sweep[w]
    BY <1>2, <2>1 DEF AskInv
  <2>2. CASE Drafts(w)
    <3>1. PICK i \in Invitations : \E quote \in FoundQuotes(i) :
            /\ sweep'[w].kind = Decide(Snapshot(i, Row(w, i), quote), sweep[w].at).kind
            /\ sweep'[w].basis = BasisOf(quote)
      BY <2>2 DEF Drafts
    <3>2. PICK quote \in FoundQuotes(i) :
            /\ sweep'[w].kind = Decide(Snapshot(i, Row(w, i), quote), sweep[w].at).kind
            /\ sweep'[w].basis = BasisOf(quote)
      BY <3>1
    <3> DEFINE s == Snapshot(i, Row(w, i), quote)
    <3>3. s.missing /\ ~s.blocked
      BY <1>2, <3>2, DecideAsks
    <3>4. quote # None /\ quote.completeness = "incomplete" /\ ~quote.blocked
      BY <3>3 DEF Snapshot
    <3> QED BY <3>2, <3>4 DEF BasisOf
  <2> QED BY <1>2, <2>1, <2>2, NextSweeps DEF SweepStep, MovesAlong
<1> QED BY <1>1, <1>2 DEF AskInv, AskedOnlyWhatIsMissing

(***************************************************************************)
(* A sweep asks for missing fields only when the quote it read names some  *)
(* and keeps nobody waiting for the buyer.                                 *)
(***************************************************************************)
THEOREM AsksWhatIsMissing == Spec => []AskedOnlyWhatIsMissing
<1>1. Init => AskInv
  BY DEF Init, AskInv, AskedOnlyWhatIsMissing, NoRow, IdleSweep
<1>2. Inv /\ AskInv /\ [Next]_vars => AskInv'
  BY NextAsks
<1>3. AskInv => AskedOnlyWhatIsMissing
  BY DEF AskInv
<1> QED BY <1>1, <1>2, <1>3, InvHolds, PTL DEF Spec

-----------------------------------------------------------------------------
(***************************************************************************)
(* No copies. With one driver of the sweep, what it is drafting is not     *)
(* open yet: nobody else opens a row of the scheduler, since a manual      *)
(* follow-up queues only rows of its own.                                  *)
(***************************************************************************)
OpenAuto(r) == followups[r].auto /\ followups[r].status \in {"draft", "queued"}

CopyInv ==
    /\ \A b \in Requests : request[b].pc = "queue" => ~followups[request[b].row].auto
    /\ \A q, r \in Rows :
          /\ OpenAuto(q) /\ OpenAuto(r)
          /\ followups[q].inv = followups[r].inv
          /\ followups[q].kind = followups[r].kind
          => q = r
    /\ \A w \in Sweeps : sweep[w].pc = "draft" =>
          \A r \in Rows :
              OpenAuto(r) => <<followups[r].inv, followups[r].kind>> # <<sweep[w].item, sweep[w].kind>>

LEMMA QueuesManual ==
    ASSUME Inv, [Next]_vars, NEW b \in Requests, request'[b].pc = "queue"
    PROVE  \/ request'[b] = request[b]
           \/ ~followups'[request'[b].row].auto
<1>0. /\ request \in [Requests -> RequestState]
      /\ followups \in [Rows -> FollowUpRow]
      /\ IdleRequest.pc = "idle"
  BY DEF Inv, TypeOK, IdleRequest
<1>1. CASE UNCHANGED request
  BY <1>1
<1>2. ASSUME NEW c \in Requests, DraftManual(c)
      PROVE  request'[b] = request[b] \/ ~followups'[request'[b].row].auto
  <2>1. PICK r \in Rows :
          /\ followups' = [followups EXCEPT
                 ![r] = FollowUp(request[c].inv, request[c].kind,
                                 IF AutoSend THEN "queued" ELSE "draft", FALSE, "none")]
          /\ request' = [request EXCEPT ![c].pc = "queue", ![c].row = r]
    BY <1>2 DEF DraftManual
  <2>2. ~followups'[r].auto
    BY <1>0, <2>1 DEF FollowUp
  <2>3. request'[c].row = r
    BY <1>0, <2>1 DEF RequestState
  <2> QED BY <1>0, <2>1, <2>2, <2>3
<1>3. ASSUME NEW c \in Requests, InvitationStep(c)
      PROVE  request'[b] = request[b]
  <2>1. CASE MailLink(c)
    <3>1. PICK outcome \in {"sent", "failed"} :
            request' = [request EXCEPT ![c].pc = "send", ![c].outcome = outcome]
      BY <2>1 DEF MailLink
    <3>2. request'[c].pc = "send"
      BY <1>0, <3>1 DEF RequestState
    <3> QED BY <1>0, <3>1, <3>2
  <2>2. CASE \E i \in Invitations : Invite(c, i)
    BY <1>0, <2>2 DEF Invite, IdleRequest
  <2>3. CASE \E i \in Invitations : Resend(c, i) \/ BeginCancel(c, i)
    BY ZenonT(90), <1>0, <2>3 DEF Resend, BeginCancel, IdleRequest
  <2>4. CASE RecordLink(c) \/ LoseLink(c) \/ FinishCancel(c) \/ LoseCancel(c)
    BY <1>0, <2>4 DEF RecordLink, LoseLink, FinishCancel, LoseCancel, DropRequest
  <2> QED BY <1>3, <2>1, <2>2, <2>3, <2>4 DEF InvitationStep
<1>4. ASSUME NEW c \in Requests, FollowUpStep(c), ~DraftManual(c)
      PROVE  request'[b] = request[b]
  BY ZenonT(90), <1>0, <1>4
  DEF FollowUpStep, Approve, BeginReject, FinishReject, ManualCustom, BeginManual, QueueManual,
      LoseManual, IdleRequest
<1>5. CASE Restart
  BY <1>0, <1>5 DEF Restart
<1>6. CASE Tick \/ UNCHANGED vars
  BY <1>1, <1>6 DEF Tick, vars, workers
<1>7. CASE \E p \in Submissions : SubmissionStep(p)
  BY <1>1, <1>7 DEF SubmissionStep, BeginSubmit, FinishSubmit, RefuseSubmit
<1>8. CASE BuyerStep
  BY <1>1, <1>8
  DEF BuyerStep, DeleteInvitation, EditQuote, DeleteQuote, SetRfqStatus, workers
<1>9. CASE \E w \in Workers : DeliveryStep(w)
  BY ZenonT(90), <1>1, <1>9 DEF DeliveryStep, DeliverMail, DeliverCount, DeliverCommit, LoseDelivery
<1>10. CASE \/ \E w \in Sweeps : SweepBegin(w, "expire")
            \/ \E w \in Sweeps \ Timers : SweepBegin(w, "expireOnly")
            \/ \E w \in Sweeps : SweepGoesOn(w)
  BY ZenonT(90), <1>1, <1>10
  DEF SweepBegin, SweepGoesOn, SweepExpire, SweepScan, SweepConsider, SweepDraft, SweepDies,
      SweepEnd
<1> QED
  BY <1>2, <1>3, <1>4, <1>5, <1>6, <1>7, <1>8, <1>9, <1>10 DEF Next

\* A row of the scheduler that is open after a step was open before, or was just drafted.
LEMMA OpenStep ==
    ASSUME Inv, CopyInv, [Next]_vars, NEW r \in Rows, OpenAuto(r)'
    PROVE  \/ /\ OpenAuto(r)
              /\ followups'[r].inv = followups[r].inv
              /\ followups'[r].kind = followups[r].kind
           \/ /\ ~Issued(r)
              /\ \E w \in Sweeps : /\ SweepDraft(w)
                                   /\ followups'[r].inv = sweep[w].item
                                   /\ followups'[r].kind = sweep[w].kind
<1>0. followups[r] \in FollowUpRow
  BY DEF Inv, TypeOK
<1>1. RowStep(r)
  BY NextRows
<1>2. followups'[r].auto /\ followups'[r].status \in {"draft", "queued"}
  BY DEF OpenAuto
<1>3. CASE RowKept(r) /\ followups'[r] = followups[r]
  BY <1>2, <1>3 DEF OpenAuto
<1>4. CASE RowKept(r) /\ Issued(r) /\ RowOpens(r)
  BY <1>2, <1>4 DEF RowKept, RowOpens, OpenAuto, CopyInv
<1>5. CASE RowWritten(r)
  <2>1. followups'[r] # [followups[r] EXCEPT !.status = "deleted"]
    BY <1>0, <1>2 DEF FollowUpRow
  <2>2. PICK w \in Sweeps :
          /\ SweepDraft(w)
          /\ followups'[r] = FollowUp(sweep[w].item, sweep[w].kind,
                                      IF AutoSend THEN "queued" ELSE "draft",
                                      TRUE, sweep[w].basis)
    BY <1>2, <1>5, <2>1 DEF RowWritten
  <2> QED BY <1>5, <2>2 DEF RowWritten, FollowUp
<1> QED BY <1>1, <1>3, <1>4, <1>5 DEF RowStep

LEMMA NextCopies ==
    ASSUME Inv, CopyInv, [Next]_vars, \A v, w \in Sweeps : v = w
    PROVE  CopyInv'
<1>1. ASSUME NEW b \in Requests, request'[b].pc = "queue"
      PROVE  ~followups'[request'[b].row].auto
  <2>1. CASE request'[b] = request[b]
    <3>1. request[b].row \in Rows /\ Issued(request[b].row) /\ ~followups[request[b].row].auto
      BY <1>1, <2>1 DEF Inv, HeldRowsIssued, RequestHolds, Issued, CopyInv
    <3>2. RowStep(request[b].row)
      BY <3>1, NextRows
    <3> QED BY <2>1, <3>1, <3>2 DEF RowStep, RowKept, RowWritten
  <2> QED BY <1>1, <2>1, QueuesManual
<1>2. ASSUME NEW q \in Rows, NEW r \in Rows, OpenAuto(q)', OpenAuto(r)',
             followups'[q].inv = followups'[r].inv, followups'[q].kind = followups'[r].kind
      PROVE  q = r
  <2>1. CASE OpenAuto(q) /\ OpenAuto(r) /\ Issued(q) /\ Issued(r)
    <3>1. /\ followups'[q].inv = followups[q].inv /\ followups'[q].kind = followups[q].kind
          /\ followups'[r].inv = followups[r].inv /\ followups'[r].kind = followups[r].kind
      BY <1>2, <2>1, OpenStep
    <3> QED BY <1>2, <2>1, <3>1 DEF CopyInv
  <2>2. ASSUME NEW x \in Rows, NEW y \in Rows, OpenAuto(x)', OpenAuto(y)',
               followups'[x].inv = followups'[y].inv, followups'[x].kind = followups'[y].kind,
               ~Issued(x)
        PROVE  x = y
    <3>1. ~OpenAuto(x)
      BY <2>2 DEF OpenAuto, Issued
    <3>2. PICK w \in Sweeps : /\ SweepDraft(w)
                              /\ followups'[x].inv = sweep[w].item
                              /\ followups'[x].kind = sweep[w].kind
      BY <2>2, <3>1, OpenStep
    <3>3. sweep[w].pc = "draft"
      BY <3>2 DEF SweepDraft
    <3>4. ~ (/\ OpenAuto(y)
             /\ followups'[y].inv = followups[y].inv
             /\ followups'[y].kind = followups[y].kind)
      BY <2>2, <3>2, <3>3 DEF CopyInv
    <3>5. ~Issued(y)
      BY <2>2, <3>4, OpenStep
    <3>6. PICK z \in Rows : /\ NewRow(z)
                            /\ \A n \in Rows \ {z} : followups'[n] = followups[n]
      BY <3>2 DEF SweepDraft, Inv, TypeOK
    <3>7. x = z /\ y = z
      BY <2>2, <3>1, <3>5, <3>6 DEF OpenAuto, Issued
    <3> QED BY <3>7
  <2>3. CASE Issued(q) /\ Issued(r)
    <3>1. OpenAuto(q) /\ OpenAuto(r)
      BY <1>2, <2>3, OpenStep
    <3> QED BY <2>1, <2>3, <3>1
  <2> QED BY <1>2, <2>2, <2>3
<1>3. ASSUME NEW w \in Sweeps, sweep'[w].pc = "draft", NEW r \in Rows, OpenAuto(r)'
      PROVE  <<followups'[r].inv, followups'[r].kind>> # <<sweep'[w].item, sweep'[w].kind>>
  <2>1. CASE sweep'[w] = sweep[w]
    <3>1. \A v \in Sweeps : ~SweepDraft(v)
      <4>1. SweepDraft(w) => sweep'[w].pc = "items"
        BY DEF SweepDraft, Inv, TypeOK, SweepState
      <4> QED BY <1>3, <4>1
    <3>2. /\ OpenAuto(r)
          /\ followups'[r].inv = followups[r].inv
          /\ followups'[r].kind = followups[r].kind
      BY <1>3, <3>1, OpenStep
    <3> QED BY <1>3, <2>1, <3>2 DEF CopyInv
  <2>2. CASE Drafts(w)
    <3>1. PICK i \in Invitations : \E quote \in FoundQuotes(i) :
            /\ ~Duplicate(i, Decide(Snapshot(i, Row(w, i), quote), sweep[w].at).kind)
            /\ sweep'[w].item = i
            /\ sweep'[w].kind = Decide(Snapshot(i, Row(w, i), quote), sweep[w].at).kind
            /\ UNCHANGED followups
      BY <2>2 DEF Drafts
    <3>2. ~Duplicate(i, sweep'[w].kind) /\ sweep'[w].item = i /\ followups' = followups
      BY <3>1
    <3>3. followups[r].status \in {"draft", "queued"}
      BY <1>3, <3>2 DEF OpenAuto
    <3> QED BY <3>2, <3>3 DEF Duplicate
  <2> QED BY <1>3, <2>1, <2>2, NextSweeps DEF SweepStep, MovesAlong
<1> QED BY <1>1, <1>2, <1>3 DEF CopyInv, OpenAuto

(***************************************************************************)
(* One driver of the sweep keeps at most one open message of a kind for an *)
(* invitation, however many requests approve, reject and write messages    *)
(* meanwhile. (Two drivers do not, as the run overlap shows.)              *)
(***************************************************************************)
THEOREM NoCopies ==
    ASSUME \A v, w \in Sweeps : v = w
    PROVE  Spec => []NoDuplicateDrafts
<1>1. Init => CopyInv
  BY DEF Init, CopyInv, OpenAuto, NoRow, IdleSweep, IdleRequest
<1>2. Inv /\ CopyInv /\ [Next]_vars => CopyInv'
  BY NextCopies
<1>3. CopyInv => NoDuplicateDrafts
  <2> SUFFICES ASSUME CopyInv, NEW i \in Invitations, NEW kind \in Kinds
               PROVE  Cardinality(OpenAutoRows(i, kind)) <= 1
    BY DEF NoDuplicateDrafts
  <2>1. \A q, r \in OpenAutoRows(i, kind) : q = r
    BY DEF CopyInv, OpenAutoRows, AutoRow, OpenAuto
  <2>2. CASE OpenAutoRows(i, kind) = {}
    BY <2>2, FS_EmptySet
  <2>3. CASE OpenAutoRows(i, kind) # {}
    <3>1. PICK r \in OpenAutoRows(i, kind) : TRUE
      BY <2>3
    <3>2. OpenAutoRows(i, kind) = {r}
      BY <2>1, <3>1
    <3>3. Cardinality({r}) = 1
      BY FS_Singleton
    <3>4. Cardinality(OpenAutoRows(i, kind)) = 1
      BY <3>2, <3>3
    <3> QED BY <3>4
  <2> QED BY <2>2, <2>3
<1> QED BY <1>1, <1>2, <1>3, InvHolds, PTL DEF Spec

-----------------------------------------------------------------------------
(***************************************************************************)
(* Who is reminded. A date of sending, in the table or in the rows a sweep *)
(* has read, means that an email with the link was accepted; so does a     *)
(* reminder that a sweep is writing.                                       *)
(***************************************************************************)
WasInvited(i) ==
    \E q \in Rows : /\ Issued(q)
                    /\ followups[q].inv = i /\ followups[q].kind = "manual"
                    /\ mailed[q] > 0

InvitedInv ==
    /\ \A i \in Invitations : invitation[i].lastSent # None => WasInvited(i)
    /\ \A w \in Sweeps : \A i \in Invitations :
          (sweep[w].seen[i] # None /\ sweep[w].seen[i].lastSent # None) => WasInvited(i)
    /\ \A w \in Sweeps :
          (sweep[w].pc = "draft" /\ sweep[w].kind \in ReminderKinds) =>
          WasInvited(sweep[w].item)
    /\ \A r \in Rows :
          (AutoRow(r) /\ followups[r].kind \in ReminderKinds) => WasInvited(followups[r].inv)

LEMMA InvitedKept ==
    ASSUME Inv, [Next]_vars, NEW i, WasInvited(i)
    PROVE  WasInvited(i)'
<1>1. PICK q \in Rows : /\ Issued(q)
                        /\ followups[q].inv = i /\ followups[q].kind = "manual"
                        /\ mailed[q] > 0
  BY DEF WasInvited
<1>2. RowStep(q)
  BY NextRows
<1>3. RowKept(q)
  BY <1>1, <1>2 DEF RowStep, RowWritten
<1>4. /\ Issued(q)' /\ followups'[q].inv = i /\ followups'[q].kind = "manual"
      /\ mailed'[q] > 0
  BY <1>1, <1>3 DEF RowKept
<1> QED BY <1>4 DEF WasInvited

\* Only a link the provider accepted is dated.
LEMMA DatedStep ==
    ASSUME Inv, [Next]_vars, NEW i \in Invitations
    PROVE  \/ invitation'[i].lastSent \in {None, invitation[i].lastSent}
           \/ WasInvited(i)'
<1>0. invitation \in [Invitations -> InvitationRow]
  BY DEF Inv, TypeOK
<1>1. CASE UNCHANGED invitation
  BY <1>1
<1>2. ASSUME NEW b \in Requests, RecordLink(b)
      PROVE  \/ invitation'[i].lastSent = invitation[i].lastSent
             \/ WasInvited(i)'
  <2> DEFINE j == request[b].inv
             accepted == request[b].outcome = "sent"
  <2>1. invitation' = [invitation EXCEPT
            ![j].expires  = IF request[b].renew # None THEN request[b].renew ELSE @,
            ![j].lastSent = IF accepted THEN now ELSE @,
            ![j].status   = IF accepted /\ request[b].seen = "expired" THEN "pending" ELSE @]
    BY ZenonT(90), <1>2 DEF RecordLink
  <2>2. invitation'[i].lastSent = invitation[i].lastSent \/ (i = j /\ accepted)
    BY <1>0, <2>1 DEF InvitationRow
  <2>3. CASE i = j /\ accepted
    <3>1. PICK r \in Rows :
            /\ followups' = [followups EXCEPT
                   ![r] = FollowUp(j, "manual", request[b].outcome, FALSE, "none")]
            /\ mailed' = [mailed EXCEPT ![r] = mailed[r] + 1]
      BY <1>2, <2>3 DEF RecordLink
    <3>2. /\ followups'[r] = FollowUp(i, "manual", "sent", FALSE, "none")
          /\ mailed'[r] > 0
      BY <2>3, <3>1 DEF Inv, TypeOK
    <3>3. /\ followups'[r].status # "none"
          /\ followups'[r].inv = i /\ followups'[r].kind = "manual"
      BY <3>2 DEF FollowUp
    <3> QED BY <3>2, <3>3 DEF WasInvited, Issued
  <2> QED BY <2>2, <2>3
<1>3. ASSUME NEW b \in Requests, InvitationStep(b), ~RecordLink(b)
      PROVE  invitation'[i].lastSent = invitation[i].lastSent
  <2>1. CASE \E j \in Invitations : Invite(b, j)
    BY <1>0, <2>1 DEF Invite, InvitationRow
  <2>2. CASE FinishCancel(b)
    BY <1>0, <2>2 DEF FinishCancel, InvitationRow
  <2> QED
    BY <1>1, <1>3, <2>1, <2>2
    DEF InvitationStep, Resend, BeginCancel, MailLink, LoseLink, LoseCancel, DropRequest,
        database
<1>4. CASE \E p \in Submissions : SubmissionStep(p)
  <2>1. PICK p \in Submissions : SubmissionStep(p)
    BY <1>4
  <2>2. CASE FinishSubmit(p)
    <3>1. invitation'[i].lastSent = invitation[i].lastSent
      BY <1>0, <2>2 DEF FinishSubmit, InvitationRow
    <3> QED BY <3>1
  <2>3. CASE ~FinishSubmit(p)
    <3>1. UNCHANGED invitation
      BY <2>1, <2>3 DEF SubmissionStep, BeginSubmit, RefuseSubmit, database
    <3> QED BY <3>1, <1>1
  <2> QED BY <2>2, <2>3
<1>5. CASE BuyerStep
  <2>1. CASE \E j \in Invitations : DeleteInvitation(j)
    <3>1. PICK j \in Invitations : DeleteInvitation(j)
      BY <2>1
    <3>2. [AbsentInvitation EXCEPT !.status = "deleted"].lastSent = None
      BY DEF AbsentInvitation
    <3>3. invitation'[i].lastSent \in {None, invitation[i].lastSent}
      BY <1>0, <3>1, <3>2 DEF DeleteInvitation
    <3> QED BY <3>3
  <2>2. CASE ~\E j \in Invitations : DeleteInvitation(j)
    <3>1. UNCHANGED invitation
      BY <1>5, <2>2 DEF BuyerStep, EditQuote, DeleteQuote, SetRfqStatus
    <3> QED BY <3>1, <1>1
  <2> QED BY <2>1, <2>2
<1>6. CASE \E w \in Workers : DeliveryStep(w)
  <2>1. PICK w \in Workers : DeliveryStep(w)
    BY <1>6
  <2>2. CASE DeliverCommit(w)
    <3>1. invitation'[i].lastSent = invitation[i].lastSent
      BY ZenonT(90), <1>0, <2>2 DEF DeliverCommit, InvitationRow
    <3> QED BY <3>1
  <2>3. CASE ~DeliverCommit(w)
    <3>1. UNCHANGED invitation
      BY <2>1, <2>3 DEF DeliveryStep, DeliverMail, DeliverCount, LoseDelivery, database
    <3> QED BY <3>1, <1>1
  <2> QED BY <2>2, <2>3
<1>7. CASE \E w \in Sweeps : SweepGoesOn(w)
  <2>1. PICK w \in Sweeps : SweepGoesOn(w)
    BY <1>7
  <2>2. CASE SweepExpire(w)
    <3>1. invitation'[i].lastSent = invitation[i].lastSent
      BY <1>0, <2>2 DEF SweepExpire, InvitationRow
    <3> QED BY <3>1
  <2>3. CASE ~SweepExpire(w)
    <3>1. SweepScan(w) \/ SweepDies(w) \/ SweepEnd(w) => UNCHANGED invitation
      BY DEF SweepScan, SweepDies, SweepEnd, database
    <3>2. SweepDraft(w) => UNCHANGED invitation
      BY DEF SweepDraft, database
    <3>3. ASSUME NEW j \in Invitations, SweepConsider(w, j) PROVE UNCHANGED invitation
      BY <3>3 DEF SweepConsider, database
    <3>4. UNCHANGED invitation
      BY SMTT(60), ZenonT(90), <2>1, <2>3, <3>1, <3>2, <3>3 DEF SweepGoesOn
    <3> QED BY <3>4, <1>1
  <2> QED BY <2>2, <2>3
<1>8. CASE \E b \in Requests : FollowUpStep(b)
  <2>1. PICK b \in Requests : FollowUpStep(b)
    BY <1>8
  <2>2. UNCHANGED invitation
    BY ZenonT(90), <2>1 DEF FollowUpStep, Approve, BeginReject, FinishReject, ManualCustom, BeginManual,
                DraftManual, QueueManual, LoseManual, database
  <2> QED BY <2>2, <1>1
<1>9. CASE \/ Tick \/ Restart \/ UNCHANGED vars
           \/ \E w \in Sweeps : SweepBegin(w, "expire")
           \/ \E w \in Sweeps \ Timers : SweepBegin(w, "expireOnly")
  BY <1>1, <1>9 DEF Tick, Restart, vars, SweepBegin, database
<1> QED
  BY <1>2, <1>3, <1>4, <1>5, <1>6, <1>7, <1>8, <1>9 DEF Next

LEMMA NextInvited ==
    ASSUME Inv, InvitedInv, [Next]_vars
    PROVE  InvitedInv'
<1>1. \A i \in Invitations : (invitation[i].lastSent # None => WasInvited(i))'
  BY DatedStep, InvitedKept DEF InvitedInv
<1>2. ASSUME NEW w \in Sweeps, NEW i \in Invitations,
             sweep'[w].seen[i] # None, sweep'[w].seen[i].lastSent # None
      PROVE  WasInvited(i)'
  <2>1. sweep'[w].seen[i] \in {None, sweep[w].seen[i], invitation[i]}
    BY NextSweeps DEF SweepStep, MovesAlong, Drafts
  <2>2. WasInvited(i)
    BY <1>2, <2>1 DEF InvitedInv
  <2> QED BY <2>2, InvitedKept
<1>3. ASSUME NEW w \in Sweeps, sweep'[w].pc = "draft", sweep'[w].kind \in ReminderKinds
      PROVE  WasInvited(sweep[w].item)'
  <2>1. CASE sweep'[w] = sweep[w]
    <3>1. WasInvited(sweep[w].item)
      BY <1>3, <2>1 DEF InvitedInv
    <3>2. \A i : WasInvited(i) => WasInvited(i)'
      BY InvitedKept
    <3> QED BY <2>1, <3>1, <3>2 DEF WasInvited
  <2>2. CASE Drafts(w)
    <3>1. PICK i \in Invitations : \E quote \in FoundQuotes(i) :
            /\ sweep'[w].item = i
            /\ sweep'[w].kind = Decide(Snapshot(i, Row(w, i), quote), sweep[w].at).kind
      BY <2>2 DEF Drafts
    <3>2. PICK quote \in FoundQuotes(i) :
            sweep'[w].kind = Decide(Snapshot(i, Row(w, i), quote), sweep[w].at).kind
      BY <3>1
    <3>3. Row(w, i).lastSent # None
      <4>1. Snapshot(i, Row(w, i), quote).lastSent # None
        BY <1>3, <3>2, DecideReminds
      <4> QED BY <4>1 DEF Snapshot
    <3>4. WasInvited(i)
      BY <3>3 DEF Row, InvitedInv
    <3>5. WasInvited(i)'
      BY <3>4, InvitedKept
    <3> QED BY <3>1, <3>5 DEF WasInvited
  <2> QED BY <1>3, <2>1, <2>2, NextSweeps DEF SweepStep, MovesAlong
<1>4. ASSUME NEW r \in Rows, AutoRow(r)', followups'[r].kind \in ReminderKinds
      PROVE  WasInvited(followups[r].inv)'
  <2>0. followups[r] \in FollowUpRow
    BY DEF Inv, TypeOK
  <2>1. RowStep(r)
    BY NextRows
  <2>2. WasInvited(followups'[r].inv)
    <3>1. CASE ~RowWritten(r)
      BY <1>4, <2>1, <3>1 DEF RowStep, RowKept, AutoRow, HasRow, Issued, InvitedInv
    <3>2. CASE RowWritten(r)
      <4>1. followups'[r] # [followups[r] EXCEPT !.status = "deleted"]
        BY <1>4, <2>0 DEF FollowUpRow, AutoRow, HasRow
      <4>2. PICK w \in Sweeps :
              /\ SweepDraft(w)
              /\ followups'[r] = FollowUp(sweep[w].item, sweep[w].kind,
                                          IF AutoSend THEN "queued" ELSE "draft",
                                          TRUE, sweep[w].basis)
        BY <1>4, <3>2, <4>1 DEF RowWritten, AutoRow
      <4>3. sweep[w].pc = "draft"
        BY <4>2 DEF SweepDraft
      <4> QED BY <1>4, <4>2, <4>3 DEF FollowUp, InvitedInv
    <3> QED BY <3>1, <3>2
  <2>3. \A i : WasInvited(i) => WasInvited(i)'
    BY InvitedKept
  <2> QED BY <2>2, <2>3 DEF WasInvited
<1> QED BY <1>1, <1>2, <1>3, <1>4 DEF InvitedInv, WasInvited, AutoRow, HasRow, Issued

(***************************************************************************)
(* Nobody is chased who was not invited: when no invitation starts out as  *)
(* sent, a reminder of the scheduler exists only for an invitation whose   *)
(* link the provider accepted.                                             *)
(***************************************************************************)
THEOREM OnlyInvitedChased == Spec => []ChasedMeansInvited
<1>1. StartInvitation.lastSent = None /\ Init => InvitedInv
  BY DEF Init, InvitedInv, IdleSweep, NoRow, AutoRow, HasRow
<1>2. Inv /\ InvitedInv /\ [Next]_vars => InvitedInv'
  BY NextInvited
<1>3. InvitedInv => ChasedMeansInvited
  BY DEF InvitedInv, WasInvited, ChasedMeansInvited
<1>4. StartInvitation.lastSent # None => ChasedMeansInvited
  BY DEF ChasedMeansInvited
<1>5. CASE StartInvitation.lastSent = None
  <2>1. Init => InvitedInv
    BY <1>1, <1>5
  <2> QED BY <1>2, <1>3, <2>1, InvHolds, PTL DEF Spec
<1>6. CASE StartInvitation.lastSent # None
  <2>1. ChasedMeansInvited
    BY <1>4, <1>6
  <2> QED BY <2>1, PTL
<1> QED BY <1>5, <1>6
=============================================================================
