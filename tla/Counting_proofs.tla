---------------------------- MODULE Counting_proofs ----------------------------
(***************************************************************************)
(* Proofs that count emails: the reminders an invitation is charged for,   *)
(* how often automatic sending writes to one supplier, and the ledger of   *)
(* contacts that the whole component implements.                           *)
(***************************************************************************)
EXTENDS Chasing_proofs

(***************************************************************************)
(* The set of a group's emails: finite, growing with the rows and with how *)
(* often they were accepted, by one when one row is accepted once more.    *)
(***************************************************************************)
LEMMA MailsMember ==
    ASSUME NEW rows, NEW times, NEW x
    PROVE  x \in MailsOf(rows, times) <=> \E r \in rows : \E n \in 1 .. times[r] : x = <<r, n>>
BY DEF MailsOf

LEMMA RowsFinite == ASSUME NEW rows \in SUBSET Rows PROVE IsFiniteSet(rows)
<1>1. MaxRows \in Int
  BY OutreachAssumption
<1>2. IsFiniteSet(Rows)
  BY <1>1, FS_Interval DEF Rows
<1> QED BY <1>2, FS_Subset

LEMMA WorkersFinite == IsFiniteSet(Workers)
BY OutreachAssumption, FS_Union DEF Workers

LEMMA MailsFinite ==
    ASSUME NEW rows \in SUBSET Rows, NEW times \in [Rows -> Nat]
    PROVE  /\ IsFiniteSet(MailsOf(rows, times))
           /\ Cardinality(MailsOf(rows, times)) \in Nat
<1> DEFINE Of(r) == {r} \X (1 .. times[r])
           Groups == {Of(r) : r \in rows}
           f == [r \in rows |-> Of(r)]
<1>1. f \in Surjection(rows, Groups)
  BY DEF Surjection
<1>2. IsFiniteSet(Groups)
  BY <1>1, RowsFinite, FS_Surjection
<1>3. ASSUME NEW r \in rows PROVE IsFiniteSet(Of(r))
  <2>1. 1 \in Int /\ times[r] \in Int
    OBVIOUS
  <2>2. IsFiniteSet(1 .. times[r])
    BY <2>1, FS_Interval
  <2>3. IsFiniteSet({r})
    BY FS_Singleton
  <2> QED BY <2>2, <2>3, FS_Product
<1>4. \A T \in Groups : IsFiniteSet(T)
  BY <1>3
<1>5. IsFiniteSet(UNION Groups)
  BY <1>2, <1>4, FS_UNION
<1>6. MailsOf(rows, times) = UNION Groups
  BY DEF MailsOf
<1> HIDE DEF Groups
<1> QED BY <1>5, <1>6, FS_CardinalityType

LEMMA MailsGrow ==
    ASSUME NEW rows \in SUBSET Rows, NEW more \in SUBSET Rows, rows \subseteq more,
           NEW times \in [Rows -> Nat], NEW later \in [Rows -> Nat],
           \A r \in Rows : times[r] <= later[r]
    PROVE  Cardinality(MailsOf(rows, times)) <= Cardinality(MailsOf(more, later))
<1>1. MailsOf(rows, times) \subseteq MailsOf(more, later)
  <2> SUFFICES ASSUME NEW x \in MailsOf(rows, times) PROVE x \in MailsOf(more, later)
    OBVIOUS
  <2>1. PICK r \in rows : \E n \in 1 .. times[r] : x = <<r, n>>
    BY MailsMember
  <2>2. PICK n \in 1 .. times[r] : x = <<r, n>>
    BY <2>1
  <2>3. times[r] \in Nat /\ later[r] \in Nat /\ times[r] <= later[r]
    OBVIOUS
  <2>4. n \in 1 .. later[r]
    BY <2>3
  <2> QED BY <2>2, <2>4, MailsMember
<1> QED BY <1>1, MailsFinite, FS_Subset

LEMMA MailsOneMore ==
    ASSUME NEW rows \in SUBSET Rows, NEW more \in SUBSET Rows, rows \subseteq more,
           NEW times \in [Rows -> Nat], NEW later \in [Rows -> Nat],
           \A r \in Rows : times[r] <= later[r],
           NEW q \in rows, times[q] < later[q]
    PROVE  Cardinality(MailsOf(rows, times)) + 1 <= Cardinality(MailsOf(more, later))
<1> DEFINE before == MailsOf(rows, times)
           after == MailsOf(more, later)
           new == <<q, times[q] + 1>>
<1>1. ASSUME NEW x \in before PROVE x \in after
  <2>1. PICK r \in rows : \E n \in 1 .. times[r] : x = <<r, n>>
    BY <1>1, MailsMember
  <2>2. PICK n \in 1 .. times[r] : x = <<r, n>>
    BY <2>1
  <2>3. times[r] \in Nat /\ later[r] \in Nat /\ times[r] <= later[r]
    OBVIOUS
  <2>4. n \in 1 .. later[r]
    BY <2>3
  <2> QED BY <2>2, <2>4, MailsMember
<1>2. new \in after
  <2>1. times[q] + 1 \in 1 .. later[q]
    OBVIOUS
  <2> QED BY <2>1, MailsMember
<1>3. new \notin before
  <2> SUFFICES ASSUME new \in before PROVE FALSE
    OBVIOUS
  <2>1. PICK r \in rows : \E n \in 1 .. times[r] : new = <<r, n>>
    BY MailsMember
  <2>2. times[q] + 1 \in 1 .. times[q]
    BY <2>1
  <2> QED BY <2>2
<1>4. /\ IsFiniteSet(before) /\ IsFiniteSet(after)
      /\ Cardinality(before) \in Nat /\ Cardinality(after) \in Nat
  BY MailsFinite
<1> HIDE DEF before, after, new
<1>5. Cardinality(before \union {new}) = Cardinality(before) + 1
      /\ IsFiniteSet(before \union {new})
  BY <1>3, <1>4, FS_AddElement
<1>6. before \union {new} \subseteq after
  BY <1>1, <1>2
<1>7. Cardinality(before \union {new}) <= Cardinality(after)
  BY <1>4, <1>6, FS_Subset
<1>8. Cardinality(before) + 1 <= Cardinality(after)
  BY <1>5, <1>7
<1> QED BY <1>8 DEF before, after

-----------------------------------------------------------------------------
(***************************************************************************)
(* Who moves what: the steps that accept an email, those that move a       *)
(* delivery past its email, and those that write a reminder count.         *)
(***************************************************************************)
LEMMA NextWriters ==
    ASSUME [Next]_vars
    PROVE  /\ \/ UNCHANGED mailed
              \/ \E b \in Requests : RecordLink(b)
              \/ \E w \in Workers : DeliverMail(w)
           /\ \/ UNCHANGED delivery
              \/ Restart
              \/ \E b \in Requests : \/ \E r \in Rows : Approve(b, r)
                                     \/ \E i \in Invitations : ManualCustom(b, i)
                                     \/ QueueManual(b)
              \/ \E w \in Workers : DeliveryStep(w)
              \/ \E w \in Sweeps : SweepDraft(w)
           /\ \/ UNCHANGED invitation
              \/ \E p \in Submissions : FinishSubmit(p)
              \/ \E i \in Invitations : DeleteInvitation(i)
              \/ \E b \in Requests : \/ \E i \in Invitations : Invite(b, i)
                                     \/ RecordLink(b) \/ FinishCancel(b)
              \/ \E w \in Workers : DeliverCommit(w)
              \/ \E w \in Sweeps : SweepExpire(w)
           /\ \/ UNCHANGED followups
              \/ \E i \in Invitations : DeleteInvitation(i)
              \/ \E b \in Requests : \/ RecordLink(b) \/ FinishReject(b)
                                     \/ \E i \in Invitations : ManualCustom(b, i)
                                     \/ DraftManual(b) \/ QueueManual(b)
              \/ \E w \in Workers : DeliverCommit(w)
              \/ \E w \in Sweeps : SweepDraft(w)
<1>1. CASE \/ Tick \/ Restart \/ UNCHANGED vars
           \/ \E w \in Sweeps : SweepBegin(w, "expire")
           \/ \E w \in Sweeps \ Timers : SweepBegin(w, "expireOnly")
  BY <1>1 DEF Tick, Restart, vars, SweepBegin, history, database, workers
<1>2. CASE \E p \in Submissions : SubmissionStep(p)
  BY SMTT(60), ZenonT(90), <1>2 DEF SubmissionStep, BeginSubmit, FinishSubmit, RefuseSubmit, history, database
<1>3. CASE BuyerStep
  BY <1>3
  DEF BuyerStep, DeleteInvitation, EditQuote, DeleteQuote, SetRfqStatus, history, workers
<1>4. ASSUME NEW b \in Requests, InvitationStep(b)
      PROVE  /\ UNCHANGED delivery
             /\ \/ UNCHANGED <<mailed, invitation, followups>>
                \/ RecordLink(b)
                \/ /\ UNCHANGED <<mailed, followups>>
                   /\ FinishCancel(b) \/ \E i \in Invitations : Invite(b, i)
  BY ZenonT(90), <1>4
  DEF InvitationStep, Invite, Resend, BeginCancel, MailLink, RecordLink, LoseLink, FinishCancel,
      LoseCancel, DropRequest, history, database
<1>5. ASSUME NEW b \in Requests, FollowUpStep(b)
      PROVE  /\ UNCHANGED <<mailed, invitation>>
             /\ \/ UNCHANGED <<delivery, followups>>
                \/ UNCHANGED followups /\ \E r \in Rows : Approve(b, r)
                \/ UNCHANGED delivery /\ (FinishReject(b) \/ DraftManual(b))
                \/ QueueManual(b)
                \/ \E i \in Invitations : ManualCustom(b, i)
  BY ZenonT(90), <1>5
  DEF FollowUpStep, Approve, BeginReject, FinishReject, ManualCustom, BeginManual,
      DraftManual, QueueManual, LoseManual, history, database
<1>6. ASSUME NEW w \in Workers, DeliveryStep(w)
      PROVE  /\ DeliverMail(w) \/ UNCHANGED mailed
             /\ DeliverCommit(w) \/ UNCHANGED <<invitation, followups>>
  BY SMTT(60), ZenonT(90), <1>6
  DEF DeliveryStep, DeliverMail, DeliverCount, DeliverCommit, LoseDelivery, history, database
<1>7. ASSUME NEW w \in Sweeps, SweepGoesOn(w)
      PROVE  /\ UNCHANGED mailed
             /\ SweepExpire(w) \/ UNCHANGED invitation
             /\ SweepDraft(w) \/ UNCHANGED <<delivery, followups>>
  BY <1>7
  DEF SweepGoesOn, SweepExpire, SweepScan, SweepConsider, SweepDraft, SweepDies, SweepEnd,
      history, database
<1> QED
  <2>1. CASE \E b \in Requests : InvitationStep(b)
    <3>1. PICK b \in Requests : InvitationStep(b)
      BY <2>1
    <3> QED BY <3>1, <1>4
  <2>2. CASE \E b \in Requests : FollowUpStep(b)
    <3>1. PICK b \in Requests : FollowUpStep(b)
      BY <2>2
    <3> QED BY <3>1, <1>5
  <2>3. CASE \E w \in Workers : DeliveryStep(w)
    BY <2>3, <1>6
  <2>4. CASE \E w \in Sweeps : SweepGoesOn(w)
    BY <2>4, <1>7
  <2> QED BY <1>1, <1>2, <1>3, <2>1, <2>2, <2>3, <2>4 DEF Next

LEMMA MailedGrows ==
    ASSUME Inv, [Next]_vars
    PROVE  /\ mailed \in [Rows -> Nat] /\ mailed' \in [Rows -> Nat]
           /\ \A r \in Rows : mailed[r] <= mailed'[r]
<1>1. mailed \in [Rows -> Nat] /\ mailed' \in [Rows -> Nat]
  BY NextInv DEF Inv, TypeOK
<1>2. CASE UNCHANGED mailed
  BY <1>1, <1>2
<1>3. CASE \E b \in Requests : RecordLink(b)
  <2>1. \E r \in Rows : mailed' = [mailed EXCEPT ![r] = @ + 1] \/ mailed' = mailed
    BY <1>3 DEF RecordLink
  <2> QED BY <1>1, <2>1
<1>4. CASE \E w \in Workers : DeliverMail(w)
  <2>1. \E r : mailed' = [mailed EXCEPT ![r] = @ + 1] \/ mailed' = mailed
    BY <1>4 DEF DeliverMail
  <2> QED BY <1>1, <2>1
<1> QED BY <1>1, <1>2, <1>3, <1>4, NextWriters

\* A delivery goes past its email only by its own steps.
LEMMA NextMovesDeliveries ==
    ASSUME Inv, [Next]_vars
    PROVE  \/ \E w \in Workers : DeliverMail(w) \/ DeliverCount(w) \/ DeliverCommit(w)
           \/ \A w \in Workers :
                 delivery'[w] = delivery[w] \/ delivery'[w].pc \in {"none", "mail"}
<1> DEFINE Quiet == \A w \in Workers :
                 delivery'[w] = delivery[w] \/ delivery'[w].pc \in {"none", "mail"}
<1>0. /\ delivery \in [Workers -> DeliveryState]
      /\ NoDelivery.pc = "none"
      /\ Requests \subseteq Workers /\ Sweeps \subseteq Workers
  BY DEF Inv, TypeOK, NoDelivery, Workers
<1>1. ASSUME NEW w \in Workers, NEW r, NEW status, StartDelivery(w, r, status)
      PROVE  Quiet
  BY <1>0, <1>1 DEF StartDelivery, NoDelivery
<1>2. CASE UNCHANGED delivery
  BY <1>2
<1>3. CASE Restart
  BY <1>0, <1>3 DEF Restart
<1>4. CASE \E b \in Requests : \/ \E r \in Rows : Approve(b, r)
                               \/ \E i \in Invitations : ManualCustom(b, i)
                               \/ QueueManual(b)
  BY <1>0, <1>1, <1>2, <1>4 DEF Approve, ManualCustom, QueueManual
<1>5. CASE \E w \in Workers : LoseDelivery(w)
  BY <1>0, <1>5 DEF LoseDelivery
<1>6. CASE \E w \in Sweeps : SweepDraft(w)
  BY <1>0, <1>1, <1>2, <1>6 DEF SweepDraft
<1> QED
  BY <1>2, <1>3, <1>4, <1>5, <1>6, NextWriters DEF DeliveryStep

LEMMA NextCredits ==
    ASSUME Inv, [Next]_vars, NEW i \in Invitations
    PROVE  \/ invitation'[i].reminders = invitation[i].reminders
           \/ \E j \in Invitations : DeleteInvitation(j)
           \/ \E w \in Workers : DeliverCommit(w)
<1>0. invitation \in [Invitations -> InvitationRow]
  BY DEF Inv, TypeOK
<1>1. CASE \E p \in Submissions : FinishSubmit(p)
  BY <1>0, <1>1 DEF FinishSubmit, InvitationRow
<1>3. CASE \E b \in Requests : RecordLink(b)
  <2>1. PICK b \in Requests : RecordLink(b)
    BY SMTT(60), ZenonT(90), <1>3
  <2>2. \E e, l, t : invitation' = [invitation EXCEPT
           ![request[b].inv].expires = e, ![request[b].inv].lastSent = l,
           ![request[b].inv].status = t]
    BY ZenonT(90), <2>1 DEF RecordLink
  <2> QED BY <1>0, <2>2 DEF InvitationRow
<1>4. CASE \E b \in Requests : FinishCancel(b) \/ \E j \in Invitations : Invite(b, j)
  <2>1. \E j, t : invitation' = [invitation EXCEPT ![j].status = t]
                  \/ \E e : invitation' = [invitation EXCEPT ![j].status = t, ![j].expires = e]
    BY <1>4 DEF Invite, FinishCancel
  <2> QED BY <1>0, <2>1 DEF InvitationRow
<1>5. CASE \E w \in Sweeps : SweepExpire(w)
  BY <1>0, <1>5 DEF SweepExpire, InvitationRow
<1> QED BY <1>1, <1>3, <1>4, <1>5, NextWriters

LEMMA NextCharges ==
    ASSUME Inv, [Next]_vars, NEW i \in Invitations
    PROVE  \/ invitation'[i].reminders \in {0, invitation[i].reminders}
           \/ \E w \in Workers : DeliverCommit(w)
<1>1. CASE \E j \in Invitations : DeleteInvitation(j)
  <2>1. PICK j \in Invitations : DeleteInvitation(j)
    BY <1>1
  <2>2. [AbsentInvitation EXCEPT !.status = "deleted"].reminders = 0
    BY DEF AbsentInvitation
  <2> QED BY <2>1, <2>2 DEF DeleteInvitation, Inv, TypeOK
<1> QED BY <1>1, NextCredits

-----------------------------------------------------------------------------
(***************************************************************************)
(* The reminder count. A delivery whose reminder was accepted has not been *)
(* charged yet: what the table says, and what any of these deliveries read *)
(* there, leaves room for all of them.                                     *)
(***************************************************************************)
ReminderRows(i) ==
    {r \in Rows : followups[r].inv = i /\ followups[r].kind \in ReminderKinds}

Uncharged(i) ==
    {w \in Workers : /\ delivery[w].pc \in {"count", "commit"}
                     /\ delivery[w].outcome = "sent"
                     /\ delivery[w].row \in ReminderRows(i)}

UnissuedBlank == \A r \in Rows : ~Issued(r) => followups[r].kind = "none"

ChargeInv ==
    /\ UnissuedBlank
    /\ \A i \in Invitations :
          /\ invitation[i].reminders + Cardinality(Uncharged(i)) <= RemindersMailed(i)
          /\ \A w \in Uncharged(i) : delivery[w].pc = "commit" =>
                delivery[w].count + Cardinality(Uncharged(i)) <= RemindersMailed(i)

LEMMA RowsKept ==
    ASSUME Inv, [Next]_vars, NEW r \in Rows
    PROVE  /\ Issued(r) => /\ Issued(r)'
                           /\ followups'[r].inv = followups[r].inv
                           /\ followups'[r].kind = followups[r].kind
                           /\ followups'[r].auto = followups[r].auto
           /\ ~Issued(r)' => followups'[r] = followups[r]
BY NextRows DEF RowStep, RowKept, RowWritten

LEMMA BlankKept ==
    ASSUME Inv, UnissuedBlank, [Next]_vars
    PROVE  UnissuedBlank'
BY RowsKept DEF UnissuedBlank, Issued

LEMMA ReminderRowsKept ==
    ASSUME Inv, UnissuedBlank, [Next]_vars, NEW i
    PROVE  /\ ReminderRows(i) \in SUBSET Rows /\ ReminderRows(i)' \in SUBSET Rows
           /\ ReminderRows(i) \subseteq ReminderRows(i)'
           /\ \A r \in ReminderRows(i)' : Issued(r) => r \in ReminderRows(i)
<1>1. \A r \in Rows : followups[r].kind \in ReminderKinds => Issued(r)
  BY DEF UnissuedBlank, ReminderKinds
<1> QED BY <1>1, RowsKept DEF ReminderRows

LEMMA Mailed == ASSUME NEW i PROVE RemindersMailed(i) = Cardinality(MailsOf(ReminderRows(i), mailed))
BY DEF RemindersMailed, ReminderRows

LEMMA MailedNext ==
    ASSUME NEW i
    PROVE  RemindersMailed(i)' = Cardinality(MailsOf(ReminderRows(i)', mailed'))
BY DEF RemindersMailed, ReminderRows

LEMMA RemindersMailedGrows ==
    ASSUME Inv, UnissuedBlank, [Next]_vars, NEW i
    PROVE  /\ RemindersMailed(i) \in Nat /\ RemindersMailed(i)' \in Nat
           /\ RemindersMailed(i) <= RemindersMailed(i)'
BY Mailed, MailedNext, ReminderRowsKept, MailedGrows, MailsFinite, MailsGrow

LEMMA UnchargedFinite ==
    ASSUME NEW i
    PROVE  /\ IsFiniteSet(Uncharged(i)) /\ IsFiniteSet(Uncharged(i)')
           /\ Cardinality(Uncharged(i)) \in Nat /\ Cardinality(Uncharged(i)') \in Nat
<1>1. Uncharged(i) \in SUBSET Workers /\ Uncharged(i)' \in SUBSET Workers
  BY DEF Uncharged
<1> QED BY <1>1, WorkersFinite, FS_Subset, FS_CardinalityType

\* A delivery that did not move is uncharged after a step only if it was before.
LEMMA UnchargedKept ==
    ASSUME Inv, UnissuedBlank, [Next]_vars, NEW i, NEW w \in Uncharged(i)',
           delivery'[w] = delivery[w]
    PROVE  w \in Uncharged(i)
<1>1. /\ w \in Workers /\ delivery[w].pc \in {"count", "commit"}
      /\ delivery[w].outcome = "sent" /\ delivery[w].row \in ReminderRows(i)'
  BY DEF Uncharged
<1>2. Issued(delivery[w].row)
  BY <1>1 DEF Inv, HeldRowsIssued, DeliveryHolds
<1> QED BY <1>1, <1>2, ReminderRowsKept DEF Uncharged

LEMMA QuietCharges ==
    ASSUME Inv, ChargeInv, [Next]_vars, NEW i \in Invitations,
           invitation'[i].reminders \in {0, invitation[i].reminders},
           \A w \in Workers : delivery'[w] = delivery[w] \/ delivery'[w].pc \in {"none", "mail"}
    PROVE  /\ invitation'[i].reminders + Cardinality(Uncharged(i)') <= RemindersMailed(i)'
           /\ \A w \in Uncharged(i)' : delivery'[w].pc = "commit" =>
                delivery'[w].count + Cardinality(Uncharged(i)') <= RemindersMailed(i)'
<1>0. /\ invitation[i].reminders \in Nat
      /\ \A w \in Workers : delivery[w].count \in Nat
  BY DEF Inv, TypeOK, InvitationRow, DeliveryState
<1>1. \A w \in Uncharged(i)' : delivery'[w] = delivery[w] /\ w \in Uncharged(i)
  <2> SUFFICES ASSUME NEW w \in Uncharged(i)'
               PROVE  delivery'[w] = delivery[w] /\ w \in Uncharged(i)
    OBVIOUS
  <2>1. w \in Workers /\ delivery'[w].pc \in {"count", "commit"}
    BY DEF Uncharged
  <2>2. delivery'[w] = delivery[w]
    BY <2>1
  <2> QED BY <2>2, UnchargedKept DEF ChargeInv
<1>2. Cardinality(Uncharged(i)') <= Cardinality(Uncharged(i))
  BY <1>1, UnchargedFinite, FS_Subset
<1>3. RemindersMailed(i) <= RemindersMailed(i)'
      /\ RemindersMailed(i) \in Nat /\ RemindersMailed(i)' \in Nat
  BY RemindersMailedGrows DEF ChargeInv
<1>4. invitation'[i].reminders + Cardinality(Uncharged(i)') <= RemindersMailed(i)'
  BY <1>0, <1>2, <1>3, UnchargedFinite DEF ChargeInv
<1>5. ASSUME NEW w \in Uncharged(i)', delivery'[w].pc = "commit"
      PROVE  delivery'[w].count + Cardinality(Uncharged(i)') <= RemindersMailed(i)'
  <2>1. delivery[w].count + Cardinality(Uncharged(i)) <= RemindersMailed(i)
    BY <1>1, <1>5 DEF ChargeInv
  <2>2. delivery[w].count \in Nat /\ delivery'[w].count = delivery[w].count
    BY <1>0, <1>1, <1>5 DEF Uncharged
  <2> QED BY <1>2, <1>3, <2>1, <2>2, UnchargedFinite
<1> QED BY <1>4, <1>5

\* The provider accepts a reminder: one more email, one more delivery to charge for.
LEMMA MailCharges ==
    ASSUME Inv, ChargeInv, [Next]_vars, NEW i \in Invitations, NEW w \in Workers, DeliverMail(w)
    PROVE  /\ invitation'[i].reminders + Cardinality(Uncharged(i)') <= RemindersMailed(i)'
           /\ \A v \in Uncharged(i)' : delivery'[v].pc = "commit" =>
                delivery'[v].count + Cardinality(Uncharged(i)') <= RemindersMailed(i)'
<1> DEFINE q == delivery[w].row
<1>0. /\ invitation[i].reminders \in Nat
      /\ \A v \in Workers : delivery[v].count \in Nat
      /\ delivery \in [Workers -> DeliveryState]
      /\ invitation' = invitation
      /\ UnissuedBlank
  BY DEF Inv, TypeOK, InvitationRow, DeliveryState, DeliverMail, database, ChargeInv
<1>1. RemindersMailed(i) <= RemindersMailed(i)'
      /\ RemindersMailed(i) \in Nat /\ RemindersMailed(i)' \in Nat
  BY RemindersMailedGrows DEF ChargeInv
<1>2. \A v \in Workers \ {w} : delivery'[v] = delivery[v]
  BY <1>0 DEF DeliverMail
<1>3. CASE w \notin Uncharged(i)'
  <2>1. Uncharged(i)' \subseteq Uncharged(i) /\ \A v \in Uncharged(i)' : delivery'[v] = delivery[v]
    <3> SUFFICES ASSUME NEW v \in Uncharged(i)'
                 PROVE  v \in Uncharged(i) /\ delivery'[v] = delivery[v]
      OBVIOUS
    <3>1. v \in Workers \ {w}
      BY <1>3 DEF Uncharged
    <3>2. delivery'[v] = delivery[v]
      BY <1>2, <3>1
    <3> QED BY <1>0, <3>2, UnchargedKept
  <2>2. Cardinality(Uncharged(i)') <= Cardinality(Uncharged(i))
    BY <2>1, UnchargedFinite, FS_Subset
  <2>3. invitation'[i].reminders + Cardinality(Uncharged(i)') <= RemindersMailed(i)'
    BY <1>0, <1>1, <2>2, UnchargedFinite DEF ChargeInv
  <2>4. ASSUME NEW v \in Uncharged(i)', delivery'[v].pc = "commit"
        PROVE  delivery'[v].count + Cardinality(Uncharged(i)') <= RemindersMailed(i)'
    <3>1. v \in Uncharged(i) /\ v \in Workers /\ delivery'[v] = delivery[v]
      BY <2>1, <2>4 DEF Uncharged
    <3>2. delivery[v].count + Cardinality(Uncharged(i)) <= RemindersMailed(i)
      BY <2>4, <3>1 DEF ChargeInv
    <3>3. delivery[v].count \in Nat
      BY <1>0, <3>1
    <3> QED BY <1>1, <2>2, <3>1, <3>2, <3>3, UnchargedFinite
  <2> QED BY <2>3, <2>4
<1>4. CASE w \in Uncharged(i)'
  <2>1. /\ delivery'[w].outcome = "sent" /\ delivery'[w].row = q /\ q \in Rows
        /\ delivery'[w].pc \in {"count", "commit"}
    <3>1. delivery'[w].row = q
      BY <1>0 DEF DeliverMail, DeliveryState
    <3> QED BY <1>4, <3>1 DEF Uncharged, ReminderRows
  <2>2. mailed' = [mailed EXCEPT ![q] = mailed[q] + 1] /\ delivery'[w].pc = "count"
    <3>1. delivery' = [delivery EXCEPT ![w].outcome = "failed", ![w].pc = "commit"] =>
            delivery'[w].outcome = "failed"
      BY <1>0 DEF DeliveryState
    <3>2. delivery' = [delivery EXCEPT ![w].outcome = "sent", ![w].pc = "count"] =>
            delivery'[w].pc = "count"
      BY <1>0 DEF DeliveryState
    <3> QED BY <2>1, <3>1, <3>2 DEF DeliverMail
  <2>3. w \notin Uncharged(i) /\ q \in ReminderRows(i)
    <3>1. delivery[w].pc = "mail"
      BY DEF DeliverMail
    <3>2. Issued(q) /\ q \in ReminderRows(i)'
      BY <1>4, <2>1, <3>1 DEF Inv, HeldRowsIssued, DeliveryHolds, Uncharged
    <3> QED BY <1>0, <3>1, <3>2, ReminderRowsKept DEF Uncharged
  <2>4. \A v \in Uncharged(i)' : v = w \/ (v \in Uncharged(i) /\ delivery'[v] = delivery[v])
    <3> SUFFICES ASSUME NEW v \in Uncharged(i)', v # w
                 PROVE  v \in Uncharged(i) /\ delivery'[v] = delivery[v]
      OBVIOUS
    <3>1. v \in Workers \ {w}
      BY DEF Uncharged
    <3>2. delivery'[v] = delivery[v]
      BY <1>2, <3>1
    <3> QED BY <1>0, <3>2, UnchargedKept
  <2>5. Cardinality(Uncharged(i)') <= Cardinality(Uncharged(i)) + 1
    <3>1. Cardinality(Uncharged(i) \union {w}) = Cardinality(Uncharged(i)) + 1
          /\ IsFiniteSet(Uncharged(i) \union {w})
      BY <2>3, UnchargedFinite, FS_AddElement
    <3>2. Uncharged(i)' \subseteq Uncharged(i) \union {w}
      BY <2>4
    <3>3. Cardinality(Uncharged(i)') <= Cardinality(Uncharged(i) \union {w})
      BY <3>1, <3>2, FS_Subset
    <3> QED BY <3>1, <3>3
  <2>6. RemindersMailed(i) + 1 <= RemindersMailed(i)'
    <3>1. mailed[q] < mailed'[q]
      BY <2>1, <2>2, MailedGrows
    <3>2. /\ ReminderRows(i) \in SUBSET Rows /\ ReminderRows(i)' \in SUBSET Rows
          /\ ReminderRows(i) \subseteq ReminderRows(i)'
      BY <1>0, ReminderRowsKept
    <3>3. Cardinality(MailsOf(ReminderRows(i), mailed)) + 1
            <= Cardinality(MailsOf(ReminderRows(i)', mailed'))
      BY <2>3, <3>1, <3>2, MailedGrows, MailsOneMore
    <3> QED BY <3>3, Mailed, MailedNext
  <2>7. invitation'[i].reminders + Cardinality(Uncharged(i)') <= RemindersMailed(i)'
    BY <1>0, <1>1, <2>5, <2>6, UnchargedFinite DEF ChargeInv
  <2>8. ASSUME NEW v \in Uncharged(i)', delivery'[v].pc = "commit"
        PROVE  delivery'[v].count + Cardinality(Uncharged(i)') <= RemindersMailed(i)'
    <3>1. v \in Uncharged(i) /\ v \in Workers /\ delivery'[v] = delivery[v]
      BY <2>2, <2>4, <2>8 DEF Uncharged
    <3>2. delivery[v].count + Cardinality(Uncharged(i)) <= RemindersMailed(i)
      BY <2>8, <3>1 DEF ChargeInv
    <3>3. delivery[v].count \in Nat
      BY <1>0, <3>1
    <3> QED BY <1>1, <2>5, <2>6, <3>1, <3>2, <3>3, UnchargedFinite
  <2> QED BY <2>7, <2>8
<1> QED BY <1>3, <1>4

\* A delivery reads the count, while its own reminder is still to be charged.
LEMMA CountCharges ==
    ASSUME Inv, ChargeInv, [Next]_vars, NEW i \in Invitations, NEW w \in Workers, DeliverCount(w)
    PROVE  /\ invitation'[i].reminders + Cardinality(Uncharged(i)') <= RemindersMailed(i)'
           /\ \A v \in Uncharged(i)' : delivery'[v].pc = "commit" =>
                delivery'[v].count + Cardinality(Uncharged(i)') <= RemindersMailed(i)'
<1>0. /\ invitation[i].reminders \in Nat
      /\ \A v \in Workers : delivery[v].count \in Nat
      /\ delivery \in [Workers -> DeliveryState]
      /\ invitation' = invitation /\ followups' = followups
      /\ UnissuedBlank
  BY DEF Inv, TypeOK, InvitationRow, DeliveryState, DeliverCount, database, ChargeInv
<1>1. RemindersMailed(i) <= RemindersMailed(i)'
      /\ RemindersMailed(i) \in Nat /\ RemindersMailed(i)' \in Nat
  BY RemindersMailedGrows DEF ChargeInv
<1>2. /\ \A v \in Workers \ {w} : delivery'[v] = delivery[v]
      /\ delivery[w].pc = "count" /\ delivery'[w].row = delivery[w].row
      /\ delivery'[w].outcome = delivery[w].outcome
  BY <1>0 DEF DeliverCount, DeliveryState
<1>3. Uncharged(i)' \subseteq Uncharged(i)
  BY <1>0, <1>2 DEF Uncharged, ReminderRows
<1>4. Cardinality(Uncharged(i)') <= Cardinality(Uncharged(i))
  BY <1>3, UnchargedFinite, FS_Subset
<1>5. invitation'[i].reminders + Cardinality(Uncharged(i)') <= RemindersMailed(i)'
  BY <1>0, <1>1, <1>4, UnchargedFinite DEF ChargeInv
<1>6. ASSUME NEW v \in Uncharged(i)', delivery'[v].pc = "commit"
      PROVE  delivery'[v].count + Cardinality(Uncharged(i)') <= RemindersMailed(i)'
  <2>0. v \in Workers /\ v \in Uncharged(i)
    BY <1>3, <1>6 DEF Uncharged
  <2>1. CASE v = w
    <3>1. followups[delivery[w].row].inv = i
      BY <2>0, <2>1 DEF Uncharged, ReminderRows
    <3>2. delivery'[w].count = IF HasRow(delivery[w].row) THEN invitation[i].reminders ELSE 0
      BY <1>0, <3>1 DEF DeliverCount, DeliveryState
    <3>3. delivery'[w].count <= invitation[i].reminders /\ delivery'[w].count \in Nat
      BY <1>0, <3>2
    <3> QED BY <1>0, <1>1, <1>4, <2>1, <3>3, UnchargedFinite DEF ChargeInv
  <2>2. CASE v # w
    <3>1. delivery'[v] = delivery[v]
      BY <1>2, <2>0, <2>2
    <3>2. delivery[v].count + Cardinality(Uncharged(i)) <= RemindersMailed(i)
      BY <1>6, <2>0, <3>1 DEF ChargeInv
    <3>3. delivery[v].count \in Nat
      BY <1>0, <2>0
    <3> QED BY <1>1, <1>4, <3>1, <3>2, <3>3, UnchargedFinite
  <2> QED BY <2>1, <2>2
<1> QED BY <1>5, <1>6

\* A delivery writes what it read plus one, and is charged.
LEMMA CommitCharges ==
    ASSUME Inv, ChargeInv, [Next]_vars, NEW i \in Invitations, NEW w \in Workers, DeliverCommit(w)
    PROVE  /\ invitation'[i].reminders + Cardinality(Uncharged(i)') <= RemindersMailed(i)'
           /\ \A v \in Uncharged(i)' : delivery'[v].pc = "commit" =>
                delivery'[v].count + Cardinality(Uncharged(i)') <= RemindersMailed(i)'
<1> DEFINE q == delivery[w].row
<1>0. /\ invitation[i].reminders \in Nat
      /\ \A v \in Workers : delivery[v].count \in Nat
      /\ delivery \in [Workers -> DeliveryState]
      /\ invitation \in [Invitations -> InvitationRow]
      /\ UnissuedBlank /\ NoDelivery.pc = "none"
  BY DEF Inv, TypeOK, InvitationRow, DeliveryState, ChargeInv, NoDelivery
<1>1. RemindersMailed(i) <= RemindersMailed(i)'
      /\ RemindersMailed(i) \in Nat /\ RemindersMailed(i)' \in Nat
  BY RemindersMailedGrows DEF ChargeInv
<1>2. /\ \A v \in Workers \ {w} : delivery'[v] = delivery[v]
      /\ delivery[w].pc = "commit" /\ delivery'[w].pc = "none" /\ q \in Rows
  BY <1>0 DEF DeliverCommit, Inv, HeldRowsIssued, DeliveryHolds, Issued
<1>3. w \notin Uncharged(i)'
  BY <1>2 DEF Uncharged
<1>4. \A v \in Uncharged(i)' : v \in Uncharged(i) \ {w} /\ delivery'[v] = delivery[v]
  <2> SUFFICES ASSUME NEW v \in Uncharged(i)'
               PROVE  v \in Uncharged(i) \ {w} /\ delivery'[v] = delivery[v]
    OBVIOUS
  <2>1. v \in Workers \ {w}
    BY <1>3 DEF Uncharged
  <2>2. delivery'[v] = delivery[v]
    BY <1>2, <2>1
  <2> QED BY <1>0, <2>1, <2>2, UnchargedKept
<1>5. Cardinality(Uncharged(i)') <= Cardinality(Uncharged(i))
  BY <1>4, UnchargedFinite, FS_Subset
<1>6. w \in Uncharged(i) => Cardinality(Uncharged(i)') <= Cardinality(Uncharged(i)) - 1
  <2> SUFFICES ASSUME w \in Uncharged(i)
               PROVE  Cardinality(Uncharged(i)') <= Cardinality(Uncharged(i)) - 1
    OBVIOUS
  <2>1. /\ IsFiniteSet(Uncharged(i) \ {w})
        /\ Cardinality(Uncharged(i) \ {w}) = Cardinality(Uncharged(i)) - 1
    BY UnchargedFinite, FS_RemoveElement
  <2>2. Uncharged(i)' \subseteq Uncharged(i) \ {w}
    BY <1>4
  <2>3. Cardinality(Uncharged(i)') <= Cardinality(Uncharged(i) \ {w})
    BY <2>1, <2>2, FS_Subset
  <2> QED BY <2>1, <2>3
<1>7. ASSUME NEW v \in Uncharged(i)', delivery'[v].pc = "commit"
      PROVE  delivery'[v].count + Cardinality(Uncharged(i)') <= RemindersMailed(i)'
  <2>1. v \in Uncharged(i) /\ v \in Workers /\ delivery'[v] = delivery[v]
    BY <1>4, <1>7 DEF Uncharged
  <2>2. delivery[v].count + Cardinality(Uncharged(i)) <= RemindersMailed(i)
    BY <1>7, <2>1 DEF ChargeInv
  <2>3. delivery[v].count \in Nat
    BY <1>0, <2>1
  <2> QED BY <1>1, <1>5, <2>1, <2>2, <2>3, UnchargedFinite
<1>8. \/ invitation'[i].reminders = invitation[i].reminders
      \/ /\ delivery[w].outcome = "sent" /\ q \in ReminderRows(i)
         /\ invitation'[i].reminders = delivery[w].count + 1
  BY <1>0, <1>2 DEF DeliverCommit, InvitationRow, ReminderRows
<1>9. invitation'[i].reminders + Cardinality(Uncharged(i)') <= RemindersMailed(i)'
  <2>1. CASE invitation'[i].reminders = invitation[i].reminders
    BY <1>0, <1>1, <1>5, <2>1, UnchargedFinite DEF ChargeInv
  <2>2. CASE /\ delivery[w].outcome = "sent" /\ q \in ReminderRows(i)
             /\ invitation'[i].reminders = delivery[w].count + 1
    <3>1. w \in Uncharged(i)
      BY <1>2, <2>2 DEF Uncharged
    <3>2. delivery[w].count + Cardinality(Uncharged(i)) <= RemindersMailed(i)
      BY <1>2, <3>1 DEF ChargeInv
    <3>3. delivery[w].count \in Nat
      BY <1>0
    <3> QED BY <1>1, <1>6, <2>2, <3>1, <3>2, <3>3, UnchargedFinite
  <2> QED BY <1>8, <2>1, <2>2
<1> QED BY <1>7, <1>9

LEMMA NextCharged ==
    ASSUME Inv, ChargeInv, [Next]_vars
    PROVE  ChargeInv'
<1> DEFINE Charged(i) ==
        /\ invitation[i].reminders + Cardinality(Uncharged(i)) <= RemindersMailed(i)
        /\ \A w \in Uncharged(i) : delivery[w].pc = "commit" =>
              delivery[w].count + Cardinality(Uncharged(i)) <= RemindersMailed(i)
<1>1. ASSUME NEW i \in Invitations PROVE Charged(i)'
  <2>1. CASE \E w \in Workers : DeliverMail(w) \/ DeliverCount(w) \/ DeliverCommit(w)
    BY <2>1, MailCharges, CountCharges, CommitCharges
  <2>2. CASE ~\E w \in Workers : DeliverMail(w) \/ DeliverCount(w) \/ DeliverCommit(w)
    <3>1. invitation'[i].reminders \in {0, invitation[i].reminders}
      BY <2>2, NextCharges
    <3>2. \A w \in Workers : delivery'[w] = delivery[w] \/ delivery'[w].pc \in {"none", "mail"}
      BY <2>2, NextMovesDeliveries
    <3> QED BY <3>1, <3>2, QuietCharges
  <2> QED BY <2>1, <2>2
<1>2. UnissuedBlank'
  BY BlankKept DEF ChargeInv
<1> QED BY <1>1, <1>2 DEF ChargeInv

LEMMA InitCharged ==
    ASSUME StartInvitation.reminders = 0, Init
    PROVE  ChargeInv
<1>1. UnissuedBlank
  BY DEF Init, UnissuedBlank, NoRow
<1>2. ASSUME NEW i \in Invitations
      PROVE  /\ Uncharged(i) = {}
             /\ invitation[i].reminders = 0
  BY DEF Init, Uncharged, NoDelivery
<1>3. \A i \in Invitations : RemindersMailed(i) \in Nat
  <2> SUFFICES ASSUME NEW i \in Invitations PROVE RemindersMailed(i) \in Nat
    OBVIOUS
  <2>1. ReminderRows(i) \in SUBSET Rows /\ mailed \in [Rows -> Nat]
    BY InitInv DEF ReminderRows, Inv, TypeOK
  <2> QED BY <2>1, Mailed, MailsFinite
<1>4. ASSUME NEW i \in Invitations
      PROVE  invitation[i].reminders + Cardinality(Uncharged(i)) <= RemindersMailed(i)
  <2>1. Cardinality(Uncharged(i)) = 0
    BY <1>2, FS_EmptySet
  <2> QED BY <1>2, <1>3, <2>1
<1> QED BY <1>1, <1>2, <1>4 DEF ChargeInv

(***************************************************************************)
(* Nobody is given up on too early: when invitations start out with no     *)
(* reminder, as the column's default has it, the count of an invitation    *)
(* never exceeds the reminders the provider accepted for it, however many  *)
(* deliveries read and write the count at once and whenever the process    *)
(* dies.                                                                   *)
(***************************************************************************)
THEOREM NeverOvercounted ==
    ASSUME StartInvitation.reminders = 0
    PROVE  Spec => []RemindersNeverOvercounted
<1>1. Init => ChargeInv
  BY InitCharged
<1>2. Inv /\ ChargeInv /\ [Next]_vars => ChargeInv'
  BY NextCharged
<1>3. Inv /\ ChargeInv => RemindersNeverOvercounted
  <2> SUFFICES ASSUME Inv, ChargeInv, NEW i \in Invitations
               PROVE  invitation[i].reminders <= RemindersMailed(i)
    BY DEF RemindersNeverOvercounted
  <2>1. ReminderRows(i) \in SUBSET Rows /\ mailed \in [Rows -> Nat]
    BY DEF ReminderRows, Inv, TypeOK
  <2>2. RemindersMailed(i) \in Nat /\ invitation[i].reminders \in Nat
    BY <2>1, Mailed, MailsFinite DEF Inv, TypeOK, InvitationRow
  <2> QED BY <2>2, UnchargedFinite DEF ChargeInv
<1> QED BY <1>1, <1>2, <1>3, InvHolds, PTL DEF Spec

-----------------------------------------------------------------------------
(***************************************************************************)
(* Automatic sending. A row of the scheduler holds the place of its kind   *)
(* for its invitation while it is open or sent, while it is on its way to  *)
(* the provider, and for ever once the provider accepted it. What is       *)
(* stated here holds for one driver of the sweep and a buyer who neither   *)
(* approves nor rejects rows: rejecting a row that was emailed frees its   *)
(* place, and approving one left behind emails it again, by intent.        *)
(***************************************************************************)
Blocks(r) == followups[r].status \in {"draft", "queued", "sent"}

InTransit(r) == \E w \in Workers : Delivering(w) /\ delivery[w].row = r

Claims(r) == followups[r].auto /\ (mailed[r] > 0 \/ Blocks(r) \/ InTransit(r))

SameKind(q, r) ==
    followups[q].inv = followups[r].inv /\ followups[q].kind = followups[r].kind

UnissuedUnmailed == \A r \in Rows : ~Issued(r) => mailed[r] = 0 /\ ~followups[r].auto

DeletedWithInvitation ==
    \A r \in Rows : (followups[r].auto /\ followups[r].status = "deleted") =>
                    invitation[followups[r].inv].status = "deleted"

BuyerKeepsOut ==
    \A b \in Requests : /\ request[b].pc # "reject"
                        /\ request[b].pc = "queue" => ~followups[request[b].row].auto
                        /\ Delivering(b) => ~followups[delivery[b].row].auto

SweepDelivers ==
    \A w \in Sweeps : Delivering(w) =>
        /\ followups[delivery[w].row].auto
        /\ delivery[w].seen = "queued"
        /\ followups[delivery[w].row].status \in {"queued", "deleted"}
        /\ (delivery[w].pc = "mail" \/ delivery[w].outcome = "failed") =>
              mailed[delivery[w].row] = 0

MailedOnce ==
    \A r \in Rows : followups[r].auto =>
        /\ mailed[r] <= 1
        /\ mailed[r] > 0 => followups[r].status \in {"queued", "sent", "deleted"}

OneClaim == \A q, r \in Rows : (Claims(q) /\ Claims(r) /\ SameKind(q, r)) => q = r

DraftIsNew ==
    \A w \in Sweeps : sweep[w].pc = "draft" =>
        \A r \in Rows : (followups[r].auto /\ Blocks(r)) =>
            <<followups[r].inv, followups[r].kind>> # <<sweep[w].item, sweep[w].kind>>

OnceInv ==
    /\ UnissuedUnmailed /\ DeletedWithInvitation /\ BuyerKeepsOut /\ SweepDelivers
    /\ MailedOnce /\ OneClaim /\ DraftIsNew

OneDriver == \A v, w \in Sweeps : v = w

BuyerLeavesQueue == {"approve", "reject"} \intersect BuyerOps = {}

(***************************************************************************)
(* What a step can do to a row of the scheduler under these conditions.    *)
(***************************************************************************)
RowDeleted(r) ==
    /\ DeleteInvitation(followups[r].inv)
    /\ followups'[r] = [followups[r] EXCEPT !.status = "deleted"]

RowDelivered(r) ==
    \E w \in Sweeps : /\ DeliverCommit(w) /\ delivery[w].row = r /\ HasRow(r)
                      /\ followups'[r] = [followups[r] EXCEPT !.status = delivery[w].outcome]

RowDrafted(r) ==
    \E w \in Sweeps :
        /\ SweepDraft(w) /\ NewRow(r)
        /\ followups'[r] = FollowUp(sweep[w].item, sweep[w].kind,
                                    IF AutoSend THEN "queued" ELSE "draft",
                                    TRUE, sweep[w].basis)

LEMMA AutoRows ==
    ASSUME Inv, OnceInv, [Next]_vars, NEW r \in Rows, followups'[r].auto
    PROVE  \/ followups'[r] = followups[r]
           \/ followups[r].auto /\ RowDeleted(r)
           \/ followups[r].auto /\ RowDelivered(r)
           \/ RowDrafted(r)
<1>0. followups \in [Rows -> FollowUpRow] /\ followups[r] \in FollowUpRow
  BY DEF Inv, TypeOK
<1>1. CASE \E i \in Invitations : DeleteInvitation(i)
  <2>1. PICK i \in Invitations : DeleteInvitation(i)
    BY <1>1
  <2>2. CASE followups[r].inv = i
    <3>1. followups'[r] = [followups[r] EXCEPT !.status = "deleted"]
      BY <2>1, <2>2 DEF DeleteInvitation
    <3>2. followups[r].auto
      BY <1>0, <3>1 DEF FollowUpRow
    <3> QED BY <2>1, <2>2, <3>1, <3>2 DEF RowDeleted
  <2>3. CASE followups[r].inv # i
    BY <2>1, <2>3 DEF DeleteInvitation
  <2> QED BY <2>2, <2>3
<1>2. ASSUME NEW b \in Requests, RecordLink(b) PROVE followups'[r] = followups[r]
  <2>1. PICK q \in Rows :
          followups' = [followups EXCEPT
            ![q] = FollowUp(request[b].inv, "manual", request[b].outcome, FALSE, "none")]
    BY <1>2 DEF RecordLink
  <2>2. q # r
    BY <1>0, <2>1 DEF FollowUp
  <2> QED BY <1>0, <2>1, <2>2
<1>3. ASSUME NEW b \in Requests, FinishReject(b) PROVE FALSE
  BY <1>3 DEF FinishReject, OnceInv, BuyerKeepsOut
<1>4. ASSUME NEW b \in Requests, \E i \in Invitations : ManualCustom(b, i)
      PROVE  followups'[r] = followups[r]
  <2>1. PICK i \in Invitations, q \in Rows :
          followups' = [followups EXCEPT ![q] = FollowUp(i, "manual", "queued", FALSE, "none")]
    BY <1>4 DEF ManualCustom
  <2>2. q # r
    BY <1>0, <2>1 DEF FollowUp
  <2> QED BY <1>0, <2>1, <2>2
<1>5. ASSUME NEW b \in Requests, DraftManual(b) PROVE followups'[r] = followups[r]
  <2>1. PICK q \in Rows :
          followups' = [followups EXCEPT
            ![q] = FollowUp(request[b].inv, request[b].kind,
                            IF AutoSend THEN "queued" ELSE "draft", FALSE, "none")]
    BY <1>5 DEF DraftManual
  <2>2. q # r
    BY <1>0, <2>1 DEF FollowUp
  <2> QED BY <1>0, <2>1, <2>2
<1>6. ASSUME NEW b \in Requests, QueueManual(b) PROVE followups'[r] = followups[r]
  <2>1. /\ followups' = [followups EXCEPT ![request[b].row].status = "queued"]
        /\ request[b].pc = "queue"
    BY <1>6 DEF QueueManual
  <2>2. ~followups[request[b].row].auto
    BY <2>1 DEF OnceInv, BuyerKeepsOut
  <2>3. request[b].row # r
    BY <1>0, <2>1, <2>2 DEF FollowUpRow
  <2> QED BY <1>0, <2>1, <2>3
<1>7. ASSUME NEW w \in Workers, DeliverCommit(w)
      PROVE  followups'[r] = followups[r] \/ (followups[r].auto /\ RowDelivered(r))
  <2> DEFINE q == delivery[w].row
             s == Written(followups[q].status, delivery[w].seen, delivery[w].outcome)
  <2>1. followups' = [followups EXCEPT ![q].status = s] /\ HasRow(q) /\ Delivering(w)
    BY <1>7 DEF DeliverCommit, Delivering
  <2>2. CASE q # r
    BY <1>0, <2>1, <2>2
  <2>3. CASE q = r
    <3>1. followups[r].auto /\ followups'[r] = [followups[r] EXCEPT !.status = s]
      BY <1>0, <2>1, <2>3 DEF FollowUpRow
    <3>2. w \in Sweeps
      BY <2>1, <2>3, <3>1 DEF OnceInv, BuyerKeepsOut, Workers
    <3>3. delivery[w].seen = "queued" /\ followups[r].status = "queued"
      BY <2>1, <2>3, <3>2 DEF OnceInv, SweepDelivers, HasRow
    <3>4. delivery[w].outcome # "queued"
      BY DEF Inv, TypeOK, DeliveryState
    <3>5. s = delivery[w].outcome
      BY <3>3, <3>4 DEF Written
    <3> HIDE DEF s
    <3> QED BY <1>7, <2>1, <2>3, <3>1, <3>2, <3>5 DEF RowDelivered
  <2> QED BY <2>2, <2>3
<1>8. ASSUME NEW w \in Sweeps, SweepDraft(w)
      PROVE  followups'[r] = followups[r] \/ RowDrafted(r)
  <2>1. PICK q \in Rows :
          /\ NewRow(q)
          /\ followups' = [followups EXCEPT
               ![q] = FollowUp(sweep[w].item, sweep[w].kind,
                               IF AutoSend THEN "queued" ELSE "draft",
                               TRUE, sweep[w].basis)]
    BY <1>8 DEF SweepDraft
  <2>2. CASE q = r
    BY <1>0, <1>8, <2>1, <2>2 DEF RowDrafted
  <2> QED BY <1>0, <2>1, <2>2
<1>9. CASE UNCHANGED followups
  BY <1>9
<1> QED BY <1>1, <1>2, <1>3, <1>4, <1>5, <1>6, <1>7, <1>8, <1>9, NextWriters

\* Emails of the scheduler's rows leave only through the sweep that delivers them.
LEMMA AutoMails ==
    ASSUME Inv, OnceInv, [Next]_vars, NEW r \in Rows, followups'[r].auto
    PROVE  \/ mailed'[r] = mailed[r]
           \/ \E w \in Sweeps : /\ DeliverMail(w) /\ delivery[w].row = r
                                /\ mailed'[r] = mailed[r] + 1
<1>0. mailed \in [Rows -> Nat] /\ followups \in [Rows -> FollowUpRow]
  BY DEF Inv, TypeOK
<1>1. ASSUME NEW b \in Requests, RecordLink(b) PROVE mailed'[r] = mailed[r]
  <2>1. PICK q \in Rows :
          /\ followups' = [followups EXCEPT
               ![q] = FollowUp(request[b].inv, "manual", request[b].outcome, FALSE, "none")]
          /\ mailed' = IF request[b].outcome = "sent" THEN [mailed EXCEPT ![q] = @ + 1]
                                                      ELSE mailed
    BY <1>1 DEF RecordLink
  <2>2. q # r
    BY <1>0, <2>1 DEF FollowUp
  <2> QED BY <1>0, <2>1, <2>2
<1>2. ASSUME NEW w \in Workers, DeliverMail(w), mailed'[r] # mailed[r]
      PROVE  w \in Sweeps /\ delivery[w].row = r /\ mailed'[r] = mailed[r] + 1
  <2>1. /\ \/ mailed' = [mailed EXCEPT ![delivery[w].row] = @ + 1]
           \/ mailed' = mailed
        /\ followups' = followups /\ Delivering(w)
    BY <1>2 DEF DeliverMail, database, Delivering
  <2>2. delivery[w].row = r /\ mailed'[r] = mailed[r] + 1
    BY <1>0, <1>2, <2>1
  <2>3. w \notin Requests
    BY <2>1, <2>2 DEF OnceInv, BuyerKeepsOut
  <2> QED BY <2>2, <2>3 DEF Workers
<1> QED BY <1>1, <1>2, NextWriters

LEMMA DeletedStays ==
    ASSUME Inv, [Next]_vars, NEW i \in Invitations, invitation[i].status = "deleted"
    PROVE  invitation'[i].status = "deleted"
<1>0. invitation \in [Invitations -> InvitationRow] /\ ~Exists(i)
  BY DEF Inv, TypeOK, Exists, Present
<1>1. CASE UNCHANGED invitation
  BY <1>1
<1>2. ASSUME NEW p \in Submissions, FinishSubmit(p) PROVE invitation'[i] = invitation[i]
  <2>1. submission[p].inv # i
    BY <1>0, <1>2 DEF FinishSubmit
  <2> QED BY <1>0, <1>2, <2>1 DEF FinishSubmit
<1>3. ASSUME NEW j \in Invitations, DeleteInvitation(j) PROVE invitation'[i] = invitation[i]
  BY <1>0, <1>3 DEF DeleteInvitation
<1>4. ASSUME NEW b \in Requests, NEW j \in Invitations, Invite(b, j)
      PROVE  invitation'[i] = invitation[i]
  <2>1. i # j
    BY <1>4 DEF Invite
  <2> QED BY <1>0, <1>4, <2>1 DEF Invite
<1>5. ASSUME NEW b \in Requests, RecordLink(b) PROVE invitation'[i] = invitation[i]
  <2>1. i # request[b].inv
    BY ZenonT(90), <1>0, <1>5 DEF RecordLink
  <2> QED BY ZenonT(90), <1>0, <1>5, <2>1 DEF RecordLink
<1>6. ASSUME NEW b \in Requests, FinishCancel(b) PROVE invitation'[i] = invitation[i]
  <2>1. i # request[b].inv
    BY <1>0, <1>6 DEF FinishCancel
  <2> QED BY <1>0, <1>6, <2>1 DEF FinishCancel
<1>7. ASSUME NEW w \in Workers, DeliverCommit(w)
      PROVE  invitation'[i].status = invitation[i].status
  BY ZenonT(90), <1>0, <1>7 DEF DeliverCommit, InvitationRow
<1>8. ASSUME NEW w \in Sweeps, SweepExpire(w) PROVE invitation'[i] = invitation[i]
  BY <1>0, <1>8 DEF SweepExpire
<1> QED BY <1>1, <1>2, <1>3, <1>4, <1>5, <1>6, <1>7, <1>8, NextWriters

\* A buyer who does not reject never has a rejection under way.
LEMMA NoRejects ==
    ASSUME Inv, [Next]_vars, "reject" \notin BuyerOps, NEW b \in Requests,
           request[b].pc # "reject"
    PROVE  request'[b].pc # "reject"
<1>0. request \in [Requests -> RequestState] /\ IdleRequest.pc = "idle"
  BY DEF Inv, TypeOK, IdleRequest
<1>1. CASE UNCHANGED request
  BY <1>1
<1>2. CASE Restart
  BY <1>0, <1>2 DEF Restart
<1>3. ASSUME NEW c \in Requests, InvitationStep(c)
      PROVE  request'[b] = request[b] \/ request'[b].pc \in {"idle", "mail", "send", "cancel"}
  <2>1. CASE MailLink(c)
    BY <1>0, <2>1 DEF MailLink, RequestState
  <2>2. CASE \E i \in Invitations : Invite(c, i)
    BY <1>0, <2>2 DEF Invite, IdleRequest
  <2>3. CASE \E i \in Invitations : Resend(c, i) \/ BeginCancel(c, i)
    <3>1. PICK i \in Invitations : Resend(c, i) \/ BeginCancel(c, i)
      BY <2>3
    <3>2. Resend(c, i) => request'[c].pc = "mail" /\ \A d \in Requests \ {c} : request'[d] = request[d]
      BY <1>0 DEF Resend, IdleRequest
    <3>3. BeginCancel(c, i) =>
            request'[c].pc = "cancel" /\ \A d \in Requests \ {c} : request'[d] = request[d]
      BY <1>0 DEF BeginCancel, IdleRequest
    <3> QED BY <3>1, <3>2, <3>3
  <2>4. CASE RecordLink(c) \/ LoseLink(c) \/ FinishCancel(c) \/ LoseCancel(c)
    BY <1>0, <2>4 DEF RecordLink, LoseLink, FinishCancel, LoseCancel, DropRequest
  <2> QED BY <1>3, <2>1, <2>2, <2>3, <2>4 DEF InvitationStep
<1>4. ASSUME NEW c \in Requests, FollowUpStep(c)
      PROVE  request'[b] = request[b] \/ request'[b].pc \in {"idle", "draft", "queue"}
  <2>1. CASE DraftManual(c)
    BY <1>0, <2>1 DEF DraftManual, RequestState
  <2>2. CASE \E i \in Invitations : BeginManual(c, i)
    BY <1>0, <2>2 DEF BeginManual, IdleRequest
  <2>3. CASE FinishReject(c) \/ QueueManual(c) \/ LoseManual(c)
    BY <1>0, <2>3 DEF FinishReject, QueueManual, LoseManual
  <2>4. CASE UNCHANGED request
    BY <2>4
  <2> QED
    BY <1>4, <2>1, <2>2, <2>3, <2>4
    DEF FollowUpStep, Approve, BeginReject, Uses, ManualCustom
<1>5. CASE Tick \/ UNCHANGED vars
  BY <1>1, <1>5 DEF Tick, vars, workers
<1>6. CASE \E p \in Submissions : SubmissionStep(p)
  BY <1>1, <1>6 DEF SubmissionStep, BeginSubmit, FinishSubmit, RefuseSubmit
<1>7. CASE BuyerStep
  BY SMTT(60), ZenonT(90), <1>1, <1>7
  DEF BuyerStep, DeleteInvitation, EditQuote, DeleteQuote, SetRfqStatus, workers
<1>8. CASE \E w \in Workers : DeliveryStep(w)
  BY ZenonT(90), <1>1, <1>8 DEF DeliveryStep, DeliverMail, DeliverCount, DeliverCommit, LoseDelivery
<1>9. CASE \/ \E w \in Sweeps : SweepBegin(w, "expire")
           \/ \E w \in Sweeps \ Timers : SweepBegin(w, "expireOnly")
           \/ \E w \in Sweeps : SweepGoesOn(w)
  BY ZenonT(90), <1>1, <1>9
  DEF SweepBegin, SweepGoesOn, SweepExpire, SweepScan, SweepConsider, SweepDraft, SweepDies,
      SweepEnd
<1> QED
  BY <1>2, <1>3, <1>4, <1>5, <1>6, <1>7, <1>8, <1>9 DEF Next

(***************************************************************************)
(* How a delivery moves: on, to its end, or it begins with a row of its    *)
(* owner: a buyer's own row, or the one a sweep has just drafted.          *)
(***************************************************************************)
LEMMA NextDelivery ==
    ASSUME Inv, OnceInv, [Next]_vars, "approve" \notin BuyerOps, NEW w \in Workers
    PROVE  \/ delivery'[w] = delivery[w]
           \/ delivery'[w].pc = "none"
           \/ DeliverMail(w) \/ DeliverCount(w)
           \/ /\ w \in Requests
              /\ delivery'[w].row \in Rows /\ ~followups'[delivery'[w].row].auto
           \/ /\ w \in Sweeps /\ SweepDraft(w) /\ RowDrafted(delivery'[w].row)
              /\ delivery'[w].row \in Rows /\ ~Issued(delivery'[w].row)
              /\ delivery'[w] = [NoDelivery EXCEPT !.pc = "mail", !.row = delivery'[w].row,
                                                   !.seen = "queued"]
              /\ followups'[delivery'[w].row].status = "queued"
              /\ followups'[delivery'[w].row].auto
<1>0. /\ delivery \in [Workers -> DeliveryState] /\ followups \in [Rows -> FollowUpRow]
      /\ NoDelivery.pc = "none" /\ Requests \subseteq Workers /\ Sweeps \subseteq Workers
  BY DEF Inv, TypeOK, NoDelivery, Workers
<1>1. CASE UNCHANGED delivery
  BY <1>1
<1>2. CASE Restart
  BY <1>2 DEF Restart, NoDelivery
<1>3. ASSUME NEW b \in Requests, NEW r \in Rows, Approve(b, r) PROVE FALSE
  BY <1>3 DEF Approve, Uses
<1>4. ASSUME NEW b \in Requests, NEW i \in Invitations, ManualCustom(b, i)
      PROVE  \/ delivery'[w] = delivery[w]
             \/ /\ w \in Requests
                /\ delivery'[w].row \in Rows /\ ~followups'[delivery'[w].row].auto
  <2>1. PICK q \in Rows :
          /\ followups' = [followups EXCEPT ![q] = FollowUp(i, "manual", "queued", FALSE, "none")]
          /\ StartDelivery(b, q, "queued")
    BY <1>4 DEF ManualCustom
  <2>2. ~followups'[q].auto
    BY <1>0, <2>1 DEF FollowUp
  <2>3. w # b => delivery'[w] = delivery[w]
    BY <1>0, <2>1 DEF StartDelivery
  <2>4. w = b => delivery'[w].row = q
    BY <1>0, <2>1 DEF StartDelivery, NoDelivery
  <2> QED BY <2>2, <2>3, <2>4
<1>5. ASSUME NEW b \in Requests, QueueManual(b)
      PROVE  \/ delivery'[w] = delivery[w]
             \/ /\ w \in Requests
                /\ delivery'[w].row \in Rows /\ ~followups'[delivery'[w].row].auto
  <2> DEFINE q == request[b].row
  <2>1. /\ followups' = [followups EXCEPT ![q].status = "queued"]
        /\ StartDelivery(b, q, "queued") \/ UNCHANGED delivery
        /\ request[b].pc = "queue"
    BY <1>5 DEF QueueManual
  <2>2. q \in Rows /\ ~followups[q].auto
    BY <2>1 DEF OnceInv, BuyerKeepsOut, Inv, HeldRowsIssued, RequestHolds, Issued
  <2>3. ~followups'[q].auto
    BY <1>0, <2>1, <2>2 DEF FollowUpRow
  <2>4. w # b => delivery'[w] = delivery[w]
    BY <1>0, <2>1 DEF StartDelivery
  <2>5. w = b => delivery'[w] = delivery[w] \/ delivery'[w].row = q
    BY <1>0, <2>1 DEF StartDelivery, NoDelivery
  <2> QED BY <2>2, <2>3, <2>4, <2>5
<1>6. ASSUME NEW v \in Workers, DeliveryStep(v)
      PROVE  \/ delivery'[w] = delivery[w]
             \/ delivery'[w].pc = "none"
             \/ DeliverMail(w) \/ DeliverCount(w)
  BY ZenonT(90), <1>0, <1>6 DEF DeliveryStep, DeliverMail, DeliverCount, DeliverCommit, LoseDelivery
<1>7. ASSUME NEW v \in Sweeps, SweepDraft(v), delivery'[w] # delivery[w]
      PROVE  /\ w \in Sweeps /\ SweepDraft(w) /\ RowDrafted(delivery'[w].row)
             /\ delivery'[w].row \in Rows /\ ~Issued(delivery'[w].row)
             /\ delivery'[w] = [NoDelivery EXCEPT !.pc = "mail", !.row = delivery'[w].row,
                                                  !.seen = "queued"]
             /\ followups'[delivery'[w].row].status = "queued"
             /\ followups'[delivery'[w].row].auto
  <2>1. PICK q \in Rows :
          /\ NewRow(q)
          /\ followups' = [followups EXCEPT
               ![q] = FollowUp(sweep[v].item, sweep[v].kind,
                               IF AutoSend THEN "queued" ELSE "draft",
                               TRUE, sweep[v].basis)]
          /\ IF AutoSend THEN StartDelivery(v, q, "queued") ELSE UNCHANGED delivery
    BY <1>7 DEF SweepDraft
  <2>2. AutoSend /\ StartDelivery(v, q, "queued")
    BY <1>7, <2>1
  <2>3. w = v
    BY <1>0, <1>7, <2>2 DEF StartDelivery
  <2>4. delivery'[w] = [NoDelivery EXCEPT !.pc = "mail", !.row = q, !.seen = "queued"]
    BY <1>0, <2>2, <2>3 DEF StartDelivery
  <2>5. delivery'[w].row = q
    BY <2>4 DEF NoDelivery
  <2>6. /\ followups'[q] = FollowUp(sweep[v].item, sweep[v].kind,
                                    IF AutoSend THEN "queued" ELSE "draft",
                                    TRUE, sweep[v].basis)
        /\ ~Issued(q)
    BY <1>0, <2>1 DEF NewRow, Issued
  <2>7. followups'[q].status = "queued" /\ followups'[q].auto
    BY <2>2, <2>6 DEF FollowUp
  <2>8. RowDrafted(q)
    BY <1>7, <2>1, <2>6 DEF RowDrafted
  <2> QED BY <1>7, <2>3, <2>4, <2>5, <2>6, <2>7, <2>8
<1> QED BY <1>1, <1>2, <1>3, <1>4, <1>5, <1>6, <1>7, NextWriters

-----------------------------------------------------------------------------
(***************************************************************************)
(* The parts of OnceInv, one at a time.                                    *)
(***************************************************************************)
LEMMA UnmailedKept ==
    ASSUME Inv, OnceInv, [Next]_vars
    PROVE  UnissuedUnmailed'
<1> SUFFICES ASSUME NEW r \in Rows, ~Issued(r)'
             PROVE  mailed'[r] = 0 /\ ~followups'[r].auto
  BY DEF UnissuedUnmailed
<1>1. followups'[r] = followups[r] /\ ~Issued(r)
  BY RowsKept
<1>2. mailed[r] = 0 /\ ~followups'[r].auto
  BY <1>1 DEF OnceInv, UnissuedUnmailed
<1>3. ASSUME NEW b \in Requests, RecordLink(b) PROVE mailed'[r] = mailed[r]
  <2>1. PICK q \in Rows :
          /\ followups' = [followups EXCEPT
               ![q] = FollowUp(request[b].inv, "manual", request[b].outcome, FALSE, "none")]
          /\ mailed' = IF request[b].outcome = "sent" THEN [mailed EXCEPT ![q] = @ + 1]
                                                      ELSE mailed
    BY <1>3 DEF RecordLink
  <2>2. request[b].outcome # "none"
    BY ZenonT(90), <1>3 DEF RecordLink, Inv, HeldRowsIssued, RequestHolds
  <2>3. followups'[q] = FollowUp(request[b].inv, "manual", request[b].outcome, FALSE, "none")
    BY <2>1 DEF Inv, TypeOK
  <2>4. Issued(q)'
    BY <2>2, <2>3 DEF Issued, FollowUp
  <2>5. q # r
    BY <2>4
  <2> QED BY <2>1, <2>5 DEF Inv, TypeOK
<1>4. ASSUME NEW w \in Workers, DeliverMail(w) PROVE mailed'[r] = mailed[r]
  <2>1. delivery[w].row # r
    BY <1>1, <1>4 DEF DeliverMail, Inv, HeldRowsIssued, DeliveryHolds
  <2> QED BY <1>4, <2>1 DEF DeliverMail, Inv, TypeOK
<1> QED BY <1>2, <1>3, <1>4, NextWriters

LEMMA DeletedKept ==
    ASSUME Inv, OnceInv, [Next]_vars
    PROVE  DeletedWithInvitation'
<1> SUFFICES ASSUME NEW r \in Rows, followups'[r].auto, followups'[r].status = "deleted"
             PROVE  invitation'[followups'[r].inv].status = "deleted"
  BY DEF DeletedWithInvitation
<1>0. followups[r] \in FollowUpRow /\ invitation \in [Invitations -> InvitationRow]
  BY DEF Inv, TypeOK
<1>1. CASE followups'[r] = followups[r]
  <2>1. followups[r].inv \in Invitations /\ invitation[followups[r].inv].status = "deleted"
    BY <1>1 DEF OnceInv, DeletedWithInvitation, Inv, HeldRowsIssued, RowHolds
  <2> QED BY <1>1, <2>1, DeletedStays
<1>2. CASE RowDeleted(r)
  <2>1. followups'[r].inv = followups[r].inv
    BY <1>0, <1>2 DEF RowDeleted, FollowUpRow
  <2>2. followups[r].inv \in DOMAIN invitation
    <3>1. followups[r].status # "none" => followups[r].inv \in Invitations
      BY DEF Inv, HeldRowsIssued, RowHolds
    <3>2. followups[r].status = "none" => ~followups[r].auto
      BY DEF OnceInv, UnissuedUnmailed, Issued
    <3>3. followups'[r].auto = followups[r].auto
      BY <1>0, <1>2 DEF RowDeleted, FollowUpRow
    <3> QED BY <1>0, <3>1, <3>2, <3>3
  <2>3. [AbsentInvitation EXCEPT !.status = "deleted"].status = "deleted"
    BY DEF AbsentInvitation
  <2> QED BY <1>0, <1>2, <2>1, <2>2, <2>3 DEF RowDeleted, DeleteInvitation
<1>3. CASE RowDelivered(r)
  <2>1. PICK w \in Sweeps : followups'[r] = [followups[r] EXCEPT !.status = delivery[w].outcome]
    BY <1>3 DEF RowDelivered
  <2>2. delivery[w].outcome # "deleted"
    BY DEF Inv, TypeOK, DeliveryState, Workers
  <2>3. followups'[r].status = delivery[w].outcome
    BY <1>0, <2>1 DEF FollowUpRow
  <2> QED BY <2>2, <2>3
<1>4. CASE RowDrafted(r)
  <2>1. followups'[r].status \in {"queued", "draft"}
    BY <1>4 DEF RowDrafted, FollowUp
  <2> QED BY <2>1
<1> QED BY <1>1, <1>2, <1>3, <1>4, AutoRows

LEMMA KeepsOutKept ==
    ASSUME Inv, OnceInv, [Next]_vars, BuyerLeavesQueue
    PROVE  BuyerKeepsOut'
<1>0. "approve" \notin BuyerOps /\ "reject" \notin BuyerOps
  BY DEF BuyerLeavesQueue
<1>1. ASSUME NEW b \in Requests PROVE request'[b].pc # "reject"
  BY <1>0, NoRejects DEF OnceInv, BuyerKeepsOut
<1>2. ASSUME NEW b \in Requests, request'[b].pc = "queue"
      PROVE  ~followups'[request'[b].row].auto
  <2>1. CASE request'[b] = request[b]
    <3>1. /\ request[b].row \in Rows /\ Issued(request[b].row)
          /\ ~followups[request[b].row].auto
      BY SMTT(60), ZenonT(90), <1>2, <2>1 DEF Inv, HeldRowsIssued, RequestHolds, Issued, OnceInv, BuyerKeepsOut
    <3> QED BY <2>1, <3>1, RowsKept
  <2> QED BY <1>2, <2>1, QueuesManual
<1>3. ASSUME NEW b \in Requests, Delivering(b)'
      PROVE  ~followups'[delivery'[b].row].auto
  <2>0. b \in Workers /\ delivery'[b].pc # "none"
    BY <1>3 DEF Workers, Delivering
  <2>1. CASE delivery'[b] = delivery[b] \/ DeliverMail(b) \/ DeliverCount(b)
    <3>1. delivery'[b].row = delivery[b].row /\ Delivering(b)
      BY <2>0, <2>1 DEF DeliverMail, DeliverCount, Delivering, Inv, TypeOK, DeliveryState
    <3>2. /\ delivery[b].row \in Rows /\ Issued(delivery[b].row)
          /\ ~followups[delivery[b].row].auto
      BY <2>0, <3>1 DEF Inv, HeldRowsIssued, DeliveryHolds, Issued, Delivering, OnceInv,
                        BuyerKeepsOut
    <3> QED BY <3>1, <3>2, RowsKept
  <2>2. b \notin Sweeps
    BY OutreachAssumption
  <2> QED BY <1>0, <2>0, <2>1, <2>2, NextDelivery
<1> QED BY <1>1, <1>2, <1>3 DEF BuyerKeepsOut, Delivering

\* A row that a delivery stays with, from one state to the next.
LEMMA CarriedRow ==
    ASSUME Inv, OnceInv, [Next]_vars, NEW w \in Sweeps, Delivering(w),
           ~DeliverCommit(w), OneDriver
    PROVE  /\ delivery[w].row \in Rows /\ followups'[delivery[w].row].auto
           /\ followups'[delivery[w].row].status \in {"queued", "deleted"}
           /\ \/ mailed'[delivery[w].row] = mailed[delivery[w].row]
              \/ DeliverMail(w)
<1> DEFINE r == delivery[w].row
<1>1. r \in Rows /\ Issued(r) /\ followups[r].auto /\ followups[r].status \in {"queued", "deleted"}
      /\ followups[r] \in FollowUpRow
  BY DEF Inv, TypeOK, HeldRowsIssued, DeliveryHolds, Issued, Delivering, Workers, OnceInv,
         SweepDelivers
<1>2. followups'[r].auto
  BY <1>1, RowsKept
<1>3. ~RowDrafted(r)
  BY <1>1 DEF RowDrafted, NewRow, Issued
<1>4. ~RowDelivered(r)
  BY DEF RowDelivered, OneDriver
<1>5. RowDeleted(r) => followups'[r].status = "deleted"
  BY <1>1 DEF RowDeleted, FollowUpRow
<1>6. followups'[r].status \in {"queued", "deleted"}
  BY <1>1, <1>2, <1>3, <1>4, <1>5, AutoRows
<1>7. mailed'[r] = mailed[r] \/ DeliverMail(w)
  BY SMTT(60), ZenonT(90), <1>1, <1>2, AutoMails DEF OneDriver
<1> QED BY <1>1, <1>2, <1>6, <1>7

LEMMA SweepDeliversKept ==
    ASSUME Inv, OnceInv, [Next]_vars, BuyerLeavesQueue, OneDriver
    PROVE  SweepDelivers'
<1> SUFFICES ASSUME NEW w \in Sweeps, Delivering(w)'
             PROVE  /\ followups'[delivery'[w].row].auto
                    /\ delivery'[w].seen = "queued"
                    /\ followups'[delivery'[w].row].status \in {"queued", "deleted"}
                    /\ (delivery'[w].pc = "mail" \/ delivery'[w].outcome = "failed") =>
                          mailed'[delivery'[w].row] = 0
  BY DEF SweepDelivers, Delivering
<1>0. /\ w \in Workers /\ delivery \in [Workers -> DeliveryState] /\ delivery'[w].pc # "none"
      /\ w \notin Requests /\ "approve" \notin BuyerOps /\ mailed \in [Rows -> Nat]
  BY OutreachAssumption DEF Workers, Inv, TypeOK, Delivering, BuyerLeavesQueue
<1>1. CASE delivery'[w] = delivery[w]
  <2>1. Delivering(w) /\ ~DeliverCommit(w) /\ ~DeliverMail(w)
    <3>1. DeliverCommit(w) => delivery'[w].pc = "none"
      BY <1>0 DEF DeliverCommit, NoDelivery
    <3>2. DeliverMail(w) => delivery[w].pc = "mail" /\ delivery'[w].pc \in {"count", "commit"}
      BY <1>0 DEF DeliverMail, DeliveryState
    <3> QED BY <1>0, <1>1, <3>1, <3>2 DEF Delivering
  <2>2. /\ followups'[delivery[w].row].auto
        /\ followups'[delivery[w].row].status \in {"queued", "deleted"}
        /\ mailed'[delivery[w].row] = mailed[delivery[w].row]
    BY <2>1, CarriedRow
  <2> QED BY <1>1, <2>1, <2>2 DEF OnceInv, SweepDelivers
<1>2. CASE DeliverMail(w)
  <2>1. /\ Delivering(w) /\ ~DeliverCommit(w)
        /\ delivery'[w].row = delivery[w].row /\ delivery'[w].seen = delivery[w].seen
    BY <1>0, <1>2 DEF DeliverMail, DeliverCommit, Delivering, DeliveryState
  <2>2. delivery'[w].outcome = "failed" => mailed' = mailed
    BY <1>0, <1>2 DEF DeliverMail, DeliveryState
  <2>3. delivery'[w].pc # "mail" /\ mailed[delivery[w].row] = 0
    BY <1>0, <1>2, <2>1 DEF DeliverMail, DeliveryState, OnceInv, SweepDelivers
  <2>4. /\ followups'[delivery[w].row].auto
        /\ followups'[delivery[w].row].status \in {"queued", "deleted"}
    BY <2>1, CarriedRow
  <2> QED BY <2>1, <2>2, <2>3, <2>4 DEF OnceInv, SweepDelivers
<1>3. CASE DeliverCount(w)
  <2>1. /\ Delivering(w) /\ ~DeliverCommit(w) /\ mailed' = mailed
        /\ delivery'[w].row = delivery[w].row /\ delivery'[w].seen = delivery[w].seen
        /\ delivery'[w].outcome = delivery[w].outcome /\ delivery'[w].pc = "commit"
    BY ZenonT(90), <1>0, <1>3 DEF DeliverCount, DeliverCommit, Delivering, DeliveryState, history
  <2>2. /\ followups'[delivery[w].row].auto
        /\ followups'[delivery[w].row].status \in {"queued", "deleted"}
    BY <2>1, CarriedRow
  <2> QED BY <2>1, <2>2 DEF OnceInv, SweepDelivers
<1>4. CASE /\ SweepDraft(w) /\ RowDrafted(delivery'[w].row)
           /\ delivery'[w].row \in Rows /\ ~Issued(delivery'[w].row)
           /\ delivery'[w] = [NoDelivery EXCEPT !.pc = "mail", !.row = delivery'[w].row,
                                                !.seen = "queued"]
           /\ followups'[delivery'[w].row].status = "queued"
           /\ followups'[delivery'[w].row].auto
  <2>1. delivery'[w].seen = "queued"
    BY <1>4 DEF NoDelivery
  <2>2. mailed'[delivery'[w].row] = 0
    BY <1>4 DEF OnceInv, UnissuedUnmailed, SweepDraft, history
  <2> QED BY <1>4, <2>1, <2>2
<1> QED BY <1>0, <1>1, <1>2, <1>3, <1>4, NextDelivery

LEMMA MailedOnceKept ==
    ASSUME Inv, OnceInv, [Next]_vars, OneDriver
    PROVE  MailedOnce'
<1> SUFFICES ASSUME NEW r \in Rows, followups'[r].auto
             PROVE  /\ mailed'[r] <= 1
                    /\ mailed'[r] > 0 => followups'[r].status \in {"queued", "sent", "deleted"}
  BY DEF MailedOnce
<1>0. /\ followups[r] \in FollowUpRow /\ mailed[r] \in Nat
      /\ followups[r].auto => /\ mailed[r] <= 1
                              /\ mailed[r] > 0 =>
                                   followups[r].status \in {"queued", "sent", "deleted"}
  BY DEF Inv, TypeOK, OnceInv, MailedOnce
<1>1. CASE mailed'[r] = mailed[r]
  <2>1. CASE followups'[r] = followups[r]
    BY <1>0, <1>1, <2>1
  <2>2. CASE followups[r].auto /\ RowDeleted(r)
    <3>1. followups'[r].status = "deleted"
      BY <1>0, <2>2 DEF RowDeleted, FollowUpRow
    <3> QED BY <1>0, <1>1, <2>2, <3>1
  <2>3. CASE followups[r].auto /\ RowDelivered(r)
    <3>1. PICK w \in Sweeps : /\ DeliverCommit(w) /\ delivery[w].row = r
                              /\ followups'[r] = [followups[r] EXCEPT !.status = delivery[w].outcome]
      BY <2>3 DEF RowDelivered
    <3>2. followups'[r].status = delivery[w].outcome /\ Delivering(w) /\ w \in Workers
      BY <1>0, <3>1 DEF FollowUpRow, DeliverCommit, Delivering, Workers
    <3>3. delivery[w].outcome \in {"sent", "failed"}
      BY <3>1, <3>2 DEF Inv, TypeOK, HeldRowsIssued, DeliveryHolds, DeliveryState, DeliverCommit
    <3>4. delivery[w].outcome = "failed" => mailed[r] = 0
      BY <3>1, <3>2 DEF OnceInv, SweepDelivers
    <3> QED BY <1>0, <1>1, <2>3, <3>2, <3>3, <3>4
  <2>4. CASE RowDrafted(r)
    <3>1. mailed[r] = 0
      BY <2>4 DEF RowDrafted, NewRow, Issued, OnceInv, UnissuedUnmailed
    <3> QED BY <1>1, <3>1
  <2> QED BY <2>1, <2>2, <2>3, <2>4, AutoRows
<1>2. ASSUME NEW w \in Sweeps, DeliverMail(w), delivery[w].row = r, mailed'[r] = mailed[r] + 1
      PROVE  /\ mailed'[r] <= 1
             /\ followups'[r].status \in {"queued", "deleted"}
  <2>1. Delivering(w) /\ delivery[w].pc = "mail" /\ ~DeliverCommit(w)
    BY <1>2 DEF DeliverMail, DeliverCommit, Delivering
  <2>2. mailed[r] = 0
    BY <1>2, <2>1 DEF OnceInv, SweepDelivers
  <2>3. followups'[r].status \in {"queued", "deleted"}
    BY <1>2, <2>1, CarriedRow
  <2> QED BY <1>2, <2>2, <2>3
<1> QED BY <1>1, <1>2, AutoMails

\* A claim held after a step was held before, or its row has just been drafted.
LEMMA ClaimStep ==
    ASSUME Inv, OnceInv, [Next]_vars, BuyerLeavesQueue, OneDriver, NEW r \in Rows, Claims(r)'
    PROVE  \/ /\ Claims(r)
              /\ followups'[r].inv = followups[r].inv /\ followups'[r].kind = followups[r].kind
           \/ RowDrafted(r)
<1>0. /\ followups'[r].auto /\ followups[r] \in FollowUpRow
      /\ mailed'[r] > 0 \/ Blocks(r)' \/ InTransit(r)'
  BY DEF Claims, Inv, TypeOK
<1> SUFFICES ASSUME ~RowDrafted(r)
             PROVE  /\ Claims(r)
                    /\ followups'[r].inv = followups[r].inv
                    /\ followups'[r].kind = followups[r].kind
  OBVIOUS
<1>1. /\ followups[r].auto
      /\ followups'[r].inv = followups[r].inv /\ followups'[r].kind = followups[r].kind
      /\ followups'[r] = followups[r] \/ RowDeleted(r) \/ RowDelivered(r)
  BY <1>0, AutoRows DEF RowDeleted, RowDelivered, FollowUpRow
<1>2. CASE mailed'[r] > 0
  <2>1. ASSUME NEW w \in Sweeps, DeliverMail(w), delivery[w].row = r PROVE InTransit(r)
    BY <2>1 DEF InTransit, Workers, DeliverMail, Delivering
  <2>2. mailed[r] > 0 \/ InTransit(r)
    BY <1>0, <1>2, <2>1, AutoMails
  <2> QED BY <1>1, <2>2 DEF Claims
<1>3. CASE Blocks(r)'
  <2>1. CASE followups'[r] = followups[r]
    BY <1>1, <1>3, <2>1 DEF Claims, Blocks
  <2>2. CASE RowDeleted(r)
    <3>1. followups'[r].status = "deleted"
      BY <1>0, <2>2 DEF RowDeleted, FollowUpRow
    <3> QED BY <1>3, <3>1 DEF Blocks
  <2>3. CASE RowDelivered(r)
    <3>1. InTransit(r)
      BY SMTT(60), ZenonT(90), <2>3 DEF RowDelivered, InTransit, DeliverCommit, Delivering, Workers
    <3> QED BY <1>1, <3>1 DEF Claims
  <2> QED BY <1>1, <2>1, <2>2, <2>3
<1>4. CASE InTransit(r)'
  <2>1. PICK w \in Workers : delivery'[w].pc # "none" /\ delivery'[w].row = r
    BY <1>4 DEF InTransit, Delivering
  <2>2. CASE delivery'[w] = delivery[w] \/ DeliverMail(w) \/ DeliverCount(w)
    <3>1. Delivering(w) /\ delivery[w].row = r
      BY <2>1, <2>2 DEF DeliverMail, DeliverCount, Delivering, Inv, TypeOK, DeliveryState
    <3> QED BY <1>1, <2>1, <3>1 DEF Claims, InTransit
  <2>3. "approve" \notin BuyerOps
    BY DEF BuyerLeavesQueue
  <2> QED BY <1>0, <2>1, <2>2, <2>3, NextDelivery
<1> QED BY <1>0, <1>2, <1>3, <1>4

\* Nothing claims the place of a message that a sweep is about to insert.
LEMMA DraftUnclaimed ==
    ASSUME Inv, OnceInv, NEW w \in Sweeps, SweepDraft(w), NEW r \in Rows, Claims(r)
    PROVE  <<followups[r].inv, followups[r].kind>> # <<sweep[w].item, sweep[w].kind>>
<1> SUFFICES ASSUME followups[r].inv = sweep[w].item, followups[r].kind = sweep[w].kind
             PROVE  FALSE
  OBVIOUS
<1>1. sweep[w].pc = "draft" /\ Exists(sweep[w].item)
  BY DEF SweepDraft
<1>2. followups[r].auto /\ ~Blocks(r)
  BY <1>1 DEF Claims, OnceInv, DraftIsNew
<1>3. followups[r].status = "deleted"
  <2>1. CASE mailed[r] > 0
    BY <1>2, <2>1 DEF OnceInv, MailedOnce, Blocks
  <2>2. CASE InTransit(r)
    <3>1. PICK v \in Workers : Delivering(v) /\ delivery[v].row = r
      BY <2>2 DEF InTransit
    <3>2. v \in Sweeps
      BY <1>2, <3>1 DEF OnceInv, BuyerKeepsOut, Workers
    <3> QED BY <1>2, <3>1, <3>2 DEF OnceInv, SweepDelivers, Blocks
  <2> QED BY <1>2, <2>1, <2>2 DEF Claims
<1>4. invitation[sweep[w].item].status = "deleted"
  BY <1>2, <1>3 DEF OnceInv, DeletedWithInvitation
<1> QED BY <1>1, <1>4 DEF Exists, Present

LEMMA OneClaimKept ==
    ASSUME Inv, OnceInv, [Next]_vars, BuyerLeavesQueue, OneDriver
    PROVE  OneClaim'
<1> SUFFICES ASSUME NEW q \in Rows, NEW r \in Rows, Claims(q)', Claims(r)',
                    followups'[q].inv = followups'[r].inv,
                    followups'[q].kind = followups'[r].kind
             PROVE  q = r
  BY DEF OneClaim, SameKind
<1>1. CASE ~RowDrafted(q) /\ ~RowDrafted(r)
  <2>1. Claims(q) /\ Claims(r) /\ SameKind(q, r)
    BY <1>1, ClaimStep DEF SameKind
  <2> QED BY <2>1 DEF OnceInv, OneClaim
<1>2. ASSUME NEW x \in Rows, NEW y \in Rows, RowDrafted(x), Claims(y)',
             followups'[x].inv = followups'[y].inv, followups'[x].kind = followups'[y].kind
      PROVE  x = y
  <2>1. PICK w \in Sweeps :
          /\ SweepDraft(w) /\ NewRow(x)
          /\ followups'[x] = FollowUp(sweep[w].item, sweep[w].kind,
                                      IF AutoSend THEN "queued" ELSE "draft",
                                      TRUE, sweep[w].basis)
    BY <1>2 DEF RowDrafted
  <2>2. followups'[x].inv = sweep[w].item /\ followups'[x].kind = sweep[w].kind
    BY <2>1 DEF FollowUp
  <2>3. RowDrafted(y)
    BY <1>2, <2>1, <2>2, ClaimStep, DraftUnclaimed
  <2>4. followups[x].status = "none" /\ followups[y].status = "none"
    BY <2>1, <2>3 DEF RowDrafted, NewRow
  <2>5. x \in Nat /\ y \in Nat
    BY DEF Rows
  <2>6. ~ (x < y) /\ ~ (y < x)
    BY <2>1, <2>3, <2>4 DEF RowDrafted, NewRow
  <2> QED BY <2>5, <2>6
<1> QED BY <1>1, <1>2

LEMMA DraftIsNewKept ==
    ASSUME Inv, OnceInv, [Next]_vars, OneDriver
    PROVE  DraftIsNew'
<1> SUFFICES ASSUME NEW w \in Sweeps, sweep'[w].pc = "draft",
                    NEW r \in Rows, followups'[r].auto, Blocks(r)'
             PROVE  <<followups'[r].inv, followups'[r].kind>>
                      # <<sweep'[w].item, sweep'[w].kind>>
  BY DEF DraftIsNew
<1>0. followups[r] \in FollowUpRow
  BY DEF Inv, TypeOK
<1>1. CASE sweep'[w] = sweep[w]
  <2>1. ~RowDrafted(r)
    <3>1. SweepDraft(w) => sweep'[w].pc = "items"
      BY DEF SweepDraft, Inv, TypeOK, SweepState
    <3> QED BY <3>1 DEF RowDrafted, OneDriver
  <2>2. followups[r].auto /\ Blocks(r)
        /\ followups'[r].inv = followups[r].inv /\ followups'[r].kind = followups[r].kind
    <3>1. CASE followups'[r] = followups[r]
      BY <3>1 DEF Blocks
    <3>2. CASE RowDeleted(r)
      <4>1. followups'[r].status = "deleted"
        BY <1>0, <3>2 DEF RowDeleted, FollowUpRow
      <4> QED BY <4>1 DEF Blocks
    <3>3. CASE followups[r].auto /\ RowDelivered(r)
      <4>1. PICK v \in Sweeps : /\ DeliverCommit(v) /\ delivery[v].row = r /\ HasRow(r)
                                /\ followups'[r] = [followups[r] EXCEPT !.status = delivery[v].outcome]
        BY <3>3 DEF RowDelivered
      <4>2. Blocks(r)
        BY <4>1 DEF OnceInv, SweepDelivers, DeliverCommit, Delivering, HasRow, Blocks
      <4> QED BY <1>0, <3>3, <4>1, <4>2 DEF FollowUpRow
    <3> QED BY <2>1, <3>1, <3>2, <3>3, AutoRows
  <2> QED BY <1>1, <2>2 DEF OnceInv, DraftIsNew
<1>2. CASE Drafts(w)
  <2>1. PICK i \in Invitations : \E quote \in FoundQuotes(i) :
          /\ ~Duplicate(i, Decide(Snapshot(i, Row(w, i), quote), sweep[w].at).kind)
          /\ sweep'[w].item = i
          /\ sweep'[w].kind = Decide(Snapshot(i, Row(w, i), quote), sweep[w].at).kind
          /\ UNCHANGED followups
    BY <1>2 DEF Drafts
  <2>2. ~Duplicate(i, sweep'[w].kind) /\ sweep'[w].item = i /\ followups' = followups
    BY <2>1
  <2> QED BY <2>2 DEF Duplicate, Blocks
<1> QED BY <1>1, <1>2, NextSweeps DEF SweepStep, MovesAlong

LEMMA NextOnce ==
    ASSUME Inv, OnceInv, [Next]_vars, BuyerLeavesQueue, OneDriver
    PROVE  OnceInv'
BY UnmailedKept, DeletedKept, KeepsOutKept, SweepDeliversKept, MailedOnceKept, OneClaimKept,
   DraftIsNewKept
DEF OnceInv

LEMMA InitOnce == Init => OnceInv
<1> SUFFICES ASSUME Init PROVE OnceInv
  OBVIOUS
<1>1. UnissuedUnmailed /\ DeletedWithInvitation /\ MailedOnce
  BY DEF Init, UnissuedUnmailed, DeletedWithInvitation, MailedOnce, NoRow
<1>2. BuyerKeepsOut
  BY DEF Init, BuyerKeepsOut, IdleRequest, NoDelivery, Delivering, Workers
<1>3. SweepDelivers
  BY DEF Init, SweepDelivers, NoDelivery, Delivering, Workers
<1>4. DraftIsNew
  BY DEF Init, DraftIsNew, IdleSweep
<1>5. OneClaim
  BY DEF Init, OneClaim, Claims, NoRow
<1> QED BY <1>1, <1>2, <1>3, <1>4, <1>5 DEF OnceInv

(***************************************************************************)
(* Automatic sending emails a supplier at most once with one kind of       *)
(* message, whenever the process dies, whatever the provider refuses,      *)
(* whatever the supplier answers and whichever invitations are deleted,    *)
(* as long as one driver sweeps and the buyer neither approves nor rejects *)
(* what the sweep wrote. (Two drivers do not, as the run overlap shows.)   *)
(***************************************************************************)
THEOREM MailedAtMostOnce ==
    ASSUME OneDriver, BuyerLeavesQueue
    PROVE  Spec => []NeverMailedTwice
<1>1. Inv /\ OnceInv /\ [Next]_vars => OnceInv'
  BY NextOnce
<1>2. Inv /\ OnceInv => NeverMailedTwice
  <2> SUFFICES ASSUME Inv, OnceInv, NEW i \in Invitations, NEW kind \in Kinds
               PROVE  AutoMailed(i, kind) <= 1
    BY DEF NeverMailedTwice
  <2> DEFINE rows == {r \in Rows : /\ followups[r].auto
                                   /\ followups[r].inv = i /\ followups[r].kind = kind}
             mails == MailsOf(rows, mailed)
  <2>1. \A r \in rows : mailed[r] \in Nat /\ mailed[r] <= 1
    BY DEF Inv, TypeOK, OnceInv, MailedOnce
  <2>2. \A x, y \in mails : x = y
    <3> SUFFICES ASSUME NEW x \in mails, NEW y \in mails PROVE x = y
      OBVIOUS
    <3>1. PICK q \in rows : \E n \in 1 .. mailed[q] : x = <<q, n>>
      BY MailsMember
    <3>2. PICK r \in rows : \E n \in 1 .. mailed[r] : y = <<r, n>>
      BY MailsMember
    <3>3. x = <<q, 1>> /\ mailed[q] > 0
      BY <2>1, <3>1
    <3>4. y = <<r, 1>> /\ mailed[r] > 0
      BY <2>1, <3>2
    <3>5. q = r
      BY <3>3, <3>4 DEF OnceInv, OneClaim, Claims, SameKind
    <3> QED BY <3>3, <3>4, <3>5
  <2> HIDE DEF mails
  <2>3. CASE mails = {}
    BY <2>3, FS_EmptySet DEF AutoMailed, mails
  <2>4. CASE mails # {}
    <3>1. PICK x \in mails : TRUE
      BY <2>4
    <3>2. mails = {x}
      BY <2>2, <3>1
    <3>3. Cardinality({x}) = 1
      BY FS_Singleton
    <3>4. Cardinality(mails) <= 1
      BY <3>2, <3>3
    <3> QED BY <3>4 DEF AutoMailed, mails
  <2> QED BY <2>3, <2>4
<1> QED BY <1>1, <1>2, InitOnce, InvHolds, PTL DEF Spec

-----------------------------------------------------------------------------
(***************************************************************************)
(* What a worker holds besides: it delivers only while it does nothing     *)
(* else, what it is about to write down is a message of a known kind, and  *)
(* a delivery never begins with a row that counts as sent.                 *)
(***************************************************************************)
OneTask ==
    /\ \A b \in Requests : request[b].pc # "idle" => ~Delivering(b)
    /\ \A w \in Sweeps : sweep[w].pc = "draft" => ~Delivering(w)

Draftable ==
    /\ \A b \in Requests : request[b].pc = "draft" => request[b].kind \in Kinds
    /\ \A w \in Sweeps : sweep[w].pc = "draft" => sweep[w].kind \in Kinds

InOrder(d) ==
    /\ d.pc = "none" => d.row = None /\ d.outcome = "none"
    /\ d.pc = "mail" => d.outcome = "none"
    /\ d.seen # "sent"

UnissuedEmpty == \A r \in Rows : ~Issued(r) => followups[r].inv = None

AttemptInv ==
    /\ OneTask /\ Draftable /\ UnissuedEmpty
    /\ \A w \in Workers : InOrder(delivery[w])

LEMMA DraftedKinds ==
    ASSUME NEW s, NEW at, IsActionable(Decide(s, at))
    PROVE  Decide(s, at).kind \in Kinds
BY DEF IsActionable, Decide, DecideIncomplete, DecideOpen, ReminderKind, Skip, Escalate, Ask,
       Reminder, Kinds, ReminderKinds

(***************************************************************************)
(* How a request moves: nothing begins while it delivers.                  *)
(***************************************************************************)
RequestStep(b) ==
    \/ request'[b] = request[b]
    \/ request'[b].pc = "idle"
    \/ /\ delivery'[b] = delivery[b]
       /\ request[b].pc # "idle" \/ ~Delivering(b)
       /\ request'[b].pc = "draft" => request'[b].kind \in Kinds

LEMMA RequestMoves ==
    ASSUME Inv, NEW b \in Requests, NEW q,
           UNCHANGED delivery, request' = [request EXCEPT ![b] = q],
           request[b].pc # "idle" \/ ~Delivering(b),
           q.pc = "draft" => q.kind \in Kinds
    PROVE  \A c \in Requests : RequestStep(c)
BY DEF Inv, TypeOK, RequestStep

LEMMA RequestStops ==
    ASSUME Inv, NEW b \in Requests, request' = [request EXCEPT ![b] = IdleRequest]
    PROVE  \A c \in Requests : RequestStep(c)
BY DEF Inv, TypeOK, RequestStep, IdleRequest

LEMMA RequestQuiet ==
    ASSUME UNCHANGED request
    PROVE  \A c \in Requests : RequestStep(c)
BY DEF RequestStep

LEMMA InvitationRequests ==
    ASSUME Inv, NEW b \in Requests, InvitationStep(b)
    PROVE  \A c \in Requests : RequestStep(c)
<1>0. request \in [Requests -> RequestState]
  BY DEF Inv, TypeOK
<1>1. ASSUME NEW i \in Invitations, Invite(b, i) PROVE \A c \in Requests : RequestStep(c)
  <2> DEFINE q == [IdleRequest EXCEPT !.pc = "mail", !.inv = i, !.seen = "pending"]
  <2>1. q.pc = "mail"
    BY DEF IdleRequest
  <2>2. ~Delivering(b) /\ UNCHANGED delivery
    BY <1>1 DEF Invite, Idle
  <2>3. request' = [request EXCEPT ![b] = q] \/ UNCHANGED request
    BY <1>1 DEF Invite
  <2> HIDE DEF q
  <2> QED BY <2>1, <2>2, <2>3, RequestMoves, RequestQuiet
<1>2. ASSUME NEW i \in Invitations, Resend(b, i) PROVE \A c \in Requests : RequestStep(c)
  <2> DEFINE q == [IdleRequest EXCEPT
              !.pc = "mail", !.inv = i, !.seen = invitation[i].status,
              !.renew = IF LinkExpired(invitation[i].expires, now)
                        THEN now + LinkTTL ELSE None]
  <2>1. q.pc = "mail"
    BY DEF IdleRequest
  <2>2. ~Delivering(b) /\ UNCHANGED delivery
    BY <1>2 DEF Resend, Idle
  <2>3. request' = [request EXCEPT ![b] = q]
    BY <1>2 DEF Resend
  <2> HIDE DEF q
  <2> QED BY <2>1, <2>2, <2>3, RequestMoves
<1>3. ASSUME NEW i \in Invitations, BeginCancel(b, i) PROVE \A c \in Requests : RequestStep(c)
  <2> DEFINE q == [IdleRequest EXCEPT !.pc = "cancel", !.inv = i,
                                      !.seen = invitation[i].status]
  <2>1. q.pc = "cancel"
    BY DEF IdleRequest
  <2>2. ~Delivering(b) /\ UNCHANGED delivery
    BY <1>3 DEF BeginCancel, Idle
  <2>3. request' = [request EXCEPT ![b] = q]
    BY <1>3 DEF BeginCancel
  <2> HIDE DEF q
  <2> QED BY <2>1, <2>2, <2>3, RequestMoves
<1>4. CASE MailLink(b)
  <2>1. PICK outcome : request' = [request EXCEPT ![b].pc = "send", ![b].outcome = outcome]
    BY <1>4 DEF MailLink
  <2> DEFINE q == [request[b] EXCEPT !.pc = "send", !.outcome = outcome]
  <2>2. q.pc = "send"
    BY <1>0 DEF RequestState
  <2>3. request[b].pc = "mail" /\ UNCHANGED delivery
    BY <1>4 DEF MailLink
  <2>4. request' = [request EXCEPT ![b] = q]
    BY <2>1
  <2> HIDE DEF q
  <2> QED BY <2>2, <2>3, <2>4, RequestMoves
<1>5. CASE RecordLink(b) \/ LoseLink(b) \/ FinishCancel(b) \/ LoseCancel(b)
  BY <1>5, RequestStops DEF RecordLink, LoseLink, FinishCancel, LoseCancel, DropRequest
<1> QED BY <1>1, <1>2, <1>3, <1>4, <1>5 DEF InvitationStep

LEMMA FollowUpRequests ==
    ASSUME Inv, NEW b \in Requests, FollowUpStep(b)
    PROVE  \A c \in Requests : RequestStep(c)
<1>0. request \in [Requests -> RequestState]
  BY DEF Inv, TypeOK
<1>1. ASSUME NEW r \in Rows, BeginReject(b, r) PROVE \A c \in Requests : RequestStep(c)
  <2> DEFINE q == [IdleRequest EXCEPT !.pc = "reject", !.row = r, !.seen = followups[r].status]
  <2>1. q.pc = "reject"
    BY DEF IdleRequest
  <2>2. ~Delivering(b) /\ UNCHANGED delivery
    BY <1>1 DEF BeginReject, Idle
  <2>3. request' = [request EXCEPT ![b] = q]
    BY <1>1 DEF BeginReject
  <2> HIDE DEF q
  <2> QED BY <2>1, <2>2, <2>3, RequestMoves
<1>2. ASSUME NEW i \in Invitations, BeginManual(b, i) PROVE \A c \in Requests : RequestStep(c)
  <2>1. PICK kind \in {"no_response", "incomplete_quote"} :
          request' = [request EXCEPT ![b] =
                [IdleRequest EXCEPT !.pc = "draft", !.inv = i, !.kind = kind]]
    BY <1>2 DEF BeginManual
  <2> DEFINE q == [IdleRequest EXCEPT !.pc = "draft", !.inv = i, !.kind = kind]
  <2>2. q.kind = kind /\ kind \in Kinds
    BY DEF IdleRequest, Kinds, ReminderKinds
  <2>3. ~Delivering(b) /\ UNCHANGED delivery
    BY <1>2 DEF BeginManual, Idle
  <2>4. request' = [request EXCEPT ![b] = q]
    BY <2>1
  <2> HIDE DEF q
  <2> QED BY <2>2, <2>3, <2>4, RequestMoves
<1>3. CASE DraftManual(b)
  <2>1. PICK r : request' = [request EXCEPT ![b].pc = "queue", ![b].row = r]
    BY <1>3 DEF DraftManual
  <2> DEFINE q == [request[b] EXCEPT !.pc = "queue", !.row = r]
  <2>2. q.pc = "queue"
    BY <1>0 DEF RequestState
  <2>3. request[b].pc = "draft" /\ UNCHANGED delivery
    BY <1>3 DEF DraftManual
  <2>4. request' = [request EXCEPT ![b] = q]
    BY <2>1
  <2> HIDE DEF q
  <2> QED BY <2>2, <2>3, <2>4, RequestMoves
<1>4. CASE FinishReject(b) \/ QueueManual(b) \/ LoseManual(b)
  BY <1>4, RequestStops DEF FinishReject, QueueManual, LoseManual
<1>5. CASE (\E r \in Rows : Approve(b, r)) \/ \E i \in Invitations : ManualCustom(b, i)
  BY <1>5, RequestQuiet DEF Approve, ManualCustom
<1> QED BY <1>1, <1>2, <1>3, <1>4, <1>5 DEF FollowUpStep

LEMMA NextRequests ==
    ASSUME Inv, [Next]_vars
    PROVE  \A b \in Requests : RequestStep(b)
<1>1. CASE Restart
  BY <1>1 DEF Restart, RequestStep, IdleRequest
<1>2. CASE Tick \/ UNCHANGED vars
  BY <1>2, RequestQuiet DEF Tick, vars, workers
<1>3. CASE \E p \in Submissions : SubmissionStep(p)
  BY <1>3, RequestQuiet DEF SubmissionStep, BeginSubmit, FinishSubmit, RefuseSubmit
<1>4. CASE BuyerStep
  BY SMTT(60), ZenonT(90), <1>4, RequestQuiet
  DEF BuyerStep, DeleteInvitation, EditQuote, DeleteQuote, SetRfqStatus, workers
<1>5. CASE \E w \in Workers : DeliveryStep(w)
  BY ZenonT(90), <1>5, RequestQuiet
  DEF DeliveryStep, DeliverMail, DeliverCount, DeliverCommit, LoseDelivery
<1>6. CASE \/ \E w \in Sweeps : SweepBegin(w, "expire")
           \/ \E w \in Sweeps \ Timers : SweepBegin(w, "expireOnly")
           \/ \E w \in Sweeps : SweepGoesOn(w)
  BY ZenonT(90), <1>6, RequestQuiet
  DEF SweepBegin, SweepGoesOn, SweepExpire, SweepScan, SweepConsider, SweepDraft, SweepDies,
      SweepEnd
<1> QED
  BY <1>1, <1>2, <1>3, <1>4, <1>5, <1>6, InvitationRequests, FollowUpRequests DEF Next

(***************************************************************************)
(* How a delivery moves: it ends, goes past its email, or begins, with a   *)
(* row that does not count as sent, when its worker has nothing else left. *)
(***************************************************************************)
Start(r, s) == [NoDelivery EXCEPT !.pc = "mail", !.row = r, !.seen = s]

Begins(w) ==
    \E r \in Rows, s \in RowStatuses \ {"sent"} :
        /\ delivery'[w] = Start(r, s)
        /\ w \in Requests => request'[w].pc = "idle"
        /\ w \in Sweeps => sweep'[w].pc # "draft"

DeliveryMove(w) ==
    \/ delivery'[w] = delivery[w]
    \/ delivery'[w] = NoDelivery
    \/ /\ Delivering(w)
       /\ delivery'[w].pc \in {"count", "commit"} /\ delivery'[w].seen = delivery[w].seen
       /\ UNCHANGED <<request, sweep>>
    \/ Begins(w)

LEMMA StartMoves ==
    ASSUME Inv, NEW w \in Workers, NEW r \in Rows, NEW s \in RowStatuses \ {"sent"},
           StartDelivery(w, r, s),
           w \in Requests => request'[w].pc = "idle",
           w \in Sweeps => sweep'[w].pc # "draft"
    PROVE  \A v \in Workers : DeliveryMove(v)
<1>1. delivery' = [delivery EXCEPT ![w] = Start(r, s)]
  BY DEF StartDelivery, Start
<1> QED BY <1>1 DEF Inv, TypeOK, DeliveryMove, Begins

LEMMA NextMoves ==
    ASSUME Inv, [Next]_vars
    PROVE  \A w \in Workers : DeliveryMove(w)
<1>0. /\ delivery \in [Workers -> DeliveryState] /\ sweep \in [Sweeps -> SweepState]
      /\ request \in [Requests -> RequestState]
      /\ Requests \subseteq Workers /\ Sweeps \subseteq Workers
      /\ Requests \intersect Sweeps = {} /\ IdleRequest.pc = "idle"
      /\ "queued" \in RowStatuses \ {"sent"}
  BY OutreachAssumption DEF Inv, TypeOK, Workers, IdleRequest, RowStatuses
<1>1. CASE UNCHANGED delivery
  BY <1>1 DEF DeliveryMove
<1>2. CASE Restart
  BY <1>2 DEF Restart, DeliveryMove
<1>3. ASSUME NEW b \in Requests, NEW r \in Rows, Approve(b, r)
      PROVE  \A v \in Workers : DeliveryMove(v)
  <2>1. /\ StartDelivery(b, r, followups[r].status) /\ followups[r].status # "sent"
        /\ UNCHANGED request /\ request[b].pc = "idle"
    BY <1>3 DEF Approve, Idle
  <2>2. followups[r].status \in RowStatuses
    BY DEF Inv, TypeOK, FollowUpRow
  <2> QED BY <1>0, <2>1, <2>2, StartMoves
<1>4. ASSUME NEW b \in Requests, NEW i \in Invitations, ManualCustom(b, i)
      PROVE  \A v \in Workers : DeliveryMove(v)
  <2>1. /\ \E r \in Rows : StartDelivery(b, r, "queued")
        /\ UNCHANGED request /\ request[b].pc = "idle"
    BY <1>4 DEF ManualCustom, Idle
  <2> QED BY <1>0, <2>1, StartMoves
<1>5. ASSUME NEW b \in Requests, QueueManual(b)
      PROVE  \A v \in Workers : DeliveryMove(v)
  <2>1. /\ StartDelivery(b, request[b].row, "queued") \/ UNCHANGED delivery
        /\ request'[b] = IdleRequest /\ request[b].pc = "queue"
    BY <1>0, <1>5 DEF QueueManual
  <2>2. request[b].row \in Rows
    BY <2>1 DEF Inv, HeldRowsIssued, RequestHolds, Issued
  <2> QED BY <1>0, <1>1, <2>1, <2>2, StartMoves
<1>6. ASSUME NEW w \in Workers, DeliveryStep(w)
      PROVE  \A v \in Workers : DeliveryMove(v)
  <2>1. CASE DeliverMail(w)
    <3>1. PICK outcome \in {"sent", "failed"}, pc \in {"count", "commit"} :
            delivery' = [delivery EXCEPT ![w].outcome = outcome, ![w].pc = pc]
      BY <2>1 DEF DeliverMail
    <3>2. /\ delivery'[w].pc = pc /\ delivery'[w].seen = delivery[w].seen
          /\ \A v \in Workers \ {w} : delivery'[v] = delivery[v]
      BY <1>0, <3>1 DEF DeliveryState
    <3>3. Delivering(w) /\ UNCHANGED <<request, sweep>>
      BY <2>1 DEF DeliverMail, Delivering
    <3> QED BY <3>2, <3>3 DEF DeliveryMove
  <2>2. CASE DeliverCount(w)
    <3>1. PICK n : delivery' = [delivery EXCEPT ![w].count = n, ![w].pc = "commit"]
      BY <2>2 DEF DeliverCount
    <3>2. /\ delivery'[w].pc = "commit" /\ delivery'[w].seen = delivery[w].seen
          /\ \A v \in Workers \ {w} : delivery'[v] = delivery[v]
      BY <1>0, <3>1 DEF DeliveryState
    <3>3. Delivering(w) /\ UNCHANGED <<request, sweep>>
      BY <2>2 DEF DeliverCount, Delivering
    <3> QED BY <3>2, <3>3 DEF DeliveryMove
  <2>3. CASE DeliverCommit(w) \/ LoseDelivery(w)
    BY <1>0, <2>3 DEF DeliverCommit, LoseDelivery, DeliveryMove
  <2> QED BY <1>6, <2>1, <2>2, <2>3 DEF DeliveryStep
<1>7. ASSUME NEW w \in Sweeps, SweepDraft(w)
      PROVE  \A v \in Workers : DeliveryMove(v)
  <2>1. PICK r \in Rows : StartDelivery(w, r, "queued") \/ UNCHANGED delivery
    BY <1>7 DEF SweepDraft
  <2>2. PICK todo, seen : sweep' = [sweep EXCEPT
               ![w].pc = "items", ![w].todo = todo, ![w].item = None,
               ![w].kind = "none", ![w].basis = "none", ![w].seen = seen]
    BY <1>7 DEF SweepDraft
  <2>3. sweep'[w].pc = "items"
    BY <1>0, <2>2 DEF SweepState
  <2> QED BY <1>0, <1>1, <2>1, <2>3, StartMoves
<1> QED BY <1>1, <1>2, <1>3, <1>4, <1>5, <1>6, <1>7, NextWriters

LEMMA InitAttempts == Init => AttemptInv
BY DEF Init, AttemptInv, OneTask, Draftable, UnissuedEmpty, InOrder, Delivering, NoRow, NoDelivery,
       IdleRequest, IdleSweep

LEMMA NextAttempts ==
    ASSUME Inv, AttemptInv, [Next]_vars
    PROVE  AttemptInv'
<1>0. Requests \subseteq Workers /\ Sweeps \subseteq Workers
  BY DEF Workers
<1>1. \A r, s : Start(r, s).pc = "mail" /\ Start(r, s).outcome = "none" /\ Start(r, s).seen = s
  BY DEF Start, NoDelivery
<1>2. NoDelivery.pc = "none" /\ InOrder(NoDelivery)
  BY DEF NoDelivery, InOrder
<1>3. ASSUME NEW w \in Workers PROVE InOrder(delivery'[w])
  <2>1. DeliveryMove(w) /\ InOrder(delivery[w])
    BY NextMoves DEF AttemptInv
  <2> QED BY <1>1, <1>2, <2>1 DEF DeliveryMove, Begins, InOrder
<1>4. ASSUME NEW b \in Requests
      PROVE  /\ request'[b].pc # "idle" => delivery'[b].pc = "none"
             /\ request'[b].pc = "draft" => request'[b].kind \in Kinds
  <2>1. RequestStep(b) /\ DeliveryMove(b)
    BY <1>0, NextRequests, NextMoves
  <2>2. /\ request[b].pc # "idle" => delivery[b].pc = "none"
        /\ request[b].pc = "draft" => request[b].kind \in Kinds
    BY DEF AttemptInv, OneTask, Draftable, Delivering
  <2>3. request'[b].pc = "draft" => request'[b].kind \in Kinds
    BY <2>1, <2>2 DEF RequestStep
  <2>4. request'[b].pc # "idle" => delivery'[b].pc = "none"
    <3> SUFFICES ASSUME request'[b].pc # "idle" PROVE delivery'[b].pc = "none"
      OBVIOUS
    <3>1. CASE request'[b] = request[b]
      BY <1>2, <2>1, <2>2, <3>1 DEF DeliveryMove, Begins, Delivering
    <3>2. CASE request'[b] # request[b]
      BY <2>1, <2>2, <3>2 DEF RequestStep, Delivering
    <3> QED BY <3>1, <3>2
  <2> QED BY <2>3, <2>4
<1>5. ASSUME NEW w \in Sweeps
      PROVE  sweep'[w].pc = "draft" => delivery'[w].pc = "none" /\ sweep'[w].kind \in Kinds
  <2> SUFFICES ASSUME sweep'[w].pc = "draft"
               PROVE  delivery'[w].pc = "none" /\ sweep'[w].kind \in Kinds
    OBVIOUS
  <2>1. SweepStep(w) /\ DeliveryMove(w)
    BY <1>0, NextSweeps, NextMoves
  <2>2. sweep[w].pc = "draft" => delivery[w].pc = "none" /\ sweep[w].kind \in Kinds
    BY DEF AttemptInv, OneTask, Draftable, Delivering
  <2>3. CASE sweep'[w] = sweep[w]
    BY <1>2, <2>1, <2>2, <2>3 DEF DeliveryMove, Begins, Delivering
  <2>4. CASE Drafts(w)
    <3>1. \E s, at : IsActionable(Decide(s, at)) /\ sweep'[w].kind = Decide(s, at).kind
      BY <2>4 DEF Drafts
    <3>2. sweep'[w].kind \in Kinds
      BY <3>1, DraftedKinds
    <3>3. UNCHANGED delivery /\ delivery[w].pc = "none"
      BY <2>4 DEF Drafts, Delivering
    <3> QED BY <3>2, <3>3
  <2> QED BY <2>1, <2>3, <2>4 DEF SweepStep, MovesAlong
<1>6. UnissuedEmpty'
  BY RowsKept DEF AttemptInv, UnissuedEmpty
<1> QED BY <1>3, <1>4, <1>5, <1>6 DEF AttemptInv, OneTask, Draftable, Delivering

-----------------------------------------------------------------------------
(***************************************************************************)
(* The refinement: Outreach implements ContactLedger.                      *)
(***************************************************************************)
Entries   == [r \in Rows |-> EntryOf(r)]
Attempts  == [w \in Workers |-> AttemptOf(w)]
Claimed   == {r \in Rows : followups[r].status = "sent"}
Forgotten == {r \in Rows : followups[r].status = "deleted"}
Credited  == [i \in Invitations |-> invitation[i].reminders]

UncreditedStep == \A i \in Invitations : invitation'[i].reminders = invitation[i].reminders

LEMMA SameCredits == ASSUME UncreditedStep PROVE UNCHANGED Credited
BY DEF UncreditedStep, Credited

LEMMA SameEntries == ASSUME UNCHANGED followups PROVE UNCHANGED <<Entries, Claimed, Forgotten>>
BY DEF Entries, EntryOf, Claimed, Forgotten

LEMMA SameAttempts == ASSUME UNCHANGED delivery PROVE UNCHANGED Attempts
BY DEF Attempts, AttemptOf

LEMMA ContactsInit ==
    ASSUME StartInvitation.reminders = 0, Init
    PROVE  Contacts!Init
<1>1. Entries = [r \in Rows |-> [to |-> None, kind |-> "none", auto |-> FALSE]]
  BY DEF Init, Entries, EntryOf, NoRow
<1>2. Attempts = [w \in Workers |-> [row |-> None, answer |-> "none"]]
  BY DEF Init, Attempts, AttemptOf, NoDelivery
<1>3. mailed = [r \in Rows |-> 0] /\ Claimed = {} /\ Forgotten = {}
  BY DEF Init, Claimed, Forgotten, NoRow
<1>4. Credited = [i \in Invitations |-> 0]
  BY DEF Init, Credited
<1> QED
  BY <1>1, <1>2, <1>3, <1>4
  DEF Contacts!Init, Contacts!Blank, Contacts!NoAttempt, Contacts!Entry, Contacts!Attempt,
      Entries, Attempts, Claimed, Forgotten, Credited

LEMMA ContactsStutter ==
    ASSUME UNCHANGED <<followups, mailed>>, UNCHANGED Attempts, UncreditedStep
    PROVE  UNCHANGED Contacts!ledger
<1>1. UNCHANGED <<Entries, Claimed, Forgotten, Credited>>
  BY SameEntries, SameCredits
<1> QED BY <1>1 DEF Contacts!ledger, Entries, Attempts, Claimed, Forgotten, Credited

(***************************************************************************)
(* What the writes of a row and of a delivery are to the ledger.           *)
(***************************************************************************)
LEMMA FollowUpFields ==
    ASSUME NEW i, NEW kind, NEW status, NEW auto, NEW basis
    PROVE  /\ FollowUp(i, kind, status, auto, basis).inv = i
           /\ FollowUp(i, kind, status, auto, basis).kind = kind
           /\ FollowUp(i, kind, status, auto, basis).auto = auto
           /\ FollowUp(i, kind, status, auto, basis).status = status
BY DEF FollowUp

LEMMA EntryWritten ==
    ASSUME Inv, NEW r \in Rows, followups[r].status = "none",
           NEW i \in Invitations, NEW kind \in Kinds, NEW auto \in BOOLEAN, NEW basis,
           NEW s \in RowStatuses \ {"none", "deleted"},
           followups' = [followups EXCEPT ![r] = FollowUp(i, kind, s, auto, basis)]
    PROVE  /\ Entries' = [Entries EXCEPT ![r] = Contacts!Entry(i, kind, auto)]
           /\ Claimed' = IF s = "sent" THEN Claimed \union {r} ELSE Claimed
           /\ UNCHANGED Forgotten
           /\ ~Contacts!IsWritten(r) /\ Contacts!IsWritten(r)'
<1>0. followups \in [Rows -> FollowUpRow] /\ None # i
  BY OutreachAssumption DEF Inv, TypeOK
<1>1. /\ followups'[r] = FollowUp(i, kind, s, auto, basis)
      /\ \A q \in Rows \ {r} : followups'[q] = followups[q]
  BY <1>0
<1>2. /\ followups'[r].inv = i /\ followups'[r].kind = kind /\ followups'[r].auto = auto
      /\ followups'[r].status = s
  BY <1>1, FollowUpFields
<1>3. /\ EntryOf(r).to = None
      /\ EntryOf(r)' = Contacts!Entry(i, kind, auto) /\ EntryOf(r)'.to = i
      /\ \A q \in Rows \ {r} : EntryOf(q)' = EntryOf(q)
  BY <1>1, <1>2 DEF EntryOf, Contacts!Entry
<1>4. Entries' = [Entries EXCEPT ![r] = Contacts!Entry(i, kind, auto)]
  BY <1>3 DEF Entries
<1>5. /\ Claimed' = IF s = "sent" THEN Claimed \union {r} ELSE Claimed
      /\ UNCHANGED Forgotten
  BY <1>1, <1>2 DEF Claimed, Forgotten
<1>6. ~Contacts!IsWritten(r) /\ Contacts!IsWritten(r)'
  BY <1>0, <1>3 DEF Contacts!IsWritten
<1> QED BY <1>4, <1>5, <1>6

LEMMA KeptEntry ==
    ASSUME Inv, NEW r \in Rows, HasRow(r)
    PROVE  Contacts!Kept(r) /\ Entries[r].to = followups[r].inv /\ Entries[r].kind = followups[r].kind
<1>1. followups[r].inv \in Invitations /\ followups[r].status \notin {"none", "deleted"}
  BY DEF Inv, HeldRowsIssued, RowHolds, HasRow
<1>2. EntryOf(r).to = followups[r].inv /\ EntryOf(r).kind = followups[r].kind
  BY <1>1 DEF EntryOf
<1> QED
  BY <1>1, <1>2, OutreachAssumption
  DEF Contacts!Kept, Contacts!IsWritten, Entries, Forgotten

LEMMA StatusWritten ==
    ASSUME Inv, NEW r \in Rows, HasRow(r), NEW s \in RowStatuses \ {"none", "deleted"},
           followups' = [followups EXCEPT ![r].status = s]
    PROVE  /\ UNCHANGED <<Entries, Forgotten>>
           /\ Claimed' = IF s = "sent" THEN Claimed \union {r} ELSE Claimed \ {r}
<1>0. followups \in [Rows -> FollowUpRow]
  BY DEF Inv, TypeOK
<1>1. /\ followups'[r].status = s /\ followups'[r].inv = followups[r].inv
      /\ followups'[r].kind = followups[r].kind /\ followups'[r].auto = followups[r].auto
      /\ \A q \in Rows \ {r} : followups'[q] = followups[q]
  BY <1>0 DEF FollowUpRow
<1>2. \A q \in Rows : EntryOf(q)' = EntryOf(q)
  BY <1>1 DEF EntryOf, HasRow
<1> QED BY <1>1, <1>2 DEF Entries, Claimed, Forgotten, HasRow

LEMMA AttemptWritten ==
    ASSUME Inv, NEW w \in Workers, NEW d, delivery' = [delivery EXCEPT ![w] = d]
    PROVE  Attempts' = [Attempts EXCEPT ![w] = Contacts!Attempt(d.row, d.outcome)]
<1>1. delivery'[w] = d /\ \A v \in Workers \ {w} : delivery'[v] = delivery[v]
  BY DEF Inv, TypeOK
<1> QED BY <1>1 DEF Attempts, AttemptOf, Contacts!Attempt

(***************************************************************************)
(* Step by step: each write of the component is a step of the ledger.      *)
(***************************************************************************)
LEMMA RecordLinkContacts ==
    ASSUME Inv, UncreditedStep, NEW b \in Requests, RecordLink(b)
    PROVE  \E r \in Rows : Contacts!SendLink(r)
<1> DEFINE i == request[b].inv
           outcome == request[b].outcome
<1>1. i \in Invitations /\ outcome \in {"sent", "failed"}
  BY DEF RecordLink, Inv, TypeOK, RequestState, HeldRowsIssued, RequestHolds
<1>2. PICK r \in Rows :
        /\ followups[r].status = "none"
        /\ followups' = [followups EXCEPT ![r] = FollowUp(i, "manual", outcome, FALSE, "none")]
        /\ mailed' = IF outcome = "sent" THEN [mailed EXCEPT ![r] = @ + 1] ELSE mailed
  BY DEF RecordLink, NewRow
<1>3. UNCHANGED Attempts /\ UNCHANGED Credited
  BY SameAttempts, SameCredits DEF RecordLink
<1>4. /\ "manual" \in Kinds /\ FALSE \in BOOLEAN
      /\ {"sent", "failed"} \subseteq RowStatuses \ {"none", "deleted"}
  BY DEF Kinds, RowStatuses
<1> HIDE DEF i, outcome
<1>5. /\ Entries' = [Entries EXCEPT ![r] = Contacts!Entry(i, "manual", FALSE)]
      /\ Claimed' = IF outcome = "sent" THEN Claimed \union {r} ELSE Claimed
      /\ UNCHANGED Forgotten
      /\ ~Contacts!IsWritten(r) /\ Contacts!IsWritten(r)'
  BY <1>1, <1>2, <1>4, EntryWritten
<1>6. Contacts!Write(r, Contacts!Entry(i, "manual", FALSE))
  BY <1>3, <1>5 DEF Contacts!Write, Entries, Forgotten, Credited
<1>7. \/ mailed' = [mailed EXCEPT ![r] = @ + 1] /\ Claimed' = Claimed \union {r}
      \/ UNCHANGED <<mailed, Claimed>>
  BY <1>2, <1>5
<1> QED BY <1>1, <1>3, <1>5, <1>6, <1>7 DEF Contacts!SendLink, Claimed, Attempts

LEMMA DeleteContacts ==
    ASSUME Inv, AttemptInv, NEW i \in Invitations, DeleteInvitation(i)
    PROVE  Contacts!Forget(i)
<1> DEFINE rows == {r \in Rows : Entries[r].to = i}
<1>0. /\ followups \in [Rows -> FollowUpRow] /\ None \notin Invitations
      /\ invitation \in [Invitations -> InvitationRow]
  BY OutreachAssumption DEF Inv, TypeOK
<1>1. /\ followups' = [r \in Rows |->
           IF followups[r].inv = i THEN [followups[r] EXCEPT !.status = "deleted"]
                                   ELSE followups[r]]
      /\ UNCHANGED <<mailed, delivery>>
  BY DEF DeleteInvitation, history, workers
<1>2. \A r \in Rows : followups[r].inv = i => followups[r].status # "none"
  BY <1>0 DEF AttemptInv, UnissuedEmpty, Issued
<1>3. \A r \in Rows : r \in rows <=> followups[r].inv = i
  BY <1>0, <1>2 DEF Entries, EntryOf
<1>4. ASSUME NEW r \in Rows
      PROVE  /\ EntryOf(r)' = EntryOf(r)
             /\ r \in rows => followups'[r].status = "deleted"
             /\ r \notin rows => followups'[r] = followups[r]
  BY <1>0, <1>1, <1>2, <1>3 DEF FollowUpRow, EntryOf
<1>5. /\ UNCHANGED Entries
      /\ Forgotten' = Forgotten \union rows
      /\ Claimed' = Claimed \ rows
  BY <1>4 DEF Entries, Forgotten, Claimed
<1>6. Credited' = [Credited EXCEPT ![i] = 0]
  <2>1. [AbsentInvitation EXCEPT !.status = "deleted"].reminders = 0
    BY DEF AbsentInvitation
  <2>2. \A j \in Invitations : invitation'[j].reminders = IF j = i THEN 0 ELSE invitation[j].reminders
    BY <1>0, <2>1 DEF DeleteInvitation
  <2> QED BY <2>2 DEF Credited
<1>7. UNCHANGED Attempts
  BY <1>1, SameAttempts
<1> QED
  BY <1>1, <1>5, <1>6, <1>7
  DEF Contacts!Forget, Entries, Attempts, Claimed, Forgotten, Credited

LEMMA NoAttemptOf ==
    ASSUME AttemptInv, NEW w \in Workers, ~Delivering(w)
    PROVE  Attempts[w] = Contacts!NoAttempt
BY DEF AttemptInv, InOrder, Delivering, Attempts, AttemptOf, Contacts!NoAttempt, Contacts!Attempt

\* Beginning to deliver is beginning an attempt.
LEMMA BeginContacts ==
    ASSUME Inv, AttemptInv, NEW w \in Workers, ~Delivering(w), NEW r \in Rows, NEW status,
           StartDelivery(w, r, status)
    PROVE  Contacts!Begin(w, r)
<1>1. delivery' = [delivery EXCEPT ![w] = Start(r, status)]
  BY DEF StartDelivery, Start
<1>2. Start(r, status).row = r /\ Start(r, status).outcome = "none"
  BY DEF Start, NoDelivery
<1>3. Attempts' = [Attempts EXCEPT ![w] = Contacts!Attempt(r, "none")]
  BY <1>1, <1>2, AttemptWritten
<1> QED BY <1>3, NoAttemptOf DEF Contacts!Begin, Attempts

LEMMA ApproveContacts ==
    ASSUME Inv, AttemptInv, UncreditedStep, NEW b \in Requests, NEW r \in Rows, Approve(b, r)
    PROVE  Contacts!Ask(b, r)
<1>1. /\ ~Delivering(b) /\ HasRow(r) /\ followups[r].status # "sent" /\ b \in Workers
      /\ StartDelivery(b, r, followups[r].status) /\ UNCHANGED <<followups, mailed>>
  BY DEF Approve, Idle, database, Workers
<1>2. Contacts!Begin(b, r)
  BY <1>1, BeginContacts
<1>3. Contacts!Kept(r)
  BY <1>1, KeptEntry
<1>4. UNCHANGED <<Entries, Claimed, Forgotten, Credited>> /\ Claimed = Claimed \ {r}
  BY <1>1, SameEntries, SameCredits DEF Claimed
<1> QED
  BY <1>1, <1>2, <1>3, <1>4 DEF Contacts!Ask, Entries, Claimed, Forgotten, Credited

LEMMA RejectContacts ==
    ASSUME Inv, UncreditedStep, NEW b \in Requests, FinishReject(b)
    PROVE  UNCHANGED Contacts!ledger \/ \E r \in Rows : Contacts!Retract(r)
<1> DEFINE r == request[b].row
<1>1. /\ r \in Rows /\ UNCHANGED <<mailed, delivery>>
      /\ \/ UNCHANGED followups
         \/ HasRow(r) /\ followups' = [followups EXCEPT ![r].status = "rejected"]
  <2>1. request[b].pc = "reject" /\ UNCHANGED <<mailed, delivery>>
    BY DEF FinishReject, history
  <2>2. r \in Rows
    BY <2>1 DEF Inv, HeldRowsIssued, RequestHolds, Issued
  <2>3. \/ UNCHANGED followups
        \/ /\ HasRow(r)
           /\ followups' = [followups EXCEPT
                ![r].status = Written(@, request[b].seen, "rejected")]
    BY DEF FinishReject
  <2>4. followups \in [Rows -> FollowUpRow]
    BY DEF Inv, TypeOK
  <2>5. [followups EXCEPT ![r].status = @] = followups
    BY <2>2, <2>4 DEF FollowUpRow
  <2>6. CASE request[b].seen = "rejected"
    BY <2>1, <2>2, <2>3, <2>5, <2>6 DEF Written
  <2>7. CASE request[b].seen # "rejected"
    BY <2>1, <2>2, <2>3, <2>7 DEF Written
  <2> QED BY <2>6, <2>7
<1>2. UNCHANGED Attempts /\ UNCHANGED Credited
  BY <1>1, SameAttempts, SameCredits
<1>3. CASE UNCHANGED followups
  BY <1>1, <1>2, <1>3, ContactsStutter
<1>4. CASE HasRow(r) /\ followups' = [followups EXCEPT ![r].status = "rejected"]
  <2>0. "rejected" \in RowStatuses \ {"none", "deleted"}
    BY DEF RowStatuses
  <2>1. UNCHANGED <<Entries, Forgotten>> /\ Claimed' = Claimed \ {r}
    BY <1>1, <1>4, <2>0, StatusWritten
  <2>2. Contacts!Kept(r)
    BY <1>1, <1>4, KeptEntry
  <2> HIDE DEF r
  <2> QED
    BY <1>1, <1>2, <2>1, <2>2
    DEF Contacts!Retract, Entries, Attempts, Claimed, Forgotten, Credited
<1> QED BY <1>1, <1>3, <1>4

LEMMA CustomContacts ==
    ASSUME Inv, AttemptInv, UncreditedStep, NEW b \in Requests, NEW i \in Invitations,
           ManualCustom(b, i)
    PROVE  \E r \in Rows : Contacts!SendNew(b, r)
<1> DEFINE s == "queued"
<1>1. PICK r \in Rows :
        /\ followups[r].status = "none"
        /\ followups' = [followups EXCEPT ![r] = FollowUp(i, "manual", s, FALSE, "none")]
        /\ StartDelivery(b, r, s)
  BY DEF ManualCustom, NewRow
<1>2. ~Delivering(b) /\ b \in Workers /\ UNCHANGED mailed
  BY DEF ManualCustom, Idle, Workers
<1>3. Contacts!Begin(b, r)
  BY <1>1, <1>2, BeginContacts
<1>4. /\ "manual" \in Kinds /\ FALSE \in BOOLEAN
      /\ s \in RowStatuses \ {"none", "deleted"} /\ s # "sent"
  BY DEF Kinds, RowStatuses
<1> HIDE DEF s
<1>5. /\ Entries' = [Entries EXCEPT ![r] = Contacts!Entry(i, "manual", FALSE)]
      /\ Claimed' = IF s = "sent" THEN Claimed \union {r} ELSE Claimed
      /\ UNCHANGED Forgotten
      /\ ~Contacts!IsWritten(r) /\ Contacts!IsWritten(r)'
  BY <1>1, <1>4, EntryWritten
<1>6. UNCHANGED Credited
  BY SameCredits
<1>7. Contacts!Write(r, Contacts!Entry(i, "manual", FALSE)) /\ (b \notin Requests) = FALSE
  BY <1>5, <1>6 DEF Contacts!Write, Entries, Forgotten, Credited
<1> QED
  BY <1>2, <1>3, <1>4, <1>5, <1>7 DEF Contacts!SendNew, Claimed

LEMMA DraftContacts ==
    ASSUME Inv, AttemptInv, UncreditedStep, NEW b \in Requests, DraftManual(b)
    PROVE  \E r \in Rows : Contacts!Draft(r)
<1> DEFINE i == request[b].inv
           kind == request[b].kind
           s == IF AutoSend THEN "queued" ELSE "draft"
<1>0. request[b].pc = "draft" /\ UNCHANGED <<mailed, delivery>>
  BY DEF DraftManual, history
<1>1. i \in Invitations /\ kind \in Kinds /\ s \in RowStatuses \ {"none", "deleted"}
  BY <1>0 DEF AttemptInv, Draftable, Inv, HeldRowsIssued, RequestHolds, RowStatuses
<1>2. s # "sent"
  OBVIOUS
<1>3. PICK r \in Rows :
        /\ followups[r].status = "none"
        /\ followups' = [followups EXCEPT ![r] = FollowUp(i, kind, s, FALSE, "none")]
  BY DEF DraftManual, NewRow
<1> HIDE DEF i, kind, s
<1>4. /\ Entries' = [Entries EXCEPT ![r] = Contacts!Entry(i, kind, FALSE)]
      /\ Claimed' = IF s = "sent" THEN Claimed \union {r} ELSE Claimed
      /\ UNCHANGED Forgotten
      /\ ~Contacts!IsWritten(r) /\ Contacts!IsWritten(r)'
  BY <1>1, <1>3, EntryWritten
<1>5. UNCHANGED <<Attempts, Credited>>
  BY <1>0, SameAttempts, SameCredits
<1>6. Contacts!Write(r, Contacts!Entry(i, kind, FALSE))
  BY <1>4, <1>5 DEF Contacts!Write, Entries, Forgotten, Credited
<1> QED
  BY <1>0, <1>1, <1>2, <1>4, <1>5, <1>6 DEF Contacts!Draft, Attempts, Claimed

LEMMA QueueContacts ==
    ASSUME Inv, AttemptInv, UncreditedStep, NEW b \in Requests, QueueManual(b)
    PROVE  \E r \in Rows : Contacts!Ask(b, r) \/ Contacts!Retract(r)
<1> DEFINE r == request[b].row
<1>1. /\ request[b].pc = "queue" /\ HasRow(r) /\ UNCHANGED mailed /\ b \in Workers
      /\ followups' = [followups EXCEPT ![r].status = "queued"]
      /\ StartDelivery(b, r, "queued") \/ UNCHANGED delivery
  BY DEF QueueManual, Workers
<1>2. r \in Rows /\ ~Delivering(b)
  BY <1>1 DEF Inv, HeldRowsIssued, RequestHolds, Issued, AttemptInv, OneTask
<1> HIDE DEF r
<1>3. "queued" \in RowStatuses \ {"none", "deleted"}
  BY DEF RowStatuses
<1>4. UNCHANGED <<Entries, Forgotten>> /\ Claimed' = Claimed \ {r}
  BY <1>1, <1>2, <1>3, StatusWritten
<1>5. Contacts!Kept(r) /\ UNCHANGED Credited
  BY <1>1, <1>2, KeptEntry, SameCredits
<1>6. CASE StartDelivery(b, r, "queued")
  <2>1. Contacts!Begin(b, r)
    BY <1>1, <1>2, <1>6, BeginContacts
  <2> QED
    BY <1>1, <1>2, <1>4, <1>5, <2>1 DEF Contacts!Ask, Entries, Claimed, Forgotten, Credited
<1>7. CASE UNCHANGED delivery
  <2>1. UNCHANGED Attempts
    BY <1>7, SameAttempts
  <2> QED
    BY <1>1, <1>2, <1>4, <1>5, <2>1
    DEF Contacts!Retract, Entries, Attempts, Claimed, Forgotten, Credited
<1> QED BY <1>1, <1>6, <1>7

\* What the ledger sees of a delivery.
LEMMA AttemptSeen ==
    ASSUME Inv, NEW w \in Workers
    PROVE  Attempts[w].row = delivery[w].row /\ Attempts[w].answer = delivery[w].outcome
BY DEF Attempts, AttemptOf

LEMMA MailContacts ==
    ASSUME Inv, AttemptInv, UncreditedStep, NEW w \in Workers, DeliverMail(w)
    PROVE  Contacts!Answer(w)
<1> DEFINE r == delivery[w].row
<1>0. /\ delivery \in [Workers -> DeliveryState] /\ delivery[w].pc = "mail"
      /\ UNCHANGED followups
  BY DEF DeliverMail, database, Inv, TypeOK
<1>1. delivery[w].outcome = "none" /\ r \in Rows /\ r # None
  BY <1>0, PolicyAssumption DEF AttemptInv, InOrder, Inv, HeldRowsIssued, DeliveryHolds, Issued, Rows
<1>2. Attempts[w] # Contacts!NoAttempt /\ Attempts[w].answer = "none" /\ Attempts[w].row = r
  BY <1>1, AttemptSeen DEF Contacts!NoAttempt, Contacts!Attempt
<1>3. PICK outcome \in {"sent", "failed"}, pc \in {"count", "commit"} :
        /\ delivery' = [delivery EXCEPT ![w].outcome = outcome, ![w].pc = pc]
        /\ mailed' = IF outcome = "sent" THEN [mailed EXCEPT ![r] = @ + 1] ELSE mailed
  BY DEF DeliverMail
<1>4. /\ delivery'[w].row = r /\ delivery'[w].outcome = outcome
      /\ \A v \in Workers \ {w} : delivery'[v] = delivery[v]
  BY <1>0, <1>3 DEF DeliveryState
<1>5. Attempts' = [Attempts EXCEPT ![w].answer = outcome]
  BY <1>4 DEF Attempts, AttemptOf
<1>6. UNCHANGED <<Entries, Claimed, Forgotten, Credited>>
  BY <1>0, SameEntries, SameCredits
<1> HIDE DEF r
<1> QED
  BY <1>2, <1>3, <1>5, <1>6 DEF Contacts!Answer, Entries, Attempts, Claimed, Forgotten, Credited

LEMMA CountContacts ==
    ASSUME Inv, UncreditedStep, NEW w \in Workers, DeliverCount(w)
    PROVE  UNCHANGED Contacts!ledger
<1>1. /\ delivery \in [Workers -> DeliveryState]
      /\ UNCHANGED <<followups, mailed>>
  BY DEF DeliverCount, database, history, Inv, TypeOK
<1>2. PICK n : delivery' = [delivery EXCEPT ![w].count = n, ![w].pc = "commit"]
  BY DEF DeliverCount
<1>3. \A v \in Workers : AttemptOf(v)' = AttemptOf(v)
  BY <1>1, <1>2 DEF AttemptOf, DeliveryState
<1>4. UNCHANGED Attempts
  BY <1>3 DEF Attempts
<1> QED BY <1>1, <1>4, ContactsStutter

(***************************************************************************)
(* The end of a delivery. The count it writes is one more than it read,    *)
(* which leaves room for the email that was accepted.                      *)
(***************************************************************************)
LEMMA SameCount == ASSUME NEW S PROVE Contacts!Cardinality(S) = Cardinality(S)
BY Zenon DEF Cardinality, Contacts!Cardinality

LEMMA RemindersOnRecord ==
    ASSUME Inv, AttemptInv, NEW i \in Invitations
    PROVE  Contacts!Cardinality(Contacts!RemindersTo(i)) = RemindersMailed(i)
<1> DEFINE rows == {r \in Rows : Entries[r].to = i /\ Entries[r].kind \in ReminderKinds}
<1>1. \A r \in Rows : r \in rows <=> r \in ReminderRows(i)
  <2> SUFFICES ASSUME NEW r \in Rows PROVE r \in rows <=> r \in ReminderRows(i)
    OBVIOUS
  <2>1. CASE followups[r].status = "none"
    <3>1. followups[r].inv # i /\ Entries[r].to # i
      BY <2>1, OutreachAssumption DEF AttemptInv, UnissuedEmpty, Issued, Entries, EntryOf
    <3> QED BY <3>1 DEF ReminderRows
  <2>2. CASE followups[r].status # "none"
    BY <2>2 DEF Entries, EntryOf, ReminderRows
  <2> QED BY <2>1, <2>2
<1>2. rows = ReminderRows(i)
  BY <1>1 DEF ReminderRows
<1>3. Contacts!RemindersTo(i) = MailsOf(rows, mailed)
  BY DEF Contacts!RemindersTo, MailsOf, Entries
<1> QED BY <1>2, <1>3, Mailed, SameCount

LEMMA CreditContacts ==
    ASSUME Inv, AttemptInv, ChargeInv, NEW w \in Workers, DeliverCommit(w),
           NEW i \in Invitations, delivery[w].row \in ReminderRows(i),
           delivery[w].outcome = "sent"
    PROVE  delivery[w].count + 1 \in 1 .. Contacts!Cardinality(Contacts!RemindersTo(i))
<1>1. delivery[w].pc = "commit" /\ delivery[w].count \in Nat
  BY DEF DeliverCommit, Inv, TypeOK, DeliveryState
<1>2. w \in Uncharged(i)
  BY <1>1 DEF Uncharged
<1>3. delivery[w].count + Cardinality(Uncharged(i)) <= RemindersMailed(i)
  BY <1>1, <1>2 DEF ChargeInv
<1>4. Cardinality(Uncharged(i)) \in Nat /\ Cardinality(Uncharged(i)) >= 1
  BY <1>2, UnchargedFinite, FS_EmptySet
<1>5. RemindersMailed(i) \in Nat
  <2>1. ReminderRows(i) \in SUBSET Rows /\ mailed \in [Rows -> Nat]
    BY DEF ReminderRows, Inv, TypeOK
  <2> QED BY <2>1, Mailed, MailsFinite
<1> QED BY <1>1, <1>3, <1>4, <1>5, RemindersOnRecord

LEMMA CommitContacts ==
    ASSUME Inv, AttemptInv, ChargeInv, NEW w \in Workers, DeliverCommit(w)
    PROVE  Contacts!Settle(w)
<1> DEFINE r == delivery[w].row
           i == followups[r].inv
           outcome == delivery[w].outcome
           counts == outcome = "sent" /\ followups[r].kind \in ReminderKinds
<1>0. /\ delivery[w].pc = "commit" /\ HasRow(r) /\ UNCHANGED mailed
      /\ delivery[w] \in DeliveryState /\ followups \in [Rows -> FollowUpRow]
      /\ invitation \in [Invitations -> InvitationRow]
  BY DEF DeliverCommit, history, Inv, TypeOK
<1>1. /\ r \in Rows /\ outcome \in {"sent", "failed"} /\ i \in Invitations
      /\ delivery[w].seen # "sent"
  BY <1>0
  DEF Inv, HeldRowsIssued, DeliveryHolds, Issued, RowHolds, HasRow, DeliveryState, AttemptInv, InOrder
<1>2. /\ Contacts!Kept(r) /\ Entries[r].to = i /\ Entries[r].kind = followups[r].kind
      /\ Attempts[w].row = r /\ Attempts[w].answer = outcome
  BY <1>0, <1>1, KeptEntry, AttemptSeen
<1>3. Attempts' = [Attempts EXCEPT ![w] = Contacts!NoAttempt]
  <2>1. delivery' = [delivery EXCEPT ![w] = NoDelivery]
    BY DEF DeliverCommit
  <2>2. NoDelivery.row = None /\ NoDelivery.outcome = "none"
    BY DEF NoDelivery
  <2> QED BY <2>1, <2>2, AttemptWritten DEF Contacts!NoAttempt
<1>4. followups' = [followups EXCEPT ![r].status = Written(@, delivery[w].seen, outcome)]
  BY DEF DeliverCommit
<1>5. invitation' = IF counts THEN [invitation EXCEPT ![i].reminders = delivery[w].count + 1]
                              ELSE invitation
  BY DEF DeliverCommit
<1>6. {"sent", "failed"} \subseteq RowStatuses \ {"none", "deleted"}
  BY DEF RowStatuses
<1>7. delivery[w].count + 1 \in 1 .. Contacts!Cardinality(Contacts!RemindersTo(i)) \/ ~counts
  BY <1>1, CreditContacts DEF ReminderRows
<1>8. /\ UNCHANGED Entries /\ UNCHANGED Forgotten
      /\ outcome = "sent" => Claimed' = Claimed \union {r}
      /\ outcome = "failed" => Claimed' \in {Claimed, Claimed \ {r}}
  <2>1. CASE delivery[w].seen = outcome
    <3>1. [followups EXCEPT ![r].status = @] = followups
      BY <1>0, <1>1 DEF FollowUpRow
    <3>2. UNCHANGED followups
      BY <1>4, <2>1, <3>1 DEF Written
    <3>3. UNCHANGED Entries /\ UNCHANGED Claimed /\ UNCHANGED Forgotten
      BY <3>2, SameEntries
    <3> QED BY <1>1, <2>1, <3>3
  <2>2. CASE delivery[w].seen # outcome
    <3>1. followups' = [followups EXCEPT ![r].status = outcome]
      BY <1>4, <2>2 DEF Written
    <3> HIDE DEF r, outcome
    <3>2. /\ UNCHANGED <<Entries, Forgotten>>
          /\ Claimed' = IF outcome = "sent" THEN Claimed \union {r} ELSE Claimed \ {r}
      BY <1>0, <1>1, <1>6, <3>1, StatusWritten
    <3> QED BY <1>1, <3>2
  <2> QED BY <2>1, <2>2
<1>9. IF counts THEN Credited' = [Credited EXCEPT ![i] = delivery[w].count + 1]
                ELSE UNCHANGED Credited
  <2>1. CASE counts
    <3>1. /\ invitation'[i].reminders = delivery[w].count + 1
          /\ \A j \in Invitations \ {i} : invitation'[j] = invitation[j]
      BY ZenonT(90), <1>0, <1>1, <1>5, <2>1 DEF InvitationRow
    <3> QED BY <1>1, <2>1, <3>1 DEF Credited
  <2>2. CASE ~counts
    BY ZenonT(90), <1>5, <2>2 DEF Credited
  <2> QED BY <2>1, <2>2
<1> HIDE DEF r, i, outcome
<1>10. /\ UNCHANGED <<Entries, mailed, Forgotten>> /\ Attempts[w].answer # "none"
  BY <1>0, <1>1, <1>2, <1>8
<1>11. CASE outcome = "sent" /\ followups[r].kind \in ReminderKinds
  BY <1>2, <1>3, <1>7, <1>8, <1>9, <1>10, <1>11
  DEF Contacts!Settle, Entries, Attempts, Claimed, Forgotten, Credited
<1>12. CASE outcome = "sent" /\ followups[r].kind \notin ReminderKinds
  BY <1>2, <1>3, <1>8, <1>9, <1>10, <1>12
  DEF Contacts!Settle, Entries, Attempts, Claimed, Forgotten, Credited
<1>13. CASE outcome = "failed"
  BY <1>2, <1>3, <1>8, <1>9, <1>10, <1>13
  DEF Contacts!Settle, Entries, Attempts, Claimed, Forgotten, Credited
<1> QED BY <1>1, <1>11, <1>12, <1>13

LEMMA LoseContacts ==
    ASSUME Inv, UncreditedStep, NEW w \in Workers, LoseDelivery(w)
    PROVE  Contacts!Lose(w)
<1> DEFINE r == delivery[w].row
<1>1. /\ r \in Rows /\ followups[r].status = "deleted" /\ delivery[w].outcome # "none"
  BY DEF LoseDelivery, HasRow, Inv, HeldRowsIssued, DeliveryHolds, Issued
<1>2. /\ Attempts[w].row \in Forgotten /\ Attempts[w].answer # "none"
  BY <1>1, AttemptSeen DEF Forgotten
<1>3. Attempts' = [Attempts EXCEPT ![w] = Contacts!NoAttempt]
  <2>1. delivery' = [delivery EXCEPT ![w] = NoDelivery]
    BY DEF LoseDelivery
  <2>2. NoDelivery.row = None /\ NoDelivery.outcome = "none"
    BY DEF NoDelivery
  <2> QED BY <2>1, <2>2, AttemptWritten DEF Contacts!NoAttempt
<1>4. UNCHANGED <<followups, mailed>>
  BY DEF LoseDelivery, database, history
<1>5. UNCHANGED <<Entries, Claimed, Forgotten, Credited>>
  BY <1>4, SameEntries, SameCredits
<1> QED
  BY <1>2, <1>3, <1>4, <1>5
  DEF Contacts!Lose, Entries, Attempts, Claimed, Forgotten, Credited

LEMMA CrashContacts ==
    ASSUME UncreditedStep, Restart
    PROVE  Contacts!Crash
<1>1. Attempts' = [w \in Workers |-> Contacts!NoAttempt]
  BY DEF Restart, Attempts, AttemptOf, NoDelivery, Contacts!NoAttempt, Contacts!Attempt
<1>2. UNCHANGED <<followups, mailed>>
  BY DEF Restart, database, history
<1>3. UNCHANGED <<Entries, Claimed, Forgotten, Credited>>
  BY <1>2, SameEntries, SameCredits
<1> QED
  BY <1>1, <1>2, <1>3 DEF Contacts!Crash, Entries, Attempts, Claimed, Forgotten, Credited

LEMMA SweepContacts ==
    ASSUME Inv, AttemptInv, UncreditedStep, NEW w \in Sweeps, SweepDraft(w)
    PROVE  \E r \in Rows : Contacts!SendNew(w, r) \/ Contacts!Draft(r)
<1> DEFINE i == sweep[w].item
           kind == sweep[w].kind
           s == IF AutoSend THEN "queued" ELSE "draft"
<1>0. sweep[w].pc = "draft" /\ UNCHANGED mailed /\ w \in Workers /\ w \notin Requests
  BY OutreachAssumption DEF SweepDraft, history, Workers
<1>1. /\ i \in Invitations /\ kind \in Kinds /\ s \in RowStatuses \ {"none", "deleted"}
      /\ ~Delivering(w) /\ TRUE \in BOOLEAN
  BY <1>0 DEF AttemptInv, OneTask, Draftable, Inv, HeldRowsIssued, SweepHolds, RowStatuses
<1>2. s # "sent" /\ (AutoSend => s = "queued")
  OBVIOUS
<1>3. PICK r \in Rows :
        /\ followups[r].status = "none"
        /\ followups' = [followups EXCEPT ![r] = FollowUp(i, kind, s, TRUE, sweep[w].basis)]
        /\ IF AutoSend THEN StartDelivery(w, r, "queued") ELSE UNCHANGED delivery
  BY DEF SweepDraft, NewRow
<1> HIDE DEF i, kind, s
<1>4. /\ Entries' = [Entries EXCEPT ![r] = Contacts!Entry(i, kind, TRUE)]
      /\ Claimed' = IF s = "sent" THEN Claimed \union {r} ELSE Claimed
      /\ UNCHANGED Forgotten
      /\ ~Contacts!IsWritten(r) /\ Contacts!IsWritten(r)'
  BY <1>1, <1>3, EntryWritten
<1>5. UNCHANGED Credited
  BY SameCredits
<1>6. Contacts!Write(r, Contacts!Entry(i, kind, TRUE)) /\ (w \notin Requests) = TRUE
  BY <1>0, <1>4, <1>5 DEF Contacts!Write, Entries, Forgotten, Credited
<1>7. CASE AutoSend
  <2>1. Contacts!Begin(w, r)
    BY <1>0, <1>1, <1>3, <1>7, BeginContacts
  <2> QED
    BY <1>0, <1>1, <1>2, <1>4, <1>6, <1>7, <2>1 DEF Contacts!SendNew, Claimed
<1>8. CASE ~AutoSend
  <2>1. UNCHANGED Attempts
    BY <1>3, <1>8, SameAttempts
  <2> QED
    BY <1>0, <1>1, <1>2, <1>4, <1>6, <2>1 DEF Contacts!Draft, Attempts, Claimed
<1> QED BY <1>7, <1>8

LEMMA ContactsStep ==
    ASSUME Inv, AttemptInv, ChargeInv, [Next]_vars
    PROVE  [Contacts!Next]_(Contacts!ledger)
<1>1. CASE \E i \in Invitations : DeleteInvitation(i)
  BY <1>1, DeleteContacts DEF Contacts!Next
<1>2. CASE \E w \in Workers : DeliverCommit(w)
  BY <1>2, CommitContacts DEF Contacts!Next
<1>3. CASE /\ ~\E i \in Invitations : DeleteInvitation(i)
           /\ ~\E w \in Workers : DeliverCommit(w)
  <2>0. UncreditedStep
    BY <1>3, NextCredits DEF UncreditedStep
  <2>1. CASE Restart
    BY <2>0, <2>1, CrashContacts DEF Contacts!Next
  <2>2. CASE \E b \in Requests : RecordLink(b) \/ DraftManual(b) \/ FinishReject(b)
    BY <2>0, <2>2, RecordLinkContacts, DraftContacts, RejectContacts DEF Contacts!Next
  <2>3. CASE \E b \in Requests : \/ \E r \in Rows : Approve(b, r)
                                 \/ \E i \in Invitations : ManualCustom(b, i)
                                 \/ QueueManual(b)
    <3>1. \E w \in Workers, r \in Rows :
            Contacts!Ask(w, r) \/ Contacts!SendNew(w, r) \/ Contacts!Retract(r)
      BY <2>0, <2>3, ApproveContacts, CustomContacts, QueueContacts DEF Workers
    <3> QED BY <3>1 DEF Contacts!Next
  <2>4. CASE \E w \in Workers : DeliveryStep(w)
    BY <1>3, <2>0, <2>4, MailContacts, CountContacts, LoseContacts
    DEF DeliveryStep, Contacts!Next
  <2>5. CASE \E w \in Sweeps : SweepDraft(w)
    <3>1. \E w \in Workers, r \in Rows : Contacts!SendNew(w, r) \/ Contacts!Draft(r)
      BY <2>0, <2>5, SweepContacts DEF Workers
    <3> QED BY <3>1 DEF Contacts!Next
  <2>6. CASE UNCHANGED <<followups, mailed, delivery>>
    BY <2>0, <2>6, SameAttempts, ContactsStutter
  <2> QED
    BY <1>3, <2>1, <2>2, <2>3, <2>4, <2>5, <2>6, NextWriters DEF DeliveryStep
<1> QED BY <1>1, <1>2, <1>3

(***************************************************************************)
(* The component implements ContactLedger, when invitations start out with *)
(* no reminder: whatever sweeps, requests of the buyer, deletions and      *)
(* restarts do between two steps of a delivery, every email is on record   *)
(* for one addressee, was sent on somebody's word and never again without  *)
(* the buyer, and neither the status of a row nor the count of reminders   *)
(* claims more than the provider accepted.                                 *)
(***************************************************************************)
THEOREM ImplementsContacts ==
    ASSUME StartInvitation.reminders = 0
    PROVE  Spec => ContactsOnRecord
<1>1. Init => Contacts!Init
  BY ContactsInit
<1>2. Init => AttemptInv /\ ChargeInv
  BY InitAttempts, InitCharged
<1>3. Inv /\ AttemptInv /\ ChargeInv /\ [Next]_vars => AttemptInv' /\ ChargeInv'
  BY NextAttempts, NextCharged
<1>4. Inv /\ AttemptInv /\ ChargeInv /\ [Next]_vars => [Contacts!Next]_(Contacts!ledger)
  BY ContactsStep
<1> QED BY <1>1, <1>2, <1>3, <1>4, InvHolds, PTL DEF Spec, ContactsOnRecord, Contacts!Spec
=============================================================================
