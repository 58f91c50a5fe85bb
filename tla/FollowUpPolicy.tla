--------------------------- MODULE FollowUpPolicy ---------------------------
(***************************************************************************)
(* The follow-up policy of agents/followup/policy.py: a pure function of   *)
(* one invitation's snapshot and a clock that says whether to remind the   *)
(* supplier, to ask for the fields an incomplete quote left blank, to      *)
(* escalate to the buyer, or to do nothing.                                *)
(*                                                                         *)
(* One unit of time stands for the granularity the code compares at        *)
(* (hours); only the order of instants and the length of the intervals     *)
(* matter to a decision.                                                   *)
(***************************************************************************)
EXTENDS Integers, Sequences, FiniteSets

CONSTANTS
    Intervals,        \* settings.FOLLOWUP_INTERVALS_HOURS
    BeforeDeadline,   \* settings.FOLLOWUP_BEFORE_DEADLINE_HOURS
    MaxFollowups,     \* settings.MAX_FOLLOWUPS_PER_INVITATION
    MaxIncomplete,    \* settings.MAX_INCOMPLETE_REMINDERS
    None              \* Python's None

ASSUME PolicyAssumption ==
    /\ Intervals \in Seq(Nat)
    /\ BeforeDeadline \in Nat
    /\ MaxFollowups \in Nat
    /\ MaxIncomplete \in Nat
    /\ None \notin Nat

HighRiskBonus == 1        \* HIGH_RISK_BONUS
DefaultInterval == 72     \* the interval used when none is configured

TerminalStatuses == {"submitted", "cancelled", "declined", "expired"}

ReminderKinds == {"no_response", "deadline_warning"}

Kinds == ReminderKinds \union {"incomplete_quote", "manual"}

(***************************************************************************)
(* What the policy reads of one invitation (InvitationSnapshot). asked is  *)
(* the number of requests for missing fields already on their way;         *)
(* missing says that the quote names at least one missing field; lastSent  *)
(* is last_sent_at or sent_at.                                             *)
(***************************************************************************)
Snapshots(Statuses, Times) ==
    [status : Statuses, deadline : Times \union {None}, blocked : BOOLEAN,
     completeness : {"none", "incomplete", "complete"}, missing : BOOLEAN,
     asked : Nat, highRisk : BOOLEAN, reminders : Nat,
     lastSent : Times \union {None}, expires : Times]

(***************************************************************************)
(* What the policy answers (FollowUpDecision), in the fields something     *)
(* acts on.                                                                *)
(***************************************************************************)
Skip     == [action |-> "skip", kind |-> "none", sequence |-> 0, escalate |-> FALSE]
Escalate == [Skip EXCEPT !.escalate = TRUE]

Ask(s) ==
    [action |-> "request_missing_fields", kind |-> "incomplete_quote",
     sequence |-> s.asked + 1, escalate |-> FALSE]

Reminder(kind, sequence) ==
    [action |-> "remind", kind |-> kind, sequence |-> sequence, escalate |-> FALSE]

IsActionable(d) == d.action # "skip"

(***************************************************************************)
(* sorted(intervals_hours) or [72]. The place of an interval counts the    *)
(* shorter ones and, of its equals, those written before it and itself.    *)
(***************************************************************************)
SortedPlace(i) ==
    Cardinality({j \in DOMAIN Intervals :
                    Intervals[j] < Intervals[i] \/ (Intervals[j] = Intervals[i] /\ j <= i)})

Thresholds ==
    IF Intervals = <<>> THEN <<DefaultInterval>>
    ELSE [n \in DOMAIN Intervals |-> Intervals[CHOOSE i \in DOMAIN Intervals : SortedPlace(i) = n]]

Allowance(s) == MaxFollowups + (IF s.highRisk THEN HighRiskBonus ELSE 0)

NextSequence(s) ==
    IF s.reminders + 1 <= Len(Thresholds) THEN s.reminders + 1 ELSE Len(Thresholds)

PastDeadline(s, now) == s.deadline # None /\ now >= s.deadline

\* Mutant: a deadline already within reach no longer counts as close.
DeadlineSoon_exact(s, now) == s.deadline # None /\ s.deadline - now = BeforeDeadline

DeadlineSoon(s, now) == s.deadline # None /\ s.deadline - now <= BeforeDeadline

Elapsed(s, now) == now - s.lastSent >= Thresholds[NextSequence(s)]

\* Mutant: the stored status is believed, the quote is not looked at.
HasIncompleteQuote_byStatus(s) == s.status = "incomplete"

HasIncompleteQuote(s) == s.completeness = "incomplete" \/ s.status = "incomplete"

\* Mutant: a reminder is due only at the very instant its interval elapses.
MayRemind_instant(s, now) ==
    /\ s.reminders < Allowance(s)
    /\ s.lastSent # None
    /\ now < s.expires
    /\ now - s.lastSent = Thresholds[NextSequence(s)] \/ DeadlineSoon(s, now)

\* Mutant: the allowance is compared one too late.
MayRemind_oneMore(s, now) ==
    /\ s.reminders <= Allowance(s)
    /\ s.lastSent # None
    /\ now < s.expires
    /\ Elapsed(s, now) \/ DeadlineSoon(s, now)

(***************************************************************************)
(* Steps 5 and 6 of decide(): nothing submitted yet.                       *)
(***************************************************************************)
MayRemind(s, now) ==
    /\ s.reminders < Allowance(s)
    /\ s.lastSent # None
    /\ now < s.expires
    /\ Elapsed(s, now) \/ DeadlineSoon(s, now)

ReminderKind(s, now) == IF Elapsed(s, now) THEN "no_response" ELSE "deadline_warning"

DecideOpen(s, now) ==
    IF MayRemind(s, now) THEN Reminder(ReminderKind(s, now), NextSequence(s)) ELSE Skip

DecideIncomplete(s) == IF s.missing /\ s.asked < MaxIncomplete THEN Ask(s) ELSE Skip

\* Mutant: the incomplete quote is chased before the blocking question is looked at.
Decide_chaseFirst(s, now) ==
    IF s.status \in TerminalStatuses \/ PastDeadline(s, now) THEN Skip
    ELSE IF HasIncompleteQuote(s) THEN DecideIncomplete(s)
    ELSE IF s.blocked THEN Escalate
    ELSE DecideOpen(s, now)

(***************************************************************************)
(* decide(): the first rule that applies wins.                             *)
(***************************************************************************)
Decide(s, now) ==
    IF s.status \in TerminalStatuses \/ PastDeadline(s, now) THEN Skip
    ELSE IF s.blocked THEN Escalate
    ELSE IF HasIncompleteQuote(s) THEN DecideIncomplete(s)
    ELSE DecideOpen(s, now)

\* Mutant: the dashboard looks one interval ahead.
NextReminderDueAt_ahead(s) ==
    IF s.status \in TerminalStatuses \/ s.reminders >= MaxFollowups \/ s.lastSent = None
    THEN None
    ELSE s.lastSent
         + Thresholds[IF s.reminders + 2 <= Len(Thresholds) THEN s.reminders + 2
                                                            ELSE Len(Thresholds)]

(***************************************************************************)
(* next_reminder_due_at(): the instant the dashboard announces. It indexes *)
(* the intervals from 0 where decide() counts sequences from 1.            *)
(***************************************************************************)
NextReminderDueAt(s) ==
    IF s.status \in TerminalStatuses \/ s.reminders >= MaxFollowups \/ s.lastSent = None
    THEN None
    ELSE LET index == IF s.reminders < Len(Thresholds) - 1 THEN s.reminders
                                                           ELSE Len(Thresholds) - 1
         IN  s.lastSent + Thresholds[index + 1]
=============================================================================
