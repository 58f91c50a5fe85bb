-------------------------- MODULE MCFollowUpPolicy --------------------------
(***************************************************************************)
(* Checks the policy against what its callers and the settings file expect *)
(* of it, over one conversation at a time: a supplier's snapshot, a clock  *)
(* that passes, and a driver that carries out a decision when the policy   *)
(* asks for one and counts it the way the code counts it. The driver may   *)
(* lag: time can pass while a message is due.                              *)
(***************************************************************************)
EXTENDS FollowUpPolicy

CONSTANT MaxTime      \* bound: the clock

ASSUME ClockAssumption == MaxTime \in Nat

VARIABLES now, snap

vars == <<now, snap>>

\* The thresholds a run uses, given out of order as an operator may write them.
MCIntervals == <<3, 1>>

Times == 0 .. MaxTime

Init ==
    /\ now = 1
    /\ snap \in [status : {"pending", "incomplete", "submitted"},
                 deadline : {None, 4, MaxTime}, blocked : BOOLEAN,
                 completeness : {"none", "incomplete", "complete"},
                 missing : BOOLEAN, asked : {0}, highRisk : BOOLEAN,
                 reminders : 0 .. 1, lastSent : {None, 0, 1},
                 expires : {5, MaxTime + 1}]
    \* Missing fields are recorded exactly for an incomplete quote.
    /\ snap.missing <=> snap.completeness = "incomplete"

Decision == Decide(snap, now)

Tick ==
    /\ now < MaxTime
    /\ now' = now + 1
    /\ UNCHANGED snap

Chase ==
    /\ IsActionable(Decision)
    /\ snap' = IF Decision.action = "remind"
               THEN [snap EXCEPT !.reminders = @ + 1]
               ELSE [snap EXCEPT !.asked = @ + 1]
    /\ UNCHANGED now

Next == Tick \/ Chase

Spec == Init /\ [][Next]_vars

-----------------------------------------------------------------------------
\* A supplier the reminders are for: invited, no quote, nobody waiting on the buyer.
Silent ==
    /\ snap.status = "pending" /\ snap.completeness = "none" /\ ~snap.blocked
    /\ snap.lastSent # None /\ now >= snap.lastSent
    /\ now < snap.expires /\ ~PastDeadline(snap, now)

(***************************************************************************)
(* A message that is due stays due while nobody sends it, until the link   *)
(* expires or the deadline passes: a sweep that comes late loses nothing.  *)
(***************************************************************************)
DueStaysDue ==
    [][ (snap' = snap /\ IsActionable(Decision))
        => \/ IsActionable(Decision')
           \/ now' >= snap.expires
           \/ PastDeadline(snap, now') ]_vars

(***************************************************************************)
(* Chasing stops: a supplier gets at most MAX_FOLLOWUPS_PER_INVITATION     *)
(* reminders (one more when high-risk) and MAX_INCOMPLETE_REMINDERS        *)
(* requests for the fields left blank.                                     *)
(***************************************************************************)
ChaseBounded ==
    /\ snap.reminders <= Allowance(snap)
    /\ snap.asked <= MaxIncomplete

(***************************************************************************)
(* The instant the dashboard announces for the next reminder is the        *)
(* instant from which the policy reminds. (Suppliers of high risk, whose   *)
(* extra reminder the dashboard leaves out, and RFQs with a deadline,      *)
(* whose last call comes early, are excepted.)                             *)
(***************************************************************************)
DashboardAgrees ==
    (Silent /\ snap.deadline = None /\ ~snap.highRisk)
    => LET due == NextReminderDueAt(snap)
       IN  IsActionable(Decision) <=> (due # None /\ now >= due)

(***************************************************************************)
(* Last call: from BeforeDeadline before the deadline on, a silent         *)
(* supplier with an allowance left is always due a message, whatever the   *)
(* intervals say.                                                          *)
(***************************************************************************)
LastCall ==
    ( /\ Silent
      /\ snap.deadline # None
      /\ now >= snap.deadline - BeforeDeadline
      /\ snap.reminders < Allowance(snap) )
    => IsActionable(Decision)
=============================================================================
