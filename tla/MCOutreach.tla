----------------------------- MODULE MCOutreach -----------------------------
(***************************************************************************)
(* Small instances of Outreach for TLC.                                    *)
(***************************************************************************)
EXTENDS Outreach, TLC

\* Invitations as they are after the first email, with a link that outlives the run.
MCSentInvitation ==
    [status |-> "pending", lastSent |-> 0, expires |-> MaxTime + 1, reminders |-> 0]

\* Answers that leave nobody waiting for the buyer.
MCUnblocked == {q \in Quote : ~q.blocked}

\* The answer that leaves fields blank and waits for nobody; the buyer's edit completes it.
MCLeftBlank == {q \in Quote : q.completeness = "incomplete" /\ ~q.blocked}

\* Answers that leave something to ask for.
MCOpenEnded == {q \in Quote : q.completeness = "incomplete"}

\* Workers of one kind run the same code (sound here: no liveness under symmetry).
MCAlike == Permutations(Submissions) \union Permutations(Requests)

MCIntervals == <<1, 3>>
=============================================================================
