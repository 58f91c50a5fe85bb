----------------------------- MODULE SchedulerTimer -----------------------------
(***************************************************************************)
(* The loop that runs a sweep every few minutes inside the web process,    *)
(* and its start and stop by the application. A sweep runs in a thread of  *)
(* its own; it may fail, and it may outlive the loop.                      *)
(***************************************************************************)
CONSTANT
    SchedulerEnabled      \* SCHEDULER_ENABLED

ASSUME TimerAssumption == SchedulerEnabled \in BOOLEAN

VARIABLES
    task,       \* the loop: absent, waiting, sweeping or ended
    stopping,   \* whether the stop event is set
    sweeping    \* whether a sweep runs in its thread

timerVars == <<task, stopping, sweeping>>

-----------------------------------------------------------------------------
TimerInit == task = "absent" /\ stopping = FALSE /\ sweeping = FALSE

\* The lifespan starts the loop once, if it is enabled.
StartTimer ==
    /\ SchedulerEnabled
    /\ task = "absent"
    /\ ~stopping
    /\ task' = "waiting"
    /\ UNCHANGED <<stopping, sweeping>>

\* wait_for times out: the interval is over.
IntervalOver ==
    /\ task = "waiting"
    /\ ~stopping
    /\ task' = "sweeping"
    /\ sweeping' = TRUE
    /\ UNCHANGED stopping

\* Mutant: an exception of the sweep ends the loop.
AfterFailureEnds == "ended"

\* An exception of the sweep is logged and the loop goes on.
AfterFailure == "waiting"

SweepEnds ==
    /\ sweeping
    /\ sweeping' = FALSE
    /\ task' = IF task = "sweeping" THEN "waiting" ELSE task
    /\ UNCHANGED stopping

SweepFails ==
    /\ sweeping
    /\ sweeping' = FALSE
    /\ task' = IF task = "sweeping" THEN AfterFailure ELSE task
    /\ UNCHANGED stopping

AskToStop ==
    /\ task # "absent"
    /\ ~stopping
    /\ stopping' = TRUE
    /\ UNCHANGED <<task, sweeping>>

\* The loop sees the event at its next turn.
LoopEnds ==
    /\ task = "waiting"
    /\ stopping
    /\ task' = "ended"
    /\ UNCHANGED <<stopping, sweeping>>

\* Five seconds are over and the sweep is not: the task is cancelled, the
\* thread runs on.
CancelLoop ==
    /\ task = "sweeping"
    /\ stopping
    /\ task' = "ended"
    /\ UNCHANGED <<stopping, sweeping>>

TimerNext ==
    StartTimer \/ IntervalOver \/ SweepEnds \/ SweepFails \/ AskToStop \/ LoopEnds \/ CancelLoop

(* The interval ends, and a loop told to stop takes its next turn. Nothing *)
(* is said of the sweep: the loop awaits its thread without a timeout, and *)
(* a sweep may wait for ever, for a draft that waits for the language      *)
(* model on a loop of its own (LlmClient).                                 *)
TimerFairness ==
    /\ WF_timerVars(StartTimer)
    /\ WF_timerVars(IntervalOver)
    /\ WF_timerVars(LoopEnds \/ CancelLoop)

TimerSpec == TimerInit /\ [][TimerNext]_timerVars /\ TimerFairness

-----------------------------------------------------------------------------
\* Every sweep ends, in one way or the other.
SweepsReturn == []<>~sweeping

(***************************************************************************)
(* Sweeps go on for as long as the application runs: however many of them  *)
(* fail, another one begins, until the loop is told to stop, provided that *)
(* every sweep ends. Told to stop, the loop ends, even if its sweep hangs. *)
(***************************************************************************)
SweepsGoOn ==
    /\ SweepsReturn => /\ (task = "waiting") ~> (task = "sweeping" \/ stopping)
                       /\ (task = "sweeping") ~> (task = "waiting" \/ stopping)
    /\ (task \in {"waiting", "sweeping"} /\ stopping) ~> (task = "ended")
=============================================================================
