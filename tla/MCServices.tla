------------------------------ MODULE MCServices ------------------------------
(***************************************************************************)
(* Checks the services the workflow rests on, one at a time: a behaviour   *)
(* begins by choosing the service it is about, and only that one moves.    *)
(***************************************************************************)
EXTENDS Attachments, LlmClient, SupplierDirectory, SchedulerTimer

VARIABLE focus

services == <<fileVars, llmVars, directoryVars, timerVars, focus>>

MCSheets == {<<"a", "a">>, <<"malformed", "a", "blank", "b">>, <<"b", "malformed">>, <<"blank">>}

\* Bound: the provider refuses the attempts of one call only, on the loop of the server.
FewRefused == \A c \in Calls \ {2} : calls[c].next # "backoff"

ServicesInit ==
    /\ focus \in {"files", "llm", "directory", "timer"}
    /\ FilesInit /\ LlmInit /\ DirectoryInit /\ TimerInit

ServicesNext ==
    /\ UNCHANGED focus
    /\ \/ focus = "files" /\ FilesNext /\ UNCHANGED <<llmVars, directoryVars, timerVars>>
       \/ focus = "llm" /\ LlmNext /\ FewRefused' /\ UNCHANGED <<fileVars, directoryVars, timerVars>>
       \/ focus = "directory" /\ DirectoryNext /\ UNCHANGED <<fileVars, llmVars, timerVars>>
       \/ focus = "timer" /\ TimerNext /\ UNCHANGED <<fileVars, llmVars, directoryVars>>

\* A step of one service is a step of all of them while it is the one chosen.
LlmStep(A) == focus = "llm" /\ A /\ UNCHANGED <<focus, fileVars, directoryVars, timerVars>>

TimerStep(A) == focus = "timer" /\ A /\ UNCHANGED <<focus, fileVars, llmVars, directoryVars>>

\* LlmFairness and TimerFairness, each while its service is the one chosen.
ServicesFairness ==
    /\ WF_services(LlmStep(Elapse))
    /\ \A c \in Calls : WF_services(LlmStep(Proceed(c)))
    /\ \A c \in Calls \ Private : WF_services(LlmStep(Resume(c)))
    /\ WF_services(TimerStep(StartTimer))
    /\ WF_services(TimerStep(IntervalOver))
    /\ WF_services(TimerStep(LoopEnds \/ CancelLoop))

ServicesSpec == ServicesInit /\ [][ServicesNext]_services /\ ServicesFairness
=============================================================================
