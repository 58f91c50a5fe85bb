------------------------------- MODULE LlmClient -------------------------------
(***************************************************************************)
(* The client of the language model, one for the whole process: a throttle *)
(* that lets RPM attempts a minute through, a semaphore on the requests in *)
(* flight, and retries.                                                    *)
(*                                                                         *)
(* Most calls run on the event loop of the server, where they interleave   *)
(* only when they wait. A narrative, or a draft of a sweep, is wanted by   *)
(* synchronous code and runs on a loop of its own in another thread        *)
(* (Private), between any two steps of the others. The lock and the        *)
(* semaphore are those of asyncio, which are not safe across threads: each *)
(* of their operations is a test, a write and a wake-up, a step each. They *)
(* belong to the loop of the first call that had to wait for them: a call  *)
(* of another loop that has to wait fails, and the caller falls back on    *)
(* its rules. A call with a loop of its own that does wait is woken from   *)
(* another thread, which its loop may never notice.                        *)
(*                                                                         *)
(* Time is kept as ages and remaining times, so it has no bound.           *)
(***************************************************************************)
EXTENDS SlidingWindow, FiniteSets, FiniteSetsExt

CONSTANTS
    Calls,
    Private,          \* the calls that have a loop of their own
    RPM,              \* LLM_REQUESTS_PER_MINUTE
    Period,           \* the minute, in ticks
    MaxConcurrency,
    MaxRetries,
    MaxDelay          \* the longest _retry_delay, in ticks

ASSUME LlmAssumption ==
    /\ Private \subseteq Calls
    /\ {RPM, Period, MaxDelay, MaxRetries} \subseteq Nat
    /\ MaxConcurrency \in Nat \ {0}

VARIABLES
    calls,      \* what each call is doing and will do next, its attempts and how long it still sleeps
    recent,     \* _recent_calls: the ages of the attempts let through
    throttle,   \* _throttle_lock: held or not, who waits, whether the first was woken, and its loop
    semaphore,  \* _semaphore: permits left, who waits, who of them was woken, and its loop
    granted,    \* history: the ages of all attempts let through in the last minute
    met,        \* history: calls of two loops have had the lock at once
    lost        \* history: a wake-up was due to a call that was not in the queue yet

llmVars == <<calls, recent, throttle, semaphore, granted, met, lost>>

-----------------------------------------------------------------------------
\* The server's loop is 0.
Loop(c) == IF c \in Private THEN c ELSE 0

Unbound == -1

LlmInit ==
    /\ calls = [c \in Calls |-> [pc |-> "new", next |-> "permit", attempt |-> 0, sleep |-> 0]]
    /\ recent = <<>>
    /\ throttle = [held |-> FALSE, waiters |-> <<>>, woken |-> FALSE, loop |-> Unbound]
    /\ semaphore = [left |-> MaxConcurrency, waiters |-> <<>>, woken |-> {}, loop |-> Unbound]
    /\ granted = <<>>
    /\ met = FALSE /\ lost = FALSE

Goes(c, pc) == calls' = [calls EXCEPT ![c].pc = pc]

\* Between the test of the lock and the end of its release.
HasLock == {"taking", "inside", "throttled", "append", "unlocking", "waking"}

\* In the middle of steps between which the code does not wait.
Busy == (HasLock \ {"throttled"}) \union {"joining", "permit", "admitting", "parking", "sharing", "returning"}

\* A loop runs one call at a time.
Runs(c) == \A d \in Calls \ {c} : Loop(d) = Loop(c) => calls[d].pc \notin Busy

\* c is about to take the lock.
Meets(c) == met' = (met \/ \E d \in Calls : Loop(d) # Loop(c) /\ calls[d].pc \in HasLock)

\* c wakes nobody, while another call is about to queue and wait.
Misses(c, pc) == lost' = (lost \/ \E d \in Calls \ {c} : calls[d].pc = pc)

\* Whether a call of c's loop may wait for a primitive.
MayWait(c, primitive) == primitive.loop \in {Unbound, Loop(c)}

Queued(c, primitive) == [primitive EXCEPT !.waiters = Append(@, c), !.loop = Loop(c)]

\* Mutant: an attempt leaves the window at its very end.
StillRecentAtEnd(ages) == PopOlder(ages, Period - 1)

StillRecent(ages) == PopOlder(ages, Period)

-----------------------------------------------------------------------------
\* Every age grows by a tick; beyond the window it no longer matters.
Elapse ==
    /\ recent' = [i \in DOMAIN recent |-> Min({recent[i] + 1, Period + 1})]
    /\ granted' = PopOlder([i \in DOMAIN granted |-> granted[i] + 1], Period)
    /\ calls' = [c \in Calls |-> [calls[c] EXCEPT !.sleep = Max({0, @ - 1})]]
    /\ UNCHANGED <<throttle, semaphore, met, lost>>

Call(c) ==
    /\ calls[c].pc = "new"
    /\ Goes(c, "slot")
    /\ UNCHANGED <<recent, throttle, semaphore, granted, met, lost>>

\* Lock.acquire: free, and nobody waits. Without a limit the lock is not wanted.
TestLock(c) ==
    /\ calls[c].pc = "slot" /\ Runs(c)
    /\ IF RPM > 0 /\ ~throttle.held /\ throttle.waiters = <<>>
       THEN Goes(c, "taking") /\ Meets(c)
       ELSE Goes(c, IF RPM = 0 THEN "permit" ELSE "joining") /\ UNCHANGED met
    /\ UNCHANGED <<recent, throttle, semaphore, granted, lost>>

JoinQueue(c) ==
    /\ calls[c].pc = "joining"
    /\ IF MayWait(c, throttle)
       THEN throttle' = Queued(c, throttle) /\ Goes(c, "queued")
       ELSE Goes(c, "failed") /\ UNCHANGED throttle
    /\ UNCHANGED <<recent, semaphore, granted, met, lost>>

\* Only the first in the queue is woken; it leaves the queue, then takes the lock.
GetLock(c) ==
    /\ calls[c].pc = "queued" /\ Runs(c)
    /\ throttle.woken /\ Head(throttle.waiters) = c
    /\ throttle' = [throttle EXCEPT !.waiters = Tail(@), !.woken = FALSE]
    /\ Goes(c, "taking") /\ Meets(c)
    /\ UNCHANGED <<recent, semaphore, granted, lost>>

TakeLock(c) ==
    /\ calls[c].pc = "taking"
    /\ throttle' = [throttle EXCEPT !.held = TRUE]
    /\ Goes(c, "inside")
    /\ UNCHANGED <<recent, semaphore, granted, met, lost>>

(***************************************************************************)
(* With the lock in hand: through at once, or asleep until the oldest      *)
(* attempt is more than a minute ago. The sleeper keeps the lock.          *)
(***************************************************************************)
Count(c) ==
    /\ calls[c].pc = "inside"
    /\ recent' = StillRecent(recent)
    /\ IF Len(recent') < RPM THEN Goes(c, "append")
       ELSE calls' = [calls EXCEPT ![c] = [@ EXCEPT !.pc = "throttled", !.sleep = Period - Head(recent') + 1]]
    /\ UNCHANGED <<throttle, semaphore, granted, met, lost>>

\* Another thread emptied the deque this one was about to look at.
CountFails(c) ==
    /\ calls[c].pc = "inside"
    /\ \E d \in Calls \ {c} : calls[d].pc \in HasLock
    /\ calls' = [calls EXCEPT ![c] = [@ EXCEPT !.pc = "unlocking", !.next = "failed"]]
    /\ UNCHANGED <<recent, throttle, semaphore, granted, met, lost>>

EndSleep(c) ==
    /\ calls[c].pc = "throttled" /\ Runs(c)
    /\ calls[c].sleep = 0
    /\ recent' = StillRecent(recent)
    /\ Goes(c, "append")
    /\ UNCHANGED <<throttle, semaphore, granted, met, lost>>

AddAttempt(c) ==
    /\ calls[c].pc = "append"
    /\ recent' = Append(recent, 0)
    /\ granted' = Append(granted, 0)
    /\ calls' = [calls EXCEPT ![c] = [@ EXCEPT !.pc = "unlocking", !.next = "permit"]]
    /\ UNCHANGED <<throttle, semaphore, met, lost>>

\* Releasing a lock that another thread has released fails.
Unlock(c) ==
    /\ calls[c].pc = "unlocking"
    /\ Goes(c, IF throttle.held THEN "waking" ELSE "failed")
    /\ throttle' = [throttle EXCEPT !.held = FALSE]
    /\ UNCHANGED <<recent, semaphore, granted, met, lost>>

WakeFirst(c) ==
    /\ calls[c].pc = "waking"
    /\ throttle' = [throttle EXCEPT !.woken = (throttle.waiters # <<>>)]
    /\ IF throttle.waiters = <<>> THEN Misses(c, "joining") ELSE UNCHANGED lost
    /\ Goes(c, calls[c].next)
    /\ UNCHANGED <<recent, semaphore, granted, met>>

-----------------------------------------------------------------------------
\* Semaphore.acquire. Two threads that pass the test at once leave fewer than no permits.
TestPermit(c) ==
    /\ calls[c].pc = "permit"
    /\ Goes(c, IF semaphore.left # 0 /\ semaphore.waiters = <<>> THEN "admitting" ELSE "parking")
    /\ UNCHANGED <<recent, throttle, semaphore, granted, met, lost>>

TakePermit(c) ==
    /\ calls[c].pc = "admitting"
    /\ semaphore' = [semaphore EXCEPT !.left = @ - 1]
    /\ Goes(c, "request")
    /\ UNCHANGED <<recent, throttle, granted, met, lost>>

Park(c) ==
    /\ calls[c].pc = "parking"
    /\ IF MayWait(c, semaphore)
       THEN semaphore' = Queued(c, semaphore) /\ Goes(c, "parked")
       ELSE UNCHANGED semaphore /\ Goes(c, "failed")
    /\ UNCHANGED <<recent, throttle, granted, met, lost>>

\* A call that was woken has its permit already; it leaves the queue.
GetPermit(c) ==
    /\ calls[c].pc = "parked" /\ Runs(c)
    /\ c \in semaphore.woken
    /\ semaphore' = [semaphore EXCEPT !.waiters = SelectSeq(@, LAMBDA d : d # c), !.woken = @ \ {c}]
    /\ Goes(c, "sharing")
    /\ UNCHANGED <<recent, throttle, granted, met, lost>>

Sleeping == {i \in DOMAIN semaphore.waiters : semaphore.waiters[i] \notin semaphore.woken}

\* The first of those not woken yet gets a permit.
WakeNext ==
    semaphore' = [semaphore EXCEPT !.left = @ - 1, !.woken = @ \union {semaphore.waiters[Min(Sleeping)]}]

\* Whoever got a permit hands out the others that are left.
Share(c) ==
    /\ calls[c].pc = "sharing"
    /\ IF semaphore.left > 0 /\ Sleeping # {} THEN WakeNext /\ UNCHANGED <<calls, lost>>
       ELSE Goes(c, "request") /\ Misses(c, "parking") /\ UNCHANGED semaphore
    /\ UNCHANGED <<recent, throttle, granted, met>>

\* Semaphore.release, and where the call goes then.
GiveBack(c, next) ==
    /\ calls[c].pc = "request" /\ Runs(c)
    /\ semaphore' = [semaphore EXCEPT !.left = @ + 1]
    /\ calls' = [calls EXCEPT ![c] = [@ EXCEPT !.pc = "returning", !.next = next]]
    /\ UNCHANGED <<recent, throttle, granted, met, lost>>

\* An answer, or a refusal that no retry can help.
Answer(c, pc) == GiveBack(c, pc)

\* Mutant: the permit of a failed attempt is not returned.
RetryKeepingPermit(c) ==
    /\ calls[c].pc = "request" /\ Runs(c)
    /\ calls' = [calls EXCEPT ![c] =
           [pc |-> "backoff", next |-> "permit", attempt |-> @.attempt + 1, sleep |-> 0]]
    /\ UNCHANGED <<recent, throttle, semaphore, granted, met, lost>>

\* Too many requests, a server error, a timeout or a broken connection.
RetryLater(c) == GiveBack(c, "backoff")

Return(c) ==
    /\ calls[c].pc = "returning"
    /\ IF Sleeping # {} THEN WakeNext /\ UNCHANGED lost
       ELSE Misses(c, "parking") /\ UNCHANGED semaphore
    /\ IF calls[c].next # "backoff" THEN Goes(c, calls[c].next)
       ELSE \E delay \in 0 .. MaxDelay :
              calls' = [calls EXCEPT ![c] =
                  [pc |-> "backoff", next |-> "permit", attempt |-> @.attempt + 1, sleep |-> delay]]
    /\ UNCHANGED <<recent, throttle, granted, met>>

\* Every attempt takes a slot of its own.
TryAgain(c) ==
    /\ calls[c].pc = "backoff" /\ Runs(c)
    /\ calls[c].sleep = 0
    /\ Goes(c, IF calls[c].attempt > MaxRetries THEN "failed" ELSE "slot")
    /\ UNCHANGED <<recent, throttle, semaphore, granted, met, lost>>

Resume(c) == GetLock(c) \/ GetPermit(c)

Proceed(c) ==
    \/ TestLock(c) \/ JoinQueue(c) \/ TakeLock(c) \/ Count(c) \/ CountFails(c) \/ EndSleep(c)
    \/ AddAttempt(c) \/ Unlock(c) \/ WakeFirst(c)
    \/ TestPermit(c) \/ TakePermit(c) \/ Park(c) \/ Share(c)
    \/ Answer(c, "answered") \/ Answer(c, "failed") \/ RetryLater(c) \/ Return(c)
    \/ TryAgain(c)

LlmNext == Elapse \/ \E c \in Calls : Call(c) \/ Proceed(c) \/ Resume(c)

(***************************************************************************)
(* Time passes, a request ends (httpx has a timeout), and a loop runs what *)
(* is ready; the loop of the server has always something that rouses it, a *)
(* loop of its own with one call that waits has nothing.                   *)
(***************************************************************************)
LlmFairness ==
    /\ WF_llmVars(Elapse)
    /\ \A c \in Calls : WF_llmVars(Proceed(c))
    /\ \A c \in Calls \ Private : WF_llmVars(Resume(c))

LlmSpec == LlmInit /\ [][LlmNext]_llmVars /\ LlmFairness

-----------------------------------------------------------------------------
(***************************************************************************)
(* The throttle lets at most RPM attempts through in any minute, retries   *)
(* included, as long as no two loops have had its lock at once: the lock   *)
(* of one loop gives no protection against the thread of another.          *)
(***************************************************************************)
SlotsWithinLimit == (RPM > 0 /\ ~met) => Len(granted) <= RPM

Waits(c) == calls[c].pc \in {"queued", "parked"}

(***************************************************************************)
(* Every call ends, in an answer or in the fallback, whatever the provider *)
(* does and whoever else waits. The exceptions are two: a call on a loop   *)
(* of its own that has to wait may hang; and once a wake-up came before a  *)
(* call of another loop had queued for it, whoever waits may hang.         *)
(***************************************************************************)
CallsEnd ==
    \A c \in Calls :
        (calls[c].pc = "slot") ~> (calls[c].pc \in {"answered", "failed"}
                                   \/ (Waits(c) /\ (c \in Private \/ lost)))
=============================================================================
