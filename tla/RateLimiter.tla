------------------------------ MODULE RateLimiter ------------------------------
(***************************************************************************)
(* The sliding windows in front of the public form. A request takes a hit  *)
(* from three buckets one after the other: its address by the minute and   *)
(* by the hour, and its link by the hour; then it drops stale buckets.     *)
(*                                                                         *)
(* The preview is served by a pool of threads and the uploads and          *)
(* submissions by the event loop, all on one unlocked table of buckets. A  *)
(* check reads the clock, then counts, then adds the instant it had read;  *)
(* prune_all reads the clock, walks over the table, then drops what it     *)
(* listed. A worker may be interrupted between any two of these steps.     *)
(* Time is kept as ages in ticks, Second of them to a second: the ages of  *)
(* hits, and of the instant a worker has read.                             *)
(***************************************************************************)
EXTENDS SlidingWindow, FiniteSets

CONSTANTS
    Workers,      \* threads that serve requests, the event loop among them
    Addresses,    \* client addresses
    Links,        \* invitation tokens
    PerMinute,    \* PUBLIC_RATE_LIMIT_PER_MINUTE
    PerHour,      \* PUBLIC_RATE_LIMIT_PER_HOUR
    Minute, Hour, \* the lengths of the windows
    Second,
    Pause         \* bound: the ticks that may pass after a worker has read the clock

ASSUME LimiterAssumption ==
    /\ {PerMinute, PerHour, Minute, Hour, Pause} \subseteq Nat
    /\ Second \in Nat \ {0} /\ Minute <= Hour

VARIABLES
    buckets,      \* the ages of the hits of every bucket, oldest first
    visits,       \* what every worker is doing
    admitted,     \* history: the ages of the hits every bucket let pass of late, until raced
    raced,        \* history: the buckets two workers have used at once
    refusal       \* history: the last refusal by a bucket not raced, and for how long it holds

limiterVars == <<buckets, visits, admitted, raced, refusal>>

-----------------------------------------------------------------------------
Buckets == ({"ip:min", "ip:hour"} \X Addresses) \union ({"token:hour"} \X Links)

Limit(b)  == IF b[1] = "ip:min" THEN PerMinute ELSE PerHour
Window(b) == IF b[1] = "ip:min" THEN Minute ELSE Hour

\* The bucket a visit is at.
BucketOf(v) ==
    CASE v.step = 1 -> <<"ip:min", v.address>>
      [] v.step = 2 -> <<"ip:hour", v.address>>
      [] v.step = 3 -> <<"token:hour", v.link>>

Away == [pc |-> "away"]

NoRefusal == [bucket |-> <<"none", 0>>, wait |-> 0]

LimiterInit ==
    /\ buckets = [b \in Buckets |-> <<>>]
    /\ visits = [w \in Workers |-> Away]
    /\ admitted = [b \in Buckets |-> <<>>]
    /\ raced = {}
    /\ refusal = NoRefusal

\* A hit as old as the window still counts.
Prune(hits, window) == PopOlder(hits, window)

\* Mutant: the rest of the window, rounded down.
RetryRoundedDown(hits, window, age) == Second * ((window - (Head(hits) - age)) \div Second)

\* Whole seconds, one more than remain of the oldest hit by the clock that was read.
RetryAfter(hits, window, age) == Second * ((window - (Head(hits) - age)) \div Second) + Second

\* A worker is at a bucket during its check, and from listing it as stale to dropping it.
Users(b) ==
    {w \in Workers : \/ visits[w].pc \in {"look", "append"} /\ BucketOf(visits[w]) = b
                     \/ visits[w].pc = "list" /\ b \in visits[w].stale}

\* Worker w comes to bucket b.
Meet(w, b) ==
    /\ raced' = IF Users(b) \subseteq {w} THEN raced ELSE raced \union {b}
    /\ admitted' = IF b \in raced' THEN [admitted EXCEPT ![b] = <<>>] ELSE admitted
    /\ refusal' = IF refusal.bucket \in raced' THEN NoRefusal ELSE refusal

Passed(w) ==
    LET v == visits[w]
    IN visits' = [visits EXCEPT ![w] = [v EXCEPT !.pc = "begin", !.step = v.step + 1, !.age = 0, !.orphan = FALSE]]

-----------------------------------------------------------------------------
\* What no window reaches back to, however long its worker was interrupted.
Past == Hour + Pause

\* Beyond that an age no longer matters.
Older(hits) == [i \in DOMAIN hits |-> IF hits[i] > Past THEN hits[i] ELSE hits[i] + 1]

HasRead(v) == v.pc \in {"look", "append", "list"}

HitsAge ==
    /\ \A w \in Workers : HasRead(visits[w]) => visits[w].age < Pause
    /\ visits' = [w \in Workers |->
           IF HasRead(visits[w]) THEN [visits[w] EXCEPT !.age = @ + 1] ELSE visits[w]]
    /\ buckets' = [b \in Buckets |-> Older(buckets[b])]
    /\ admitted' = [b \in Buckets |-> PopOlder(Older(admitted[b]), Past)]
    /\ refusal' = [refusal EXCEPT !.wait = IF @ > 0 THEN @ - 1 ELSE 0]
    /\ UNCHANGED raced

Arrive(w, a, l) ==
    /\ visits[w] = Away
    /\ visits' = [visits EXCEPT ![w] =
           [pc |-> "begin", address |-> a, link |-> l, step |-> 1, age |-> 0, orphan |-> FALSE]]
    /\ UNCHANGED <<buckets, admitted, raced, refusal>>

\* check reads the clock; a limit of zero is none.
BeginCheck(w) ==
    /\ visits[w].pc = "begin" /\ visits[w].step <= 3
    /\ LET b == BucketOf(visits[w]) IN
       IF Limit(b) = 0 THEN Passed(w) /\ UNCHANGED <<admitted, raced, refusal>>
       ELSE visits' = [visits EXCEPT ![w].pc = "look"] /\ Meet(w, b)
    /\ UNCHANGED buckets

(***************************************************************************)
(* check prunes and counts, by the clock it has read. The hits taken from  *)
(* earlier buckets stay taken when a later one refuses.                    *)
(***************************************************************************)
Look(w) ==
    /\ visits[w].pc = "look"
    /\ LET b    == BucketOf(visits[w])
           age  == visits[w].age
           hits == Prune(buckets[b], Window(b) + age)
       IN /\ buckets' = [buckets EXCEPT ![b] = hits]
          /\ IF Len(hits) >= Limit(b)
             THEN /\ visits' = [visits EXCEPT ![w] = Away]
                  /\ refusal' = IF b \in raced THEN NoRefusal
                                ELSE [bucket |-> b, wait |-> RetryAfter(hits, Window(b), age)]
             ELSE /\ visits' = [visits EXCEPT ![w].pc = "append"]
                  /\ UNCHANGED refusal
    /\ UNCHANGED <<admitted, raced>>

\* Another worker pruned the hit this one was about to look at: the request fails.
LookFails(w) ==
    /\ visits[w].pc = "look"
    /\ \E v \in Workers \ {w} : visits[v].pc = "look" /\ BucketOf(visits[v]) = BucketOf(visits[w])
    /\ visits' = [visits EXCEPT ![w] = Away]
    /\ UNCHANGED <<buckets, admitted, raced, refusal>>

\* check adds the instant it has read. A hit added to a bucket that was dropped is lost.
AddHit(w) ==
    /\ visits[w].pc = "append"
    /\ LET b   == BucketOf(visits[w])
           age == visits[w].age
       IN /\ buckets' = IF visits[w].orphan THEN buckets ELSE [buckets EXCEPT ![b] = Append(@, age)]
          /\ admitted' = IF b \in raced THEN admitted ELSE [admitted EXCEPT ![b] = Append(@, age)]
          /\ refusal' = IF refusal.bucket = b THEN NoRefusal ELSE refusal
    /\ Passed(w)
    /\ UNCHANGED raced

-----------------------------------------------------------------------------
\* A bucket has a key as long as it has hits, or a check is about to add one.
InTable(b) ==
    \/ buckets[b] # <<>>
    \/ \E w \in Workers : visits[w].pc = "append" /\ BucketOf(visits[w]) = b /\ ~visits[w].orphan

\* prune_all reads the clock and begins its walk.
BeginPrune(w) ==
    /\ visits[w].pc = "begin" /\ visits[w].step = 4
    /\ visits' = [visits EXCEPT ![w] =
           [pc |-> "list", age |-> 0, todo |-> {b \in Buckets : InTable(b)}, stale |-> {}]]
    /\ UNCHANGED <<buckets, admitted, raced, refusal>>

\* Mutant: the oldest hit is looked at.
StaleByOldest(hits, age) == hits = <<>> \/ hits[1] - age > Hour

\* Without a hit of the last hour, the last one added.
Stale(hits, age) == hits = <<>> \/ hits[Len(hits)] - age > Hour

\* One bucket of the walk: listed, if it is stale.
Test(w, b) ==
    /\ visits[w].pc = "list" /\ b \in visits[w].todo
    /\ IF InTable(b) /\ Stale(buckets[b], visits[w].age)
       THEN /\ visits' = [visits EXCEPT ![w].todo = @ \ {b}, ![w].stale = @ \union {b}]
            /\ Meet(w, b)
       ELSE /\ visits' = [visits EXCEPT ![w].todo = @ \ {b}]
            /\ UNCHANGED <<admitted, raced, refusal>>
    /\ UNCHANGED buckets

\* A listed bucket is dropped, with whatever was added to it since.
Drop(w, b) ==
    /\ visits[w].pc = "list" /\ visits[w].todo = {} /\ b \in visits[w].stale
    /\ buckets' = [buckets EXCEPT ![b] = <<>>]
    /\ visits' = [v \in Workers |->
         IF v = w THEN [visits[w] EXCEPT !.stale = @ \ {b}]
         ELSE IF visits[v].pc = "append" /\ BucketOf(visits[v]) = b THEN [visits[v] EXCEPT !.orphan = TRUE]
         ELSE visits[v]]
    /\ UNCHANGED <<admitted, raced, refusal>>

EndPrune(w) ==
    /\ visits[w].pc = "list" /\ visits[w].todo = {} /\ visits[w].stale = {}
    /\ visits' = [visits EXCEPT ![w] = Away]
    /\ UNCHANGED <<buckets, admitted, raced, refusal>>

\* The table changed size while it was walked: the request fails.
PruneFails(w) ==
    /\ visits[w].pc = "list" /\ visits[w].todo # {}
    /\ \E v \in Workers \ {w} : visits[v] # Away
    /\ visits' = [visits EXCEPT ![w] = Away]
    /\ UNCHANGED <<buckets, admitted, raced, refusal>>

LimiterNext ==
    \/ HitsAge
    \/ \E w \in Workers :
         \/ \E a \in Addresses, l \in Links : Arrive(w, a, l)
         \/ BeginCheck(w) \/ Look(w) \/ LookFails(w) \/ AddHit(w)
         \/ BeginPrune(w) \/ EndPrune(w) \/ PruneFails(w)
         \/ \E b \in Buckets : Test(w, b) \/ Drop(w, b)

LimiterSpec == LimiterInit /\ [][LimiterNext]_limiterVars

-----------------------------------------------------------------------------
(***************************************************************************)
(* No minute and no hour, whenever it begins, holds more requests of a     *)
(* bucket than its limit, a request counted at the instant its check read  *)
(* the clock: the one that comes Limit requests after another comes more   *)
(* than a window later. Neither the pruning of one bucket, nor prune_all,  *)
(* nor an interruption forgets a hit that still counts. The exception is a *)
(* bucket that two workers have used at once, by two checks that overlap   *)
(* or by a check between the listing of the bucket and its dropping.       *)
(***************************************************************************)
WindowsHold ==
    \A b \in Buckets \ raced : Limit(b) > 0 =>
        \A i \in DOMAIN admitted[b] :
            i + Limit(b) \in DOMAIN admitted[b]
            => admitted[b][i] - admitted[b][i + Limit(b)] > Window(b)

(***************************************************************************)
(* Retry-After is honest: once that many seconds have passed, and nobody   *)
(* else has used the bucket, the bucket that refused has room again (with  *)
(* the same exception).                                                    *)
(***************************************************************************)
RetryAfterHonest ==
    (refusal # NoRefusal /\ refusal.wait = 0)
    => Len(Prune(buckets[refusal.bucket], Window(refusal.bucket))) < Limit(refusal.bucket)
=============================================================================
