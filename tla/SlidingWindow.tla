---------------------------- MODULE SlidingWindow ----------------------------
(***************************************************************************)
(* The deque of instants behind both throttles, the one of the public form *)
(* and the one of the language model: what happened, oldest first, each    *)
(* instant as its age.                                                     *)
(***************************************************************************)
EXTENDS Integers, Sequences

\* while deque and age(deque[0]) > window: deque.popleft()
PopOlder(ages, window) ==
    LET first == CHOOSE k \in 1 .. Len(ages) + 1 :
                    /\ \A i \in 1 .. k - 1 : ages[i] > window
                    /\ k <= Len(ages) => ages[k] <= window
    IN SubSeq(ages, first, Len(ages))
=============================================================================
