------------------------------- MODULE MCAward -------------------------------
(* Small instances of the award component. *)
EXTENDS Award, TLC

\* A cheap full quote, a dearer one with a field open, and one without its price.
MCTexts ==
    {[price |-> 1, full |-> TRUE], [price |-> 2, full |-> FALSE], [price |-> None, full |-> TRUE]}

\* Requests are alike.
Alike == Permutations(Requests)
=============================================================================
