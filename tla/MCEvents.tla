------------------------------- MODULE MCEvents -------------------------------
(* Events.tla with three subscriptions to one event type. *)
EXTENDS Events, TLC

\* A rejected argument, the default, and two capacities that soon fill up.
MCOffered == {-1, 0, 1, 2}

Symmetry == Permutations(Subs) \cup Permutations(EventValues)
=============================================================================
