------------------------------- MODULE MCWorld -------------------------------
(* World.tla on a few slots. *)
EXTENDS World, TLC

Symmetry == Permutations(Values) \cup Permutations(Types)
=============================================================================
