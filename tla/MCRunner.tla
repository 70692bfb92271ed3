------------------------------- MODULE MCRunner -------------------------------
(* Runner.tla with two callers over a few steps of wall time. *)
EXTENDS Runner, TLC

Symmetry == Permutations(Callers)
=============================================================================
