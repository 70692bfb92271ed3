------------------------------ MODULE MCCommands ------------------------------
(* Commands.tla with two buffers flushed inside each other. *)
EXTENDS Commands, TLC

Symmetry == Permutations(Buffers)
=============================================================================
