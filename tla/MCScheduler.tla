----------------------------- MODULE MCScheduler -----------------------------
(* Scheduler.tla with two systems; simulation time ends after a few ticks. *)
EXTENDS Scheduler, TLC

Symmetry == Permutations(Names)
=============================================================================
