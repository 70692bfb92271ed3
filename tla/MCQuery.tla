------------------------------- MODULE MCQuery -------------------------------
(* Query.tla with one query of each shape over two component types. *)
EXTENDS Query, TLC

CONSTANTS A, B

MCTypes == {A, B}

View(required, with, without) ==
  [required |-> required, with |-> with, without |-> without]

\* Query1[A](With[B]), Query1[A](Without[B]) and Query2[A, B].
MCViews == {View(<<A>>, <<B>>, {}), View(<<A>>, <<>>, {B}), View(<<A, B>>, <<>>, {})}

Symmetry == Permutations(Values)
=============================================================================
