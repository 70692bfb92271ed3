------------------------------ MODULE EntityMap ------------------------------
(***************************************************************************)
(* What a World promises its callers: a set of live entities, each with a  *)
(* partial map from component types to values.  A created entity is new,   *)
(* a destroyed one never returns, and every operation touches exactly the  *)
(* entity and the component it names.  World.tla is shown to implement it. *)
(***************************************************************************)
CONSTANTS Types, Values, Handles

VARIABLES
  live,      \* entities that Alive accepts
  dead,      \* entities destroyed so far
  component  \* what Get returns, for each live entity and type it has

vars == <<live, dead, component>>

Init ==
  /\ live = {}
  /\ dead = {}
  /\ component = [e \in {} |-> [t \in {} |-> {}]]

\* An entity nobody has seen appears, without components.
Create ==
  \E e \in Handles \ (live \cup dead) :
    /\ live' = live \cup {e}
    /\ component' = [h \in live \cup {e} |-> IF h = e THEN [t \in {} |-> {}] ELSE component[h]]
    /\ UNCHANGED dead

Kill(e) ==
  /\ live' = live \ {e}
  /\ dead' = dead \cup {e}
  /\ component' = [h \in live \ {e} |-> component[h]]

\* e's component t gets the value v; nothing else changes.
Put(e, t, v) ==
  /\ component' = [component EXCEPT ![e] =
                     [s \in DOMAIN @ \cup {t} |-> IF s = t THEN v ELSE @[s]]]
  /\ UNCHANGED <<live, dead>>

Drop(e, t) ==
  /\ t \in DOMAIN component[e]
  /\ component' = [component EXCEPT ![e] = [s \in DOMAIN @ \ {t} |-> @[s]]]
  /\ UNCHANGED <<live, dead>>

Next ==
  \/ Create
  \/ \E e \in live : Kill(e)
  \/ \E e \in live, t \in Types, v \in Values : Put(e, t, v)
  \/ \E e \in live, t \in Types : Drop(e, t)

Spec == Init /\ [][Next]_vars
=============================================================================
