------------------------------ MODULE Resources ------------------------------
(***************************************************************************)
(* World-level resources (resource.go): one heap cell per stored type,     *)
(* replaced in place, handed out by pointer, and detached from the world   *)
(* by removal while callers may still write through old pointers.          *)
(***************************************************************************)
EXTENDS Integers, FiniteSetsExt

CONSTANTS
  ResourceTypes,  \* types that resources are stored as
  ResourceValues, \* values of resources
  MaxCells        \* bound on cells addressed at one time

ASSUME ResourcesAssumption == MaxCells \in Nat /\ ResourceValues # {}

VARIABLES
  resources, \* the world's map: the cell of each type present
  heap,      \* the value of each cell
  latest,    \* history: what was last stored for each type
  lent,      \* history: pointers GetResource returned since the type was installed
  held       \* pointers GetResource ever returned, which callers may have kept

resourceVars == <<resources, heap, latest, lent, held>>

Cells == 1..MaxCells

Present == DOMAIN resources

ResourcesInit ==
  /\ resources = [t \in {} |-> 1]
  /\ heap = [p \in Cells |-> CHOOSE v \in ResourceValues : TRUE]
  /\ latest = [t \in {} |-> CHOOSE v \in ResourceValues : TRUE]
  /\ lent = [t \in ResourceTypes |-> {}]
  /\ held = {}

With(f, x, y) == [z \in DOMAIN f \cup {x} |-> IF z = x THEN y ELSE f[z]]

Without(f, x) == [z \in DOMAIN f \ {x} |-> f[z]]

\* Mutant: a detached cell is taken again.
FreshRecycled == Min(Cells \ {resources[t] : t \in Present})

\* new(T): a cell that no pointer addresses.
Unaddressed == Cells \ (held \cup {resources[t] : t \in Present})

Fresh == Min(Unaddressed)

\* SetResource on a type that is present.
Replace(t, v) ==
  /\ t \in Present
  /\ heap' = [heap EXCEPT ![resources[t]] = v]
  /\ latest' = With(latest, t, v)
  /\ UNCHANGED <<resources, lent, held>>

\* SetResource on a type that is absent.
Install(t, v) ==
  /\ t \notin Present
  /\ Unaddressed # {}
  /\ resources' = With(resources, t, Fresh)
  /\ heap' = [heap EXCEPT ![Fresh] = v]
  /\ latest' = With(latest, t, v)
  /\ UNCHANGED <<lent, held>>

GetResource(t) ==
  /\ t \in Present
  /\ lent' = [lent EXCEPT ![t] = @ \cup {resources[t]}]
  /\ held' = held \cup {resources[t]}
  /\ UNCHANGED <<resources, heap, latest>>

RemoveResource(t) ==
  /\ t \in Present
  /\ resources' = Without(resources, t)
  /\ latest' = Without(latest, t)
  /\ lent' = [lent EXCEPT ![t] = {}]
  /\ UNCHANGED <<heap, held>>

\* A caller writes through a pointer it once got, also one of a removed
\* resource.
Write(p, v) ==
  /\ heap' = [heap EXCEPT ![p] = v]
  /\ latest' = [t \in DOMAIN latest |-> IF p \in lent[t] THEN v ELSE latest[t]]
  /\ UNCHANGED <<resources, lent, held>>

ResourcesNext ==
  \/ \E t \in ResourceTypes, v \in ResourceValues : Replace(t, v) \/ Install(t, v)
  \/ \E t \in ResourceTypes : GetResource(t) \/ RemoveResource(t)
  \/ \E p \in held, v \in ResourceValues : Write(p, v)

ResourcesSpec == ResourcesInit /\ [][ResourcesNext]_resourceVars

-----------------------------------------------------------------------------
(* Properties *)

\* What a reader finds is what was last stored through the world or through a
\* pointer of this installation: a pointer of an installation that was removed
\* never reaches a later one (RemoveResource).
ReadersSeeLatest == \A t \in Present : heap[resources[t]] = latest[t]
=============================================================================
