-------------------------------- MODULE World --------------------------------
(***************************************************************************)
(* The identity and storage core of one ecf World: generational entity     *)
(* handles with slot reuse and retirement (world.go) and the sparse-set    *)
(* component stores (component.go).                                        *)
(*                                                                         *)
(* Indices are one-based here: handle.index is the code's index plus one,  *)
(* and a sparse entry, which the code already stores "plus one", is the    *)
(* position in the dense sequences itself.  A call that the code rejects   *)
(* (an invalid handle, a structural change during a query) changes nothing *)
(* and is therefore a stuttering step.                                     *)
(***************************************************************************)
EXTENDS Integers, FiniteSets, SequencesExt

CONSTANTS
  Types,     \* component types
  Values,    \* component values
  WorldId,   \* this world's identity
  OtherIds,  \* identities of other worlds, and 0 of the zero Entity
  MaxSlots,  \* how many slots fit: 2^32 in the code
  MaxGen,    \* the last generation: MaxUint32 in the code
  MaxDepth   \* bound on nested queries

ASSUME WorldAssumption ==
  /\ WorldId \in Nat \ {0}
  /\ OtherIds \subseteq Nat \ {WorldId}
  /\ MaxSlots \in Nat \ {0}
  /\ MaxGen \in Nat \ {0}
  /\ MaxDepth \in Nat

VARIABLES
  slots,      \* entitySlot per index
  free,       \* stack of reusable indices
  count,      \* number of live entities
  queryDepth, \* traversals in progress
  ensured,    \* component types whose entry holds a store
  store,      \* the storage of each type (empty until ensured)
  issued      \* history: every handle NewEntity has returned

entityVars == <<slots, free, count, issued>>
storeVars  == <<ensured, store>>
worldVars  == <<slots, free, count, queryDepth, ensured, store, issued>>

Slot   == [generation : 1..MaxGen, alive : BOOLEAN]
Handle == [world : {WorldId}, index : 1..MaxSlots, generation : 1..MaxGen]

\* Handles a caller can hold that this world never made: another world's, or
\* the zero Entity (world 0).
Foreign == [world : OtherIds, index : 1..MaxSlots, generation : 0..MaxGen]

HandleOf(i, g) == [world |-> WorldId, index |-> i, generation |-> g]

Storage == [entities : Seq(Handle), values : Seq(Values), sparse : Seq(Nat)]

EmptyStorage == [entities |-> <<>>, values |-> <<>>, sparse |-> <<>>]

-----------------------------------------------------------------------------
(* component.go: one storage *)

\* Position of e among the dense entities, 0 when it is absent.  The whole
\* handle is compared, so a stale handle of a reused slot is absent.
Index(s, e) ==
  IF e.index > Len(s.sparse) THEN 0
  ELSE LET i == s.sparse[e.index]
       IN  IF i # 0 /\ s.entities[i] = e THEN i ELSE 0

Holds(s, e) == Index(s, e) # 0

\* Mutant: the moved entity keeps its old sparse entry.
RemoveLosesMoved(s, e) ==
  LET i == Index(s, e)
      last == Len(s.entities)
  IN  IF i = 0 THEN s
      ELSE [entities |-> Front([s.entities EXCEPT ![i] = s.entities[last]]),
            values   |-> Front([s.values EXCEPT ![i] = s.values[last]]),
            sparse   |-> [s.sparse EXCEPT ![e.index] = 0]]

\* Mutant: the moved entity leaves its value behind.
RemoveLeavesValue(s, e) ==
  LET i == Index(s, e)
      moved == s.entities[Len(s.entities)]
  IN  IF i = 0 THEN s
      ELSE [entities |-> Front([s.entities EXCEPT ![i] = moved]),
            values   |-> Front(s.values),
            sparse   |-> [s.sparse EXCEPT ![moved.index] = i, ![e.index] = 0]]

\* Swap-removal: the last element fills the hole and its sparse entry follows.
RemoveFrom(s, e) ==
  LET i     == Index(s, e)
      last  == Len(s.entities)
      moved == s.entities[last]
  IN  IF i = 0 THEN s
      ELSE [entities |-> Front([s.entities EXCEPT ![i] = moved]),
            values   |-> Front([s.values EXCEPT ![i] = s.values[last]]),
            sparse   |-> [s.sparse EXCEPT ![moved.index] = i, ![e.index] = 0]]

\* The sparse sequence padded with zeros up to length n.
Grown(sparse, n) ==
  [i \in 1..(IF n > Len(sparse) THEN n ELSE Len(sparse)) |->
     IF i <= Len(sparse) THEN sparse[i] ELSE 0]

AddTo(s, e, v) ==
  [entities |-> Append(s.entities, e),
   values   |-> Append(s.values, v),
   sparse   |-> [Grown(s.sparse, e.index) EXCEPT ![e.index] = Len(s.entities) + 1]]

ReplaceIn(s, e, v) == [s EXCEPT !.values[Index(s, e)] = v]

-----------------------------------------------------------------------------
(* world.go *)

\* Mutant: the generation is not compared.
AliveByIndex(e) ==
  /\ e.world = WorldId
  /\ e.index \in DOMAIN slots
  /\ slots[e.index].alive

Alive(e) ==
  /\ e.world = WorldId
  /\ e.index \in DOMAIN slots
  /\ slots[e.index].alive
  /\ slots[e.index].generation = e.generation

WorldInit ==
  /\ slots = <<>>
  /\ free = <<>>
  /\ count = 0
  /\ queryDepth = 0
  /\ ensured = {}
  /\ store = [t \in Types |-> EmptyStorage]
  /\ issued = {}

\* NewEntity, taking the most recently freed slot at the generation that
\* Destroy left there.
NewEntityReuse ==
  /\ queryDepth = 0
  /\ free # <<>>
  /\ free' = Front(free)
  /\ slots' = [slots EXCEPT ![Last(free)].alive = TRUE]
  /\ count' = count + 1
  /\ issued' = issued \cup {HandleOf(Last(free), slots[Last(free)].generation)}
  /\ UNCHANGED <<queryDepth, storeVars>>

\* NewEntity with no free slot: a new one, unless all indices are taken.
NewEntityGrow ==
  /\ queryDepth = 0
  /\ free = <<>>
  /\ Len(slots) < MaxSlots
  /\ slots' = Append(slots, [generation |-> 1, alive |-> TRUE])
  /\ count' = count + 1
  /\ issued' = issued \cup {HandleOf(Len(slots) + 1, 1)}
  /\ UNCHANGED <<free, queryDepth, storeVars>>

\* Mutant: a slot at the last generation is freed again without a new one.
VacateAlwaysFrees(i) ==
  /\ slots' = [slots EXCEPT ![i] = [generation |-> IF @.generation < MaxGen THEN @.generation + 1
                                                   ELSE MaxGen, alive |-> FALSE]]
  /\ free' = Append(free, i)

\* Mutant: the generation is not advanced.
VacateKeepsGeneration(i) ==
  /\ slots' = [slots EXCEPT ![i].alive = FALSE]
  /\ free' = Append(free, i)

\* The slot and free list after the entity at index i dies: a slot whose
\* generation is exhausted is retired instead of freed.
Vacate(i) ==
  IF slots[i].generation < MaxGen
  THEN /\ slots' = [slots EXCEPT ![i] = [generation |-> @.generation + 1, alive |-> FALSE]]
       /\ free' = Append(free, i)
  ELSE /\ slots' = [slots EXCEPT ![i].alive = FALSE]
       /\ UNCHANGED free

Destroy(e) ==
  /\ Alive(e)
  /\ queryDepth = 0
  /\ store' = [t \in Types |-> IF t \in ensured THEN RemoveFrom(store[t], e) ELSE store[t]]
  /\ Vacate(e.index)
  /\ count' = count - 1
  /\ UNCHANGED <<queryDepth, ensured, issued>>

\* Set on an entity that has the component: replacement in place, legal
\* during a query.
SetReplace(e, t, v) ==
  /\ Alive(e)
  /\ t \in ensured
  /\ Holds(store[t], e)
  /\ store' = [store EXCEPT ![t] = ReplaceIn(@, e, v)]
  /\ UNCHANGED <<entityVars, queryDepth, ensured>>

\* Set on an entity without the component: a structural change.
SetAdd(e, t, v) ==
  /\ Alive(e)
  /\ ~Holds(store[t], e)
  /\ queryDepth = 0
  /\ ensured' = ensured \cup {t}
  /\ store' = [store EXCEPT ![t] = AddTo(@, e, v)]
  /\ UNCHANGED <<entityVars, queryDepth>>

\* Mutant: the structural check is missing.
RemoveUnguarded(e, t) ==
  /\ Alive(e)
  /\ t \in ensured
  /\ Holds(store[t], e)
  /\ store' = [store EXCEPT ![t] = RemoveFrom(@, e)]
  /\ UNCHANGED <<entityVars, queryDepth, ensured>>

RemoveComponent(e, t) ==
  /\ Alive(e)
  /\ t \in ensured
  /\ Holds(store[t], e)
  /\ queryDepth = 0
  /\ store' = [store EXCEPT ![t] = RemoveFrom(@, e)]
  /\ UNCHANGED <<entityVars, queryDepth, ensured>>

\* A query constructor creates the stores of its required types.  It carries
\* no structural guard: it may run inside a traversal.
EnsureStorage(ts) ==
  /\ ensured' = ensured \cup ts
  /\ UNCHANGED <<entityVars, queryDepth, store>>

\* query.each around its loop.
EnterQuery ==
  /\ queryDepth < MaxDepth
  /\ queryDepth' = queryDepth + 1
  /\ UNCHANGED <<entityVars, storeVars>>

LeaveQuery ==
  /\ queryDepth > 0
  /\ queryDepth' = queryDepth - 1
  /\ UNCHANGED <<entityVars, storeVars>>

NewEntity == NewEntityReuse \/ NewEntityGrow

Set(e, t, v) == SetReplace(e, t, v) \/ SetAdd(e, t, v)

\* Handles the program can pass in: all it was ever given, dead ones included.
Inputs == issued \cup Foreign

WorldNext ==
  \/ NewEntity
  \/ \E e \in Inputs : Destroy(e)
  \/ \E e \in Inputs, t \in Types, v \in Values : Set(e, t, v)
  \/ \E e \in Inputs, t \in Types : RemoveComponent(e, t)
  \/ \E t \in Types : EnsureStorage({t})
  \/ EnterQuery
  \/ LeaveQuery

WorldSpec == WorldInit /\ [][WorldNext]_worldVars

-----------------------------------------------------------------------------
(* What callers see *)

Live == {e \in issued : Alive(e)}

\* What Get reports of an entity, found through the sparse side of each storage.
ComponentsOf(e) ==
  [t \in {u \in Types : Holds(store[u], e)} |-> store[t].values[Index(store[t], e)]]

Components == [e \in Live |-> ComponentsOf(e)]

Map == INSTANCE EntityMap
         WITH Handles <- Handle, live <- Live, dead <- issued \ Live,
              component <- Components

-----------------------------------------------------------------------------
(* Properties *)

\* Every variable has its type: slots, handles and storages as world.go and
\* component.go declare them.
TypeOK ==
  /\ slots \in Seq(Slot)
  /\ Len(slots) <= MaxSlots
  /\ free \in Seq(1..MaxSlots)
  /\ count \in Int
  /\ queryDepth \in Nat
  /\ ensured \subseteq Types
  /\ store \in [Types -> Storage]
  /\ issued \subseteq Handle

\* World.Len, kept by increments and decrements, is the number of entities
\* that Alive accepts (world.go: count in NewEntity, Destroy and Len).
CountIsLive == count = Cardinality(Live)

\* The free list names each dead, not retired slot exactly once, so no two
\* entities can be given one slot and no slot leaks (Destroy, NewEntity).
FreeListExact ==
  /\ IsInjective(free)
  /\ ToSet(free) \subseteq DOMAIN slots
  /\ \A i \in ToSet(free) : ~slots[i].alive /\ HandleOf(i, slots[i].generation) \notin issued
  /\ \A i \in DOMAIN slots \ ToSet(free) :
       /\ HandleOf(i, slots[i].generation) \in issued
       /\ ~slots[i].alive => slots[i].generation = MaxGen

\* Handles handed out never run ahead of their slot's generation, so the
\* generation alone tells a dead handle from the slot's current one.
IssuedBounded ==
  \A e \in issued :
    /\ e.index \in DOMAIN slots
    /\ e.generation <= slots[e.index].generation

\* Sparse and dense sides of a storage are inverse to each other: what Get and
\* matches look up is the entity's own component, after any swap-removals.
Coherent(s) ==
  /\ Len(s.values) = Len(s.entities)
  /\ \A i \in DOMAIN s.entities :
       /\ s.entities[i].index \in DOMAIN s.sparse
       /\ s.sparse[s.entities[i].index] = i
  /\ \A x \in DOMAIN s.sparse :
       s.sparse[x] # 0 =>
         /\ s.sparse[x] \in DOMAIN s.entities
         /\ s.entities[s.sparse[x]].index = x

\* Every store is coherent, holds live entities only (Destroy emptied every
\* store of the dead one), and a type that never got a store holds nothing.
StorageCoherent ==
  \A t \in Types :
    /\ Coherent(store[t])
    /\ \A i \in DOMAIN store[t].entities : Alive(store[t].entities[i])
    /\ t \notin ensured => store[t] = EmptyStorage

\* A handle this world handed out and destroyed never becomes alive again,
\* however slots are reused, and a handle of another world never is alive
\* (Destroy's generation increment and retirement; Alive).
HandlesNeverRevive ==
  [][/\ \A e \in issued : ~Alive(e) => ~Alive(e)'
     /\ \A e \in Foreign : ~Alive(e)']_worldVars

\* Every World step is a step of the abstract entity map or invisible in it:
\* create, destroy, set and remove change exactly what they name, whatever
\* slot reuse and swap-removals happen underneath.
ImplementsEntityMap == Map!Spec

\* And it is the step that the call names: what Destroy, Remove and Set do to
\* the map is done to the entity and the component they were given, and never to
\* another owner of its slot (Alive's generation check) or to the entity that
\* swap-removal moved.
CallsDoWhatTheyName ==
  [][\A e \in Live :
       /\ Destroy(e) => Map!Kill(e)
       /\ \A t \in Types :
            /\ RemoveComponent(e, t) => Map!Drop(e, t)
            /\ \A v \in Values : Set(e, t, v) => Map!Put(e, t, v)]_worldVars
=============================================================================
