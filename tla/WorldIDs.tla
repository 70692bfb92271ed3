------------------------------ MODULE WorldIDs -------------------------------
(***************************************************************************)
(* The process-wide counter behind NewWorld (world.go): goroutines that    *)
(* build worlds at the same time race on one atomic word with a load and a *)
(* compare-and-swap, and refuse exhaustion instead of wrapping around.     *)
(***************************************************************************)
EXTENDS Integers, SequencesExt

CONSTANTS
  Callers,  \* goroutines that call NewWorld
  MaxId     \* the largest identity: MaxUint64 in the code

ASSUME WorldIDsAssumption == MaxId \in Nat \ {0}

VARIABLES
  worldIDs,  \* the atomic counter
  pc,        \* where each NewWorld is: see Places
  previous,  \* what each caller last loaded
  worlds     \* history: the identities of the worlds returned, in order

idVars == <<worldIDs, pc, previous, worlds>>

\* "out": not in NewWorld.  "load" and "swap": before the two atomic accesses.
\* "build": the identity is won and the World not yet returned.
Places == {"out", "load", "swap", "build"}

IdsInit ==
  /\ worldIDs = 0
  /\ pc = [c \in Callers |-> "out"]
  /\ previous = [c \in Callers |-> 0]
  /\ worlds = <<>>

Goto(c, place) == pc' = [pc EXCEPT ![c] = place]

\* uint64 addition.
Successor(n) == (n + 1) % (MaxId + 1)

IdOf(c) == Successor(previous[c])

Call(c) ==
  /\ pc[c] = "out"
  /\ Goto(c, "load")
  /\ UNCHANGED <<worldIDs, previous, worlds>>

Load(c) ==
  /\ pc[c] = "load"
  /\ worldIDs # MaxId
  /\ previous' = [previous EXCEPT ![c] = worldIDs]
  /\ Goto(c, "swap")
  /\ UNCHANGED <<worldIDs, worlds>>

\* All identities are used: the call panics.
Exhausted(c) ==
  /\ pc[c] = "load"
  /\ worldIDs = MaxId
  /\ Goto(c, "out")
  /\ UNCHANGED <<worldIDs, previous, worlds>>

\* Mutant: a store instead of a compare-and-swap.
SwapBlindly(c) ==
  /\ pc[c] = "swap"
  /\ worldIDs' = IdOf(c)
  /\ Goto(c, "build")
  /\ UNCHANGED <<previous, worlds>>

Swap(c) ==
  /\ pc[c] = "swap"
  /\ worldIDs = previous[c]
  /\ worldIDs' = IdOf(c)
  /\ Goto(c, "build")
  /\ UNCHANGED <<previous, worlds>>

\* Mutant: the swap is tried again with the stale value.
RetryStale(c) ==
  /\ pc[c] = "swap"
  /\ worldIDs # previous[c]
  /\ UNCHANGED idVars

\* Another caller came first: load again.
Retry(c) ==
  /\ pc[c] = "swap"
  /\ worldIDs # previous[c]
  /\ Goto(c, "load")
  /\ UNCHANGED <<worldIDs, previous, worlds>>

Return(c) ==
  /\ pc[c] = "build"
  /\ worlds' = Append(worlds, IdOf(c))
  /\ Goto(c, "out")
  /\ UNCHANGED <<worldIDs, previous>>

NewWorld(c) == Load(c) \/ Exhausted(c) \/ Swap(c) \/ Retry(c) \/ Return(c)

IdsNext == \E c \in Callers : Call(c) \/ NewWorld(c)

IdsSpec == IdsInit /\ [][IdsNext]_idVars

-----------------------------------------------------------------------------
(* Properties *)

\* No two worlds share an identity and none has 0, the world of the zero
\* Entity, whatever order concurrent calls load and swap in and also when the
\* counter reaches its end (NewWorld: "refuse exhaustion instead of reusing an
\* identity").  Alive tells worlds apart by nothing else.
IdsUnique ==
  /\ IsInjective(worlds)
  /\ \A i \in DOMAIN worlds : worlds[i] \in 1..MaxId
  /\ \A c \in Callers : pc[c] = "build" =>
       /\ IdOf(c) \notin {0} \cup ToSet(worlds)
       /\ \A d \in Callers \ {c} : pc[d] = "build" => IdOf(d) # IdOf(c)
=============================================================================
