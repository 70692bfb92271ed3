------------------------------- MODULE Commands -------------------------------
(***************************************************************************)
(* Several command buffers of one world and the call stack above them:     *)
(* operations run inside Flush, callbacks inside traversals, and user code *)
(* in either may defer to, clear or flush any buffer, start a traversal,   *)
(* return an error or panic.  A panic is recovered by user code at any     *)
(* level, after the deferred functions of every call it crosses.           *)
(***************************************************************************)
EXTENDS CommandBuffer, FiniteSets

CONSTANTS
  Buffers,    \* standalone buffers and a scheduler's
  Traversal,  \* marks a query traversal on the stack
  MaxOps,     \* bound on operations ever deferred to one buffer
  MaxStack    \* bound on nested calls

ASSUME CommandsAssumption ==
  /\ Traversal \notin Buffers
  /\ MaxOps \in Nat
  /\ MaxStack \in Nat

VARIABLES
  buffer,      \* the state of each Commands
  queryDepth,  \* world.queryDepth
  stack,       \* calls in progress, innermost last: a buffer being flushed, or Traversal
  deferred,    \* history: operations accepted per buffer, numbered from 1
  ran,         \* history: the operations started, in order
  dropped      \* history: the operations discarded without running

commandsVars == <<buffer, queryDepth, stack, deferred, ran, dropped>>

CommandsInit ==
  /\ buffer = [b \in Buffers |-> EmptyBuffer]
  /\ queryDepth = 0
  /\ stack = <<>>
  /\ deferred = [b \in Buffers |-> 0]
  /\ ran = [b \in Buffers |-> <<>>]
  /\ dropped = [b \in Buffers |-> {}]

Defer(b) ==
  /\ Writable(buffer[b])
  /\ deferred[b] < MaxOps
  /\ deferred' = [deferred EXCEPT ![b] = @ + 1]
  /\ buffer' = [buffer EXCEPT ![b] = Deferred(@, deferred[b] + 1)]
  /\ UNCHANGED <<queryDepth, stack, ran, dropped>>

Clear(b) ==
  /\ Writable(buffer[b])
  /\ buffer' = [buffer EXCEPT ![b] = Cleared(@)]
  /\ dropped' = [dropped EXCEPT ![b] = @ \cup Waiting(buffer[b])]
  /\ UNCHANGED <<queryDepth, stack, deferred, ran>>

\* Flush of a buffer with operations, up to the first one's body.  An empty
\* one returns at once and changes nothing.
Flush(b) ==
  /\ Flushable(buffer[b], queryDepth)
  /\ buffer[b].pending # <<>>
  /\ Len(stack) < MaxStack
  /\ buffer' = [buffer EXCEPT ![b] = FlushStarted(@)]
  /\ stack' = Append(stack, b)
  /\ ran' = [ran EXCEPT ![b] = Append(@, Head(buffer[b].pending))]
  /\ UNCHANGED <<queryDepth, deferred, dropped>>

\* The running operation returns nil and another follows.
NextOperation(b) ==
  /\ stack # <<>> /\ Last(stack) = b
  /\ MoreToRun(buffer[b])
  /\ buffer' = [buffer EXCEPT ![b] = FlushAdvanced(@)]
  /\ ran' = [ran EXCEPT ![b] = Append(@, Current(FlushAdvanced(buffer[b])))]
  /\ UNCHANGED <<queryDepth, stack, deferred, dropped>>

BeginQuery ==
  /\ Len(stack) < MaxStack
  /\ stack' = Append(stack, Traversal)
  /\ queryDepth' = queryDepth + 1
  /\ UNCHANGED <<buffer, deferred, ran, dropped>>

\* The innermost k calls end and their deferred functions run: each Flush
\* resets its buffer and drops what had not started, each traversal restores
\* the depth.
Leave(k) ==
  LET ended   == {stack[i] : i \in (Len(stack) - k + 1)..Len(stack)}
      queries == {i \in (Len(stack) - k + 1)..Len(stack) : stack[i] = Traversal}
  IN  /\ k <= Len(stack)
      /\ stack' = SubSeq(stack, 1, Len(stack) - k)
      /\ buffer' = [b \in Buffers |-> IF b \in ended THEN FlushEnded(buffer[b]) ELSE buffer[b]]
      /\ dropped' = [b \in Buffers |->
                       IF b \in ended THEN dropped[b] \cup Waiting(buffer[b]) ELSE dropped[b]]
      /\ queryDepth' = queryDepth - Cardinality(queries)
      /\ UNCHANGED <<deferred, ran>>

\* The last operation returns nil, or a traversal ends.
Return ==
  /\ stack # <<>>
  /\ Last(stack) \in {Traversal} \cup {b \in Buffers : ~MoreToRun(buffer[b])}
  /\ Leave(1)

\* The running operation returns an error.
Fail ==
  /\ stack # <<>>
  /\ Last(stack) # Traversal
  /\ Leave(1)

\* A panic crosses k calls before user code recovers it.
Panic(k) == Leave(k)

CommandsNext ==
  \/ \E b \in Buffers : Defer(b)
  \/ \E b \in Buffers : Clear(b)
  \/ \E b \in Buffers : Flush(b)
  \/ \E b \in Buffers : NextOperation(b)
  \/ BeginQuery
  \/ Return
  \/ Fail
  \/ \E k \in 1..MaxStack : Panic(k)

CommandsSpec == CommandsInit /\ [][CommandsNext]_commandsVars

-----------------------------------------------------------------------------
(* Properties *)

\* A buffer is marked flushing exactly while one Flush of it is on the stack,
\* and the depth counts the traversals there: no error, panic or nesting
\* leaves a buffer locked or a world frozen.
FlagsMatchStack ==
  /\ \A b \in Buffers :
       Cardinality({i \in DOMAIN stack : stack[i] = b}) = (IF buffer[b].flushing THEN 1 ELSE 0)
  /\ queryDepth = Cardinality({i \in DOMAIN stack : stack[i] = Traversal})

\* No Flush runs inside a traversal, directly or through another operation, so
\* an operation always starts where structural changes are legal.
NoFlushInsideQuery ==
  \A i, j \in DOMAIN stack : i < j /\ stack[i] = Traversal => stack[j] = Traversal

\* Each accepted operation is waiting, or was started once, or was dropped;
\* a dropped one never runs, whatever flush dropped it, and operations of a
\* buffer start in the order they were deferred, across all its flushes.
OnceAndInOrder ==
  \A b \in Buffers :
    /\ \A i, j \in DOMAIN ran[b] : i < j => ran[b][i] < ran[b][j]
    /\ ToSet(ran[b]) \cap dropped[b] = {}
    /\ Waiting(buffer[b]) \cap (ToSet(ran[b]) \cup dropped[b]) = {}
    /\ Waiting(buffer[b]) \cup ToSet(ran[b]) \cup dropped[b] = 1..deferred[b]
=============================================================================
