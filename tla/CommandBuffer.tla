---------------------------- MODULE CommandBuffer ----------------------------
(***************************************************************************)
(* A Commands buffer as a value (commands.go): the queued operations, the  *)
(* flushing flag, and the loop position of the Flush in progress.  Guards  *)
(* are operators too: a call whose guard is false panics in the code.      *)
(***************************************************************************)
EXTENDS Integers, SequencesExt

Buffer(Ops) == [pending : Seq(Ops), flushing : BOOLEAN, next : Nat]

EmptyBuffer == [pending |-> <<>>, flushing |-> FALSE, next |-> 0]

\* Defer and Clear panic with ErrCommandReentry on a flushing buffer.
Writable(c) == ~c.flushing

Deferred(c, op) == [c EXCEPT !.pending = Append(@, op)]

Cleared(c) == [c EXCEPT !.pending = <<>>]

\* Mutant: no structural check.
FlushableAnywhere(c, queryDepth) == ~c.flushing

\* Flush needs a world outside queries, then a buffer not already flushing.
Flushable(c, queryDepth) == queryDepth = 0 /\ ~c.flushing

\* Flush at its first operation, which is taken out of the buffer as it runs.
FlushStarted(c) == [c EXCEPT !.flushing = TRUE, !.next = 1]

FlushAdvanced(c) == [c EXCEPT !.next = @ + 1]

Current(c) == c.pending[c.next]

MoreToRun(c) == c.next < Len(c.pending)

\* Mutant: the flag is reset only where the loop ends normally.
FlushEndedLocked(c) == [pending |-> <<>>, flushing |-> c.next < Len(c.pending), next |-> 0]

\* Mutant: operations that did not run stay queued.
FlushEndedKeepingRest(c) ==
  [pending |-> SubSeq(c.pending, c.next + 1, Len(c.pending)), flushing |-> FALSE, next |-> 0]

\* Flush's deferred function, on every way out: all operations run, one
\* returned an error, or one panicked.
FlushEnded(c) == [pending |-> <<>>, flushing |-> FALSE, next |-> 0]

\* Operations queued and not started.
Waiting(c) == {c.pending[i] : i \in (c.next + 1)..Len(c.pending)}
=============================================================================
