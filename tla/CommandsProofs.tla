---------------------------- MODULE CommandsProofs ----------------------------
(***************************************************************************)
(* Proofs about Commands.tla: operations run at most once and in order,    *)
(* flags and depth match the call stack, and no flush runs inside a        *)
(* traversal, for any number of buffers, operations and nested calls.      *)
(***************************************************************************)
EXTENDS Commands, SequenceTheorems, FiniteSetTheorems, TLAPS

\* A buffer c, the number d of operations it accepted, those that ran, r, and
\* those that were dropped, x.
Order(c, d, r, x) ==
  /\ c \in Buffer(Nat) /\ d \in Nat /\ r \in Seq(Nat)
  /\ c.next \in 0..Len(c.pending)
  /\ ~c.flushing => c.next = 0
  /\ \A i, j \in DOMAIN c.pending : i < j => c.pending[i] < c.pending[j]
  /\ \A i, j \in DOMAIN r : i < j => r[i] < r[j]
  /\ \A y \in Waiting(c) : \A z \in ToSet(r) \cup x : z < y
  /\ ToSet(r) \cap x = {}
  /\ Waiting(c) \cup ToSet(r) \cup x = 1..d

\* A buffer is flushing while it is on the stack, once.
Flagged ==
  \A b \in Buffers :
    /\ buffer[b].flushing <=> \E i \in DOMAIN stack : stack[i] = b
    /\ \A i, j \in DOMAIN stack : stack[i] = b /\ stack[j] = b => i = j

Traversals(s) == {i \in DOMAIN s : s[i] = Traversal}

CInv ==
  /\ stack \in Seq(Buffers \cup {Traversal})
  /\ DOMAIN buffer = Buffers /\ DOMAIN deferred = Buffers
  /\ DOMAIN ran = Buffers /\ DOMAIN dropped = Buffers
  /\ \A b \in Buffers : Order(buffer[b], deferred[b], ran[b], dropped[b])
  /\ Flagged
  /\ queryDepth = Cardinality(Traversals(stack))
  /\ NoFlushInsideQuery

-----------------------------------------------------------------------------
(* One buffer *)

LEMMA PendingFacts ==
  ASSUME NEW c \in Buffer(Nat)
  PROVE  /\ Len(c.pending) \in Nat /\ DOMAIN c.pending = 1..Len(c.pending)
         /\ \A i \in 1..Len(c.pending) : c.pending[i] \in Nat
<1>1. c.pending \in Seq(Nat)
  BY DEF Buffer
<1> QED
  BY <1>1, LenProperties, ElementOfSeq

\* The elements of a sequence with one more.
LEMMA Appended ==
  ASSUME NEW X, NEW s \in Seq(X), NEW e \in X
  PROVE  /\ Append(s, e) \in Seq(X)
         /\ Len(s) \in Nat /\ DOMAIN s = 1..Len(s)
         /\ Len(Append(s, e)) = Len(s) + 1
         /\ DOMAIN Append(s, e) = 1..(Len(s) + 1)
         /\ 1..(Len(s) + 1) = 1..Len(s) \cup {Len(s) + 1}
         /\ \A i \in 1..Len(s) : Append(s, e)[i] = s[i]
         /\ Append(s, e)[Len(s) + 1] = e
         /\ ToSet(Append(s, e)) = ToSet(s) \cup {e}
<1> DEFINE r == Append(s, e)
<1>1. /\ r \in Seq(X) /\ Len(r) = Len(s) + 1
      /\ \A k \in 1..Len(s) : r[k] = s[k]
      /\ r[Len(s) + 1] = e
  BY AppendProperties
<1>2. Len(s) \in Nat /\ DOMAIN s = 1..Len(s)
  BY LenProperties
<1>3. DOMAIN r = 1..(Len(s) + 1)
  BY <1>1, LenProperties
<1> HIDE DEF r
<1>4. 1..(Len(s) + 1) = 1..Len(s) \cup {Len(s) + 1}
  BY <1>2
<1>5. ToSet(r) = ToSet(s) \cup {e}
  BY <1>1, <1>2, <1>3, <1>4 DEF ToSet
<1> QED
  BY <1>1, <1>2, <1>3, <1>4, <1>5 DEF r

\* An increasing sequence and a greater number.
LEMMA Increasing ==
  ASSUME NEW s \in Seq(Nat), NEW e \in Nat, \A z \in ToSet(s) : z < e,
         \A i, j \in DOMAIN s : i < j => s[i] < s[j]
  PROVE  \A i, j \in DOMAIN Append(s, e) : i < j => Append(s, e)[i] < Append(s, e)[j]
<1> DEFINE r == Append(s, e)
           n == Len(s)
<1>1. /\ n \in Nat /\ DOMAIN s = 1..n /\ DOMAIN r = 1..(n + 1)
      /\ \A i \in 1..n : r[i] = s[i]
      /\ r[n + 1] = e
  BY Appended
<1>2. \A i \in 1..n : s[i] < e
  BY <1>1 DEF ToSet
<1> HIDE DEF r, n
<1>3. ASSUME NEW i \in 1..(n + 1), NEW j \in 1..(n + 1), i < j PROVE r[i] < r[j]
  <2>1. i \in 1..n
    BY <1>1, <1>3
  <2>2. CASE j = n + 1
    BY <1>1, <1>2, <2>1, <2>2
  <2>3. CASE j # n + 1
    <3>1. j \in 1..n
      BY <1>1, <2>3
    <3> QED
      BY <1>1, <1>3, <2>1, <3>1
  <2> QED
    BY <2>2, <2>3
<1> QED
  BY <1>1, <1>3 DEF r

LEMMA DeferOrder ==
  ASSUME NEW c, NEW d, NEW r, NEW x, Order(c, d, r, x), Writable(c)
  PROVE  Order(Deferred(c, d + 1), d + 1, r, x) /\ ~Deferred(c, d + 1).flushing
<1> DEFINE q == Append(c.pending, d + 1)
           n == Len(c.pending)
           e == Deferred(c, d + 1)
<1>1. c \in Buffer(Nat) /\ c.pending \in Seq(Nat) /\ d + 1 \in Nat /\ c.next = 0 /\ ~c.flushing
      /\ d \in Nat
  BY DEF Order, Buffer, Writable
<1>2. /\ q \in Seq(Nat) /\ n \in Nat /\ DOMAIN q = 1..(n + 1) /\ Len(q) = n + 1
      /\ DOMAIN c.pending = 1..n
      /\ ToSet(q) = ToSet(c.pending) \cup {d + 1}
  BY <1>1, Appended
<1>3. Waiting(c) = ToSet(c.pending)
  BY <1>1, <1>2 DEF Waiting, ToSet
<1>4. e = [pending |-> q, flushing |-> c.flushing, next |-> c.next]
  <2> HIDE DEF q
  <2>1. e = [c EXCEPT !.pending = q]
    BY DEF Deferred, q
  <2> QED
    BY <1>1, <2>1 DEF Buffer
<1> HIDE DEF e
<1>5. Waiting(e) = ToSet(q)
  <2> HIDE DEF q
  <2>1. e.pending = q /\ e.next = 0
    BY <1>1, <1>4
  <2>2. (e.next + 1)..Len(e.pending) = DOMAIN q
    BY <1>2, <2>1
  <2> QED
    BY <2>1, <2>2 DEF Waiting, ToSet
<1>6. \A z \in ToSet(c.pending) : z < d + 1
  BY <1>1, <1>3 DEF Order
<1>7. \A i, j \in DOMAIN q : i < j => q[i] < q[j]
  BY <1>1, <1>6, Increasing DEF Order
<1> HIDE DEF q
<1>8. e \in Buffer(Nat) /\ ~e.flushing /\ e.next \in 0..Len(e.pending) /\ e.next = 0 /\ e.pending = q
  BY <1>1, <1>2, <1>4 DEF Buffer
<1>9. Waiting(e) \cup ToSet(r) \cup x = 1..(d + 1)
  <2>1. ToSet(c.pending) \cup ToSet(r) \cup x = 1..d
    BY <1>3 DEF Order
  <2>2. 1..(d + 1) = 1..d \cup {d + 1}
    BY <1>1
  <2> QED
    BY <1>2, <1>5, <2>1, <2>2
<1>10. \A y \in Waiting(e) : \A z \in ToSet(r) \cup x : z < y
  <2>1. \A z \in ToSet(r) \cup x : z \in 1..d
    BY DEF Order
  <2> QED
    BY <1>1, <1>2, <1>3, <1>5, <2>1 DEF Order
<1> QED
  BY <1>1, <1>7, <1>8, <1>9, <1>10 DEF Order, e

\* Operations that do not run any more, and a buffer that is empty.
LEMMA EmptiedOrder ==
  ASSUME NEW c, NEW d, NEW r, NEW x, Order(c, d, r, x), NEW e \in Buffer(Nat),
         e.pending = <<>>, e.next = 0
  PROVE  Order(e, d, r, x \cup Waiting(c))
<1>1. Len(e.pending) = 0 /\ DOMAIN e.pending = {}
  BY PendingFacts
<1>2. Waiting(e) = {}
  BY <1>1 DEF Waiting
<1>3. ToSet(r) \cap (x \cup Waiting(c)) = {}
  <2>1. \A y \in Waiting(c) : y \in Nat /\ ~(y < y)
    BY DEF Order
  <2> QED
    BY <2>1 DEF Order
<1>4. Waiting(e) \cup ToSet(r) \cup (x \cup Waiting(c)) = 1..d
  BY <1>2 DEF Order
<1> QED
  BY <1>1, <1>2, <1>3, <1>4 DEF Order

LEMMA ClearOrder ==
  ASSUME NEW c, NEW d, NEW r, NEW x, Order(c, d, r, x), Writable(c)
  PROVE  Order(Cleared(c), d, r, x \cup Waiting(c)) /\ ~Cleared(c).flushing
<1>1. c \in Buffer(Nat) /\ c.next = 0 /\ ~c.flushing /\ <<>> \in Seq(Nat)
  BY EmptySeq DEF Order, Writable
<1>2. Cleared(c) \in Buffer(Nat) /\ Cleared(c).pending = <<>> /\ Cleared(c).next = 0 /\ ~Cleared(c).flushing
  BY <1>1 DEF Cleared, Buffer
<1> QED
  BY <1>2, EmptiedOrder

LEMMA EndOrder ==
  ASSUME NEW c, NEW d, NEW r, NEW x, Order(c, d, r, x)
  PROVE  Order(FlushEnded(c), d, r, x \cup Waiting(c)) /\ ~FlushEnded(c).flushing
<1>1. /\ FlushEnded(c) \in Buffer(Nat) /\ FlushEnded(c).pending = <<>> /\ FlushEnded(c).next = 0
      /\ ~FlushEnded(c).flushing
  BY EmptySeq DEF FlushEnded, Buffer
<1> QED
  BY <1>1, EmptiedOrder

\* The operation after the ones that ran is the next one to run.
LEMMA RunOrder ==
  ASSUME NEW c, NEW d, NEW r, NEW x, Order(c, d, r, x), NEW e \in Buffer(Nat),
         c.next < Len(c.pending), e.pending = c.pending, e.flushing, e.next = c.next + 1
  PROVE  Order(e, d, Append(r, c.pending[c.next + 1]), x)
<1> DEFINE p == c.pending
           k == c.next + 1
           n == Len(p)
           q == p[k]
           s == Append(r, q)
<1>1. /\ c \in Buffer(Nat) /\ r \in Seq(Nat) /\ d \in Nat /\ n \in Nat /\ DOMAIN p = 1..n
      /\ c.next \in 0..n /\ \A i \in 1..n : p[i] \in Nat
  BY PendingFacts DEF Order
<1>2. k \in 1..n /\ q \in Nat
  BY <1>1
<1>3. Waiting(c) = {p[i] : i \in k..n} /\ Waiting(e) = {p[i] : i \in (k + 1)..n}
  BY DEF Waiting
<1>4. k..n = (k + 1)..n \cup {k} /\ \A i \in (k + 1)..n : i \in 1..n /\ k < i
  BY <1>1, <1>2
<1>5. \A i \in (k + 1)..n : q < p[i]
  BY <1>1, <1>2, <1>4 DEF Order
<1> HIDE DEF p, k, n, q
<1>6. Waiting(c) = Waiting(e) \cup {q}
  BY <1>3, <1>4 DEF q
<1>7. \A y \in Waiting(e) : q < y
  BY <1>3, <1>5
<1>8. s \in Seq(Nat) /\ ToSet(s) = ToSet(r) \cup {q}
  BY <1>1, <1>2, Appended
<1>9. \A z \in ToSet(r) \cup x : z < q
  BY <1>6 DEF Order
<1>10. \A i, j \in DOMAIN s : i < j => s[i] < s[j]
  BY <1>1, <1>2, <1>9, Increasing DEF Order
<1>11. \A y \in Waiting(e) : \A z \in ToSet(s) \cup x : z < y
  BY <1>6, <1>7, <1>8 DEF Order
<1>12. ToSet(s) \cap x = {}
  BY <1>2, <1>8, <1>9 DEF Order
<1>13. Waiting(e) \cup ToSet(s) \cup x = 1..d
  BY <1>6, <1>8 DEF Order
<1> HIDE DEF s
<1>14. e.next \in 0..Len(e.pending)
  BY <1>1, <1>2 DEF k, n, p
<1>15. Order(e, d, s, x)
  BY <1>1, <1>8, <1>10, <1>11, <1>12, <1>13, <1>14 DEF Order
<1> QED
  BY <1>15 DEF s, q, k, p

-----------------------------------------------------------------------------
(* The stack *)

LEMMA StackFacts ==
  ASSUME CInv
  PROVE  /\ Len(stack) \in Nat /\ DOMAIN stack = 1..Len(stack)
         /\ \A i \in 1..Len(stack) : stack[i] \in Buffers \cup {Traversal}
         /\ IsFiniteSet(Traversals(stack)) /\ queryDepth \in Nat
<1>1. /\ Len(stack) \in Nat /\ DOMAIN stack = 1..Len(stack)
      /\ \A i \in 1..Len(stack) : stack[i] \in Buffers \cup {Traversal}
  BY LenProperties, ElementOfSeq DEF CInv
<1>2. IsFiniteSet(1..Len(stack)) /\ Traversals(stack) \in SUBSET (1..Len(stack))
  BY <1>1, FS_Interval DEF Traversals
<1>3. IsFiniteSet(Traversals(stack))
  BY <1>2, FS_Subset
<1> QED
  BY <1>1, <1>3, FS_CardinalityType DEF CInv

\* A call on top of the stack.
LEMMA Pushed ==
  ASSUME CInv, NEW e \in Buffers \cup {Traversal}, stack' = Append(stack, e)
  PROVE  /\ stack' \in Seq(Buffers \cup {Traversal})
         /\ DOMAIN stack' = 1..Len(stack) \cup {Len(stack) + 1}
         /\ \A i \in 1..Len(stack) : stack'[i] = stack[i] /\ i < Len(stack) + 1
         /\ stack'[Len(stack) + 1] = e
         /\ Len(stack) + 1 \notin 1..Len(stack)
<1>1. stack \in Seq(Buffers \cup {Traversal})
  BY DEF CInv
<1> QED
  BY <1>1, Appended

\* The stack without its k innermost calls.
LEMMA Popped ==
  ASSUME CInv, NEW k \in 0..Len(stack), stack' = SubSeq(stack, 1, Len(stack) - k)
  PROVE  /\ stack' \in Seq(Buffers \cup {Traversal})
         /\ DOMAIN stack' = 1..(Len(stack) - k)
         /\ \A i \in 1..(Len(stack) - k) : i \in 1..Len(stack) /\ stack'[i] = stack[i]
<1> DEFINE m == Len(stack) - k
<1>1. m \in Nat /\ \A i \in 1..m : i \in 1..Len(stack) /\ stack[i] \in Buffers \cup {Traversal}
  BY StackFacts
<1> HIDE DEF m
<1>2. /\ stack' \in Seq(Buffers \cup {Traversal}) /\ Len(stack') = IF 1 <= m THEN m - 1 + 1 ELSE 0
      /\ \A i \in 1..(m - 1 + 1) : stack'[i] = stack[1 + i - 1]
  BY <1>1, SubSeqProperties DEF m
<1>3. DOMAIN stack' = 1..Len(stack')
  BY <1>2, LenProperties
<1>4. Len(stack') = m /\ \A i \in 1..m : stack'[i] = stack[i]
  BY <1>1, <1>2
<1> QED
  BY <1>1, <1>2, <1>3, <1>4 DEF m

-----------------------------------------------------------------------------
(* The actions *)

LEMMA CommandsInitInv == CommandsInit => CInv
<1> SUFFICES ASSUME CommandsInit PROVE CInv
  OBVIOUS
<1>1. /\ stack = <<>> /\ queryDepth = 0
      /\ \A b \in Buffers : buffer[b] = EmptyBuffer /\ deferred[b] = 0 /\ ran[b] = <<>> /\ dropped[b] = {}
      /\ DOMAIN buffer = Buffers /\ DOMAIN deferred = Buffers
      /\ DOMAIN ran = Buffers /\ DOMAIN dropped = Buffers
  BY DEF CommandsInit
<1>2. <<>> \in Seq(Nat) /\ <<>> \in Seq(Buffers \cup {Traversal}) /\ DOMAIN <<>> = {} /\ Len(<<>>) = 0
  BY EmptySeq
<1>3. Order(EmptyBuffer, 0, <<>>, {})
  <2>1. /\ EmptyBuffer \in Buffer(Nat) /\ EmptyBuffer.pending = <<>> /\ EmptyBuffer.next = 0
        /\ ~EmptyBuffer.flushing
    BY <1>2 DEF EmptyBuffer, Buffer
  <2>2. Waiting(EmptyBuffer) = {} /\ ToSet(<<>>) = {} /\ 1..0 = {}
    BY <1>2, <2>1 DEF Waiting, ToSet
  <2> QED
    BY <1>2, <2>1, <2>2 DEF Order
<1>4. Flagged
  BY <1>1, <1>2 DEF Flagged, EmptyBuffer
<1>5. Traversals(stack) = {} /\ NoFlushInsideQuery
  BY <1>1, <1>2 DEF Traversals, NoFlushInsideQuery
<1> QED
  BY <1>1, <1>2, <1>3, <1>4, <1>5, FS_EmptySet DEF CInv

\* Operations and callbacks that defer to or clear a buffer nobody flushes.
LEMMA SameStack ==
  ASSUME CInv, stack' = stack, queryDepth' = queryDepth,
         DOMAIN buffer' = Buffers, DOMAIN deferred' = Buffers,
         DOMAIN ran' = Buffers, DOMAIN dropped' = Buffers,
         \A b \in Buffers : /\ Order(buffer'[b], deferred'[b], ran'[b], dropped'[b])
                            /\ buffer'[b].flushing <=> buffer[b].flushing
  PROVE  CInv'
<1>1. Flagged'
  BY DEF CInv, Flagged
<1>2. NoFlushInsideQuery' /\ Traversals(stack') = Traversals(stack)
  BY DEF CInv, NoFlushInsideQuery
<1> QED
  BY <1>1, <1>2 DEF CInv

LEMMA DeferInv ==
  ASSUME CInv, NEW b \in Buffers, Defer(b)
  PROVE  CInv'
<1>1. /\ buffer' = [buffer EXCEPT ![b] = Deferred(buffer[b], deferred[b] + 1)]
      /\ deferred' = [deferred EXCEPT ![b] = deferred[b] + 1]
      /\ UNCHANGED <<queryDepth, stack, ran, dropped>> /\ Writable(buffer[b])
  BY DEF Defer
<1>2. /\ Order(Deferred(buffer[b], deferred[b] + 1), deferred[b] + 1, ran[b], dropped[b])
      /\ ~Deferred(buffer[b], deferred[b] + 1).flushing /\ ~buffer[b].flushing
  BY <1>1, DeferOrder DEF CInv, Writable
<1> QED
  BY <1>1, <1>2, SameStack DEF CInv

LEMMA ClearInv ==
  ASSUME CInv, NEW b \in Buffers, Clear(b)
  PROVE  CInv'
<1>1. /\ buffer' = [buffer EXCEPT ![b] = Cleared(buffer[b])]
      /\ dropped' = [dropped EXCEPT ![b] = dropped[b] \cup Waiting(buffer[b])]
      /\ UNCHANGED <<queryDepth, stack, ran, deferred>> /\ Writable(buffer[b])
  BY DEF Clear
<1>2. /\ Order(Cleared(buffer[b]), deferred[b], ran[b], dropped[b] \cup Waiting(buffer[b]))
      /\ ~Cleared(buffer[b]).flushing /\ ~buffer[b].flushing
  BY <1>1, ClearOrder DEF CInv, Writable
<1> QED
  BY <1>1, <1>2, SameStack DEF CInv

LEMMA NextOperationInv ==
  ASSUME CInv, NEW b \in Buffers, NextOperation(b)
  PROVE  CInv'
<1> DEFINE e == FlushAdvanced(buffer[b])
<1>1. /\ stack # <<>> /\ Last(stack) = b /\ buffer[b].next < Len(buffer[b].pending)
      /\ buffer' = [buffer EXCEPT ![b] = e]
      /\ ran' = [ran EXCEPT ![b] = Append(ran[b], Current(e))]
      /\ UNCHANGED <<queryDepth, stack, deferred, dropped>>
  BY DEF NextOperation, MoreToRun
<1>2. buffer[b] \in Buffer(Nat) /\ Order(buffer[b], deferred[b], ran[b], dropped[b])
  BY DEF CInv, Order
<1>3. buffer[b].flushing
  <2>1. Len(stack) \in DOMAIN stack /\ stack[Len(stack)] = b
    BY <1>1, StackFacts, EmptySeq DEF Last, CInv
  <2> QED
    BY <2>1 DEF CInv, Flagged
<1>4. e = [pending |-> buffer[b].pending, flushing |-> buffer[b].flushing, next |-> buffer[b].next + 1]
  BY <1>2 DEF FlushAdvanced, Buffer
<1>5. e \in Buffer(Nat) /\ e.pending = buffer[b].pending /\ e.flushing /\ e.next = buffer[b].next + 1
  BY <1>2, <1>3, <1>4 DEF Buffer
<1>6. Current(e) = buffer[b].pending[buffer[b].next + 1]
  BY <1>5 DEF Current
<1> HIDE DEF e
<1>7. Order(e, deferred[b], Append(ran[b], Current(e)), dropped[b])
  BY <1>1, <1>2, <1>5, <1>6, RunOrder
<1> QED
  BY <1>1, <1>3, <1>5, <1>7, SameStack DEF CInv

\* A Flush starts where no traversal is in progress, on a buffer that is not
\* on the stack.
LEMMA FlushInv ==
  ASSUME CInv, NEW b \in Buffers, Flush(b)
  PROVE  CInv'
<1> DEFINE c == buffer[b]
           e == FlushStarted(c)
           q == Head(c.pending)
<1>1. /\ queryDepth = 0 /\ ~c.flushing /\ c.pending # <<>>
      /\ buffer' = [buffer EXCEPT ![b] = e]
      /\ stack' = Append(stack, b)
      /\ ran' = [ran EXCEPT ![b] = Append(ran[b], q)]
      /\ UNCHANGED <<queryDepth, deferred, dropped>>
  BY DEF Flush, Flushable
<1>2. c \in Buffer(Nat) /\ c.pending \in Seq(Nat) /\ Order(c, deferred[b], ran[b], dropped[b]) /\ c.next = 0
  BY <1>1 DEF CInv, Order, Buffer
<1>3. Len(c.pending) \in Nat \ {0} /\ q = c.pending[c.next + 1]
  BY <1>1, <1>2, EmptySeq
<1>4. e = [pending |-> c.pending, flushing |-> TRUE, next |-> 1]
  <2>1. c \in Buffer(Nat) /\ e = [c EXCEPT !.flushing = TRUE, !.next = 1]
    BY <1>2 DEF FlushStarted
  <2> HIDE DEF c, e
  <2> QED
    BY <2>1 DEF Buffer
<1>5. e \in Buffer(Nat) /\ e.pending = c.pending /\ e.flushing /\ e.next = c.next + 1
  BY <1>2, <1>4 DEF Buffer
<1> HIDE DEF e, q
<1>6. Order(e, deferred[b], Append(ran[b], q), dropped[b])
  <2>1. c.next < Len(c.pending)
    BY <1>2, <1>3
  <2> HIDE DEF c
  <2> QED
    BY <1>2, <1>3, <1>5, <2>1, RunOrder
<1>7. \A i \in DOMAIN stack : stack[i] # Traversal /\ stack[i] # b
  <2>1. Traversals(stack) = {}
    BY <1>1, StackFacts, FS_EmptySet DEF CInv
  <2> QED
    BY <1>1, <2>1 DEF Traversals, CInv, Flagged
<1>8. /\ stack' \in Seq(Buffers \cup {Traversal})
      /\ DOMAIN stack' = DOMAIN stack \cup {Len(stack) + 1}
      /\ \A i \in DOMAIN stack : stack'[i] = stack[i] /\ i < Len(stack) + 1
      /\ stack'[Len(stack) + 1] = b
      /\ Len(stack) + 1 \notin DOMAIN stack
  BY <1>1, Pushed, StackFacts
<1>9. Traversal \notin Buffers
  BY CommandsAssumption
<1>10. Flagged'
  <2> SUFFICES ASSUME NEW a \in Buffers
               PROVE  /\ buffer'[a].flushing <=> \E i \in DOMAIN stack' : stack'[i] = a
                      /\ \A i, j \in DOMAIN stack' : stack'[i] = a /\ stack'[j] = a => i = j
    BY DEF Flagged
  <2>1. CASE a = b
    <3>1. buffer'[b].flushing
      BY <1>1, <1>5 DEF CInv
    <3> QED
      BY <1>7, <1>8, <2>1, <3>1
  <2>2. CASE a # b
    <3>1. buffer'[a] = buffer[a]
      BY <1>1, <2>2 DEF CInv
    <3> QED
      BY <1>8, <2>2, <3>1 DEF CInv, Flagged
  <2> QED
    BY <2>1, <2>2
<1>11. Traversals(stack') = {} /\ Traversals(stack) = {}
  BY <1>7, <1>8, <1>9 DEF Traversals
<1>12. NoFlushInsideQuery'
  BY <1>11 DEF NoFlushInsideQuery, Traversals
<1>13. \A a \in Buffers : Order(buffer'[a], deferred'[a], ran'[a], dropped'[a])
  BY <1>1, <1>6 DEF CInv
<1> QED
  BY <1>1, <1>8, <1>10, <1>11, <1>12, <1>13 DEF CInv

LEMMA BeginQueryInv ==
  ASSUME CInv, BeginQuery
  PROVE  CInv'
<1>1. /\ stack' = Append(stack, Traversal) /\ queryDepth' = queryDepth + 1
      /\ UNCHANGED <<buffer, deferred, ran, dropped>>
  BY DEF BeginQuery
<1>2. /\ stack' \in Seq(Buffers \cup {Traversal})
      /\ DOMAIN stack' = DOMAIN stack \cup {Len(stack) + 1}
      /\ \A i \in DOMAIN stack : stack'[i] = stack[i] /\ i < Len(stack) + 1
      /\ stack'[Len(stack) + 1] = Traversal
      /\ Len(stack) + 1 \notin DOMAIN stack
  BY <1>1, Pushed, StackFacts
<1>3. Traversal \notin Buffers
  BY CommandsAssumption
<1>4. Flagged'
  BY <1>1, <1>2, <1>3 DEF CInv, Flagged
<1>5. Traversals(stack') = Traversals(stack) \cup {Len(stack) + 1} /\ Len(stack) + 1 \notin Traversals(stack)
  BY <1>2 DEF Traversals
<1>6. queryDepth' = Cardinality(Traversals(stack'))
  BY <1>1, <1>5, StackFacts, FS_AddElement DEF CInv
<1>7. NoFlushInsideQuery'
  <2> SUFFICES ASSUME NEW i \in DOMAIN stack', NEW j \in DOMAIN stack', i < j, stack'[i] = Traversal
               PROVE  stack'[j] = Traversal
    BY DEF NoFlushInsideQuery
  <2>1. CASE j = Len(stack) + 1
    BY <1>2, <2>1
  <2>2. CASE j \in DOMAIN stack /\ i \in DOMAIN stack
    BY <1>2, <2>2 DEF CInv, NoFlushInsideQuery
  <2>3. CASE j \in DOMAIN stack /\ i = Len(stack) + 1
    BY <2>3, StackFacts
  <2> QED
    BY <1>2, <2>1, <2>2, <2>3
<1> QED
  BY <1>1, <1>2, <1>4, <1>6, <1>7 DEF CInv

\* The innermost k calls end.
LEMMA LeaveInv ==
  ASSUME CInv, NEW k \in Nat, Leave(k)
  PROVE  CInv'
<1> DEFINE m == Len(stack) - k
           top == (m + 1)..Len(stack)
           ended == {stack[i] : i \in top}
           queries == {i \in top : stack[i] = Traversal}
<1>1. /\ k <= Len(stack) /\ stack' = SubSeq(stack, 1, m)
      /\ buffer' = [b \in Buffers |-> IF b \in ended THEN FlushEnded(buffer[b]) ELSE buffer[b]]
      /\ dropped' = [b \in Buffers |-> IF b \in ended THEN dropped[b] \cup Waiting(buffer[b]) ELSE dropped[b]]
      /\ queryDepth' = queryDepth - Cardinality(queries)
      /\ UNCHANGED <<deferred, ran>>
  BY DEF Leave
<1>2. /\ Len(stack) \in Nat /\ m \in Nat /\ k \in 0..Len(stack)
      /\ DOMAIN stack = 1..m \cup top /\ 1..m \cap top = {}
  BY <1>1, StackFacts
<1>3. /\ stack' \in Seq(Buffers \cup {Traversal}) /\ DOMAIN stack' = 1..m
      /\ \A i \in 1..m : stack'[i] = stack[i]
  BY <1>1, <1>2, Popped
<1> HIDE DEF m, top
<1>4. \A b \in Buffers : Order(buffer'[b], deferred'[b], ran'[b], dropped'[b])
  <2> SUFFICES ASSUME NEW b \in Buffers
               PROVE  Order(buffer'[b], deferred'[b], ran'[b], dropped'[b])
    OBVIOUS
  <2> HIDE DEF ended
  <2>1. CASE b \in ended
    BY <1>1, <2>1, EndOrder DEF CInv
  <2>2. CASE b \notin ended
    BY <1>1, <2>2 DEF CInv
  <2> QED
    BY <2>1, <2>2
<1>5. Flagged'
  <2> SUFFICES ASSUME NEW b \in Buffers
               PROVE  /\ buffer'[b].flushing <=> \E i \in DOMAIN stack' : stack'[i] = b
                      /\ \A i, j \in DOMAIN stack' : stack'[i] = b /\ stack'[j] = b => i = j
    BY DEF Flagged
  <2>0. \A i, j \in DOMAIN stack : stack[i] = b /\ stack[j] = b => i = j
    BY DEF CInv, Flagged
  <2>1. CASE b \in ended
    <3>1. ~buffer'[b].flushing
      BY <1>1, <2>1, EndOrder DEF CInv
    <3>2. \A i \in 1..m : stack[i] # b
      BY <1>2, <2>0, <2>1
    <3> QED
      BY <1>2, <1>3, <2>0, <3>1, <3>2
  <2>2. CASE b \notin ended
    <3>1. buffer'[b] = buffer[b] /\ \A i \in top : stack[i] # b
      BY <1>1, <2>2
    <3> QED
      BY <1>2, <1>3, <2>0, <3>1 DEF CInv, Flagged
  <2> QED
    BY <2>1, <2>2
<1>6. queryDepth' = Cardinality(Traversals(stack'))
  <2>1. Traversals(stack) = Traversals(stack') \cup queries /\ Traversals(stack') \cap queries = {}
    BY <1>2, <1>3 DEF Traversals
  <2>2. Traversals(stack') \in SUBSET Traversals(stack) /\ queries \in SUBSET Traversals(stack)
    BY <2>1
  <2>3. IsFiniteSet(Traversals(stack')) /\ IsFiniteSet(queries)
    BY <2>2, StackFacts, FS_Subset
  <2> HIDE DEF queries
  <2>4. Cardinality(Traversals(stack)) = Cardinality(Traversals(stack')) + Cardinality(queries) - Cardinality({})
    BY <2>1, <2>3, FS_Union
  <2>5. Cardinality(Traversals(stack')) \in Nat /\ Cardinality(queries) \in Nat /\ Cardinality({}) = 0
    BY <2>3, FS_CardinalityType, FS_EmptySet
  <2>6. queryDepth = Cardinality(Traversals(stack))
    BY DEF CInv
  <2> QED
    BY <1>1, <2>4, <2>5, <2>6
<1>7. NoFlushInsideQuery'
  BY <1>2, <1>3 DEF CInv, NoFlushInsideQuery
<1> QED
  BY <1>1, <1>3, <1>4, <1>5, <1>6, <1>7 DEF CInv

LEMMA CommandsNextInv == CInv /\ [CommandsNext]_commandsVars => CInv'
<1> SUFFICES ASSUME CInv, [CommandsNext]_commandsVars PROVE CInv'
  OBVIOUS
<1>1. ASSUME NEW b \in Buffers, Defer(b) PROVE CInv'
  BY <1>1, DeferInv
<1>2. ASSUME NEW b \in Buffers, Clear(b) PROVE CInv'
  BY <1>2, ClearInv
<1>3. ASSUME NEW b \in Buffers, Flush(b) PROVE CInv'
  BY <1>3, FlushInv
<1>4. ASSUME NEW b \in Buffers, NextOperation(b) PROVE CInv'
  BY <1>4, NextOperationInv
<1>5. CASE BeginQuery
  BY <1>5, BeginQueryInv
<1>6. CASE Return
  BY <1>6, LeaveInv DEF Return
<1>7. CASE Fail
  BY <1>7, LeaveInv DEF Fail
<1>8. ASSUME NEW k \in 1..MaxStack, Panic(k) PROVE CInv'
  <2>1. k \in Nat
    BY CommandsAssumption
  <2> QED
    BY <1>8, <2>1, LeaveInv DEF Panic
<1>9. CASE UNCHANGED commandsVars
  BY <1>9, SameStack DEF commandsVars, CInv
<1> QED
  BY <1>1, <1>2, <1>3, <1>4, <1>5, <1>6, <1>7, <1>8, <1>9 DEF CommandsNext

-----------------------------------------------------------------------------
(* The theorems *)

\* Every buffer keeps its order, and flags and depth follow the stack.
THEOREM CommandsInvariant == CommandsSpec => []CInv
<1> QED
  BY CommandsInitInv, CommandsNextInv, PTL DEF CommandsSpec

\* Every accepted operation waits, ran once, or was dropped, and operations
\* run in the order they were deferred (Defer, Clear, Flush).
THEOREM CommandsRunOnceInOrder == CommandsSpec => []OnceAndInOrder
<1>1. CInv => OnceAndInOrder
  <2> SUFFICES ASSUME CInv, NEW b \in Buffers
               PROVE  /\ \A i, j \in DOMAIN ran[b] : i < j => ran[b][i] < ran[b][j]
                      /\ ToSet(ran[b]) \cap dropped[b] = {}
                      /\ Waiting(buffer[b]) \cap (ToSet(ran[b]) \cup dropped[b]) = {}
                      /\ Waiting(buffer[b]) \cup ToSet(ran[b]) \cup dropped[b] = 1..deferred[b]
    BY DEF OnceAndInOrder
  <2>1. Order(buffer[b], deferred[b], ran[b], dropped[b])
    BY DEF CInv
  <2>2. \A z \in 1..deferred[b] : ~(z < z)
    BY <2>1 DEF Order
  <2> QED
    BY <2>1, <2>2 DEF Order
<1> QED
  BY <1>1, CommandsInvariant, PTL

\* No error, panic or nesting leaves a buffer locked or a world frozen
\* (Flush's deferred function and each's).
THEOREM CommandsFlagsMatch == CommandsSpec => []FlagsMatchStack
<1>1. CInv => FlagsMatchStack
  <2> SUFFICES ASSUME CInv, NEW b \in Buffers
               PROVE  Cardinality({i \in DOMAIN stack : stack[i] = b}) = IF buffer[b].flushing THEN 1 ELSE 0
    BY DEF FlagsMatchStack, CInv, Traversals
  <2> DEFINE at == {i \in DOMAIN stack : stack[i] = b}
  <2>1. CASE buffer[b].flushing
    <3>1. PICK i \in DOMAIN stack : at = {i}
      BY <2>1 DEF CInv, Flagged
    <3> QED
      BY <2>1, <3>1, FS_Singleton
  <2>2. CASE ~buffer[b].flushing
    <3>1. at = {}
      BY <2>2 DEF CInv, Flagged
    <3> QED
      BY <2>2, <3>1, FS_EmptySet
  <2> QED
    BY <2>1, <2>2
<1> QED
  BY <1>1, CommandsInvariant, PTL

\* Operations always start where structural changes are legal (Flush).
THEOREM CommandsFlushOutsideQueries == CommandsSpec => []NoFlushInsideQuery
<1>1. CInv => NoFlushInsideQuery
  BY DEF CInv
<1> QED
  BY <1>1, CommandsInvariant, PTL
=============================================================================
