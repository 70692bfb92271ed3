--------------------------- MODULE SchedulerProofs ----------------------------
(***************************************************************************)
(* Proofs about Scheduler.tla: a step without a fault is a whole tick, the *)
(* commands of a system are settled before the next one, a step leaves     *)
(* nothing behind and deltas cover the gaps, for any number of systems,    *)
(* any intervals and any clock.                                            *)
(***************************************************************************)
EXTENDS Scheduler, SequenceTheorems, TLAPS

Ordered(t) == \A k, l \in DOMAIN t : k < l => Before(t[k], t[l])

OpsOf(t) == {x \in ToSet(t) : IsOp(x)}

\* A tick that has come to system s, with the buffer c: it accepted the
\* operations a, did t, and discarded d.  What waits comes after what is done.
Order(c, a, t, d, s) ==
  /\ c \in Buffer(Op) /\ a \in Seq(Op) /\ t \in Seq(Op) /\ d \in SUBSET Op /\ s \in Nat
  /\ c.next \in 0..Len(c.pending) /\ (~c.flushing => c.next = 0)
  /\ \A k \in DOMAIN a : a[k].n = k
  /\ \A k \in DOMAIN c.pending : c.pending[k].system = s
  /\ Ordered(c.pending) /\ Ordered(t)
  /\ \A z \in ToSet(t) : z.system <= s
  /\ \A y \in Waiting(c) : \A z \in ToSet(t) : Before(z, y)
  /\ d \cap ToSet(t) = {} /\ d \cap Waiting(c) = {}
  /\ ToSet(a) = OpsOf(t) \cup d \cup Waiting(c)

-----------------------------------------------------------------------------
(* What a tick has done *)

\* The elements of a sequence with one more.
LEMMA Appended ==
  ASSUME NEW X, NEW s \in Seq(X), NEW e \in X
  PROVE  /\ Append(s, e) \in Seq(X)
         /\ Len(s) \in Nat /\ DOMAIN s = 1..Len(s)
         /\ Len(Append(s, e)) = Len(s) + 1
         /\ DOMAIN Append(s, e) = 1..(Len(s) + 1)
         /\ \A i \in 1..Len(s) : Append(s, e)[i] = s[i]
         /\ Append(s, e)[Len(s) + 1] = e
         /\ ToSet(Append(s, e)) = ToSet(s) \cup {e}
<1> DEFINE r == Append(s, e)
<1>1. /\ r \in Seq(X) /\ Len(r) = Len(s) + 1
      /\ \A k \in 1..Len(s) : r[k] = s[k]
      /\ r[Len(s) + 1] = e
  BY AppendProperties
<1>2. Len(s) \in Nat /\ DOMAIN s = 1..Len(s)
  BY LenProperties
<1>3. DOMAIN r = 1..(Len(s) + 1)
  BY <1>1, LenProperties
<1> HIDE DEF r
<1>4. 1..(Len(s) + 1) = 1..Len(s) \cup {Len(s) + 1}
  BY <1>2
<1>5. ToSet(r) = ToSet(s) \cup {e}
  BY <1>1, <1>2, <1>3, <1>4 DEF ToSet
<1> QED
  BY <1>1, <1>2, <1>3, <1>5 DEF r

\* An ordered sequence and an element that comes after all of it.
LEMMA OrderedAppend ==
  ASSUME NEW t \in Seq(Op), NEW e \in Op, Ordered(t), \A z \in ToSet(t) : Before(z, e)
  PROVE  Ordered(Append(t, e))
<1> DEFINE r == Append(t, e)
           n == Len(t)
<1>1. /\ n \in Nat /\ DOMAIN t = 1..n /\ DOMAIN r = 1..(n + 1)
      /\ \A i \in 1..n : r[i] = t[i]
      /\ r[n + 1] = e
  BY Appended
<1>2. \A i \in 1..n : Before(t[i], e)
  BY <1>1 DEF ToSet
<1> HIDE DEF r, n
<1>3. ASSUME NEW i \in 1..(n + 1), NEW j \in 1..(n + 1), i < j PROVE Before(r[i], r[j])
  <2>1. i \in 1..n
    BY <1>1, <1>3
  <2>2. CASE j = n + 1
    BY <1>1, <1>2, <2>1, <2>2
  <2>3. CASE j # n + 1
    <3>1. j \in 1..n
      BY <1>1, <2>3
    <3> QED
      BY <1>1, <1>3, <2>1, <3>1 DEF Ordered
  <2> QED
    BY <2>2, <2>3
<1> QED
  BY <1>1, <1>3 DEF r, Ordered

LEMMA ElementsOf ==
  ASSUME NEW X, NEW s \in Seq(X) PROVE ToSet(s) \subseteq X
BY LenProperties, ElementOfSeq DEF ToSet

LEMMA PendingFacts ==
  ASSUME NEW c \in Buffer(Op)
  PROVE  /\ c.pending \in Seq(Op) /\ c.flushing \in BOOLEAN /\ c.next \in Nat
         /\ Len(c.pending) \in Nat /\ DOMAIN c.pending = 1..Len(c.pending)
         /\ \A i \in 1..Len(c.pending) : c.pending[i] \in Op
<1>1. c.pending \in Seq(Op) /\ c.flushing \in BOOLEAN /\ c.next \in Nat
  BY DEF Buffer
<1> QED
  BY <1>1, LenProperties, ElementOfSeq

LEMMA WaitingAreOps ==
  ASSUME NEW c \in Buffer(Op) PROVE Waiting(c) \subseteq Op
<1>1. \A i \in (c.next + 1)..Len(c.pending) : i \in 1..Len(c.pending)
  BY PendingFacts
<1> QED
  BY <1>1, PendingFacts DEF Waiting

LEMMA EmptyBufferFacts ==
  /\ EmptyBuffer \in Buffer(Op) /\ EmptyBuffer.pending = <<>> /\ EmptyBuffer.next = 0
  /\ ~EmptyBuffer.flushing /\ Waiting(EmptyBuffer) = {}
<1>1. <<>> \in Seq(Op) /\ Len(<<>>) = 0
  BY EmptySeq
<1>2. 1..0 = {}
  OBVIOUS
<1> QED
  BY <1>1, <1>2 DEF EmptyBuffer, Buffer, Waiting

\* StepBegin: nothing is done yet.
LEMMA OrderStart ==
  Order(EmptyBuffer, <<>>, <<>>, {}, 1)
<1>1. <<>> \in Seq(Op) /\ Len(<<>>) = 0 /\ DOMAIN <<>> = {} /\ ToSet(<<>>) = {}
  BY EmptySeq DEF ToSet
<1>2. OpsOf(<<>>) = {}
  BY <1>1 DEF OpsOf
<1> QED
  BY <1>1, <1>2, EmptyBufferFacts DEF Order, Ordered

\* UpdateBegin: all that is done belongs to earlier systems.
LEMMA OrderUpdate ==
  ASSUME NEW c, NEW a, NEW t, NEW d, NEW s, Order(c, a, t, d, s), c.pending = <<>>,
         \A z \in ToSet(t) : z.system < s
  PROVE  Order(c, a, Append(t, UpdateEvent(s)), d, s)
<1> DEFINE e == UpdateEvent(s)
           r == Append(t, e)
<1>1. e \in Op /\ e.system = s /\ e.n = 0 /\ ~IsOp(e)
  BY DEF Order, UpdateEvent, Op, IsOp
<1> HIDE DEF e
<1>2. r \in Seq(Op) /\ ToSet(r) = ToSet(t) \cup {e}
  BY <1>1, Appended DEF Order
<1>3. Ordered(r)
  <2>1. \A z \in ToSet(t) : Before(z, e)
    BY <1>1 DEF Before
  <2> QED
    BY <1>1, <2>1, OrderedAppend DEF Order
<1> HIDE DEF r
<1>4. Waiting(c) = {}
  <2>1. Len(c.pending) = 0 /\ c.next \in Nat
    BY EmptySeq, PendingFacts DEF Order
  <2> QED
    BY <2>1 DEF Waiting
<1>5. OpsOf(r) = OpsOf(t)
  BY <1>1, <1>2 DEF OpsOf
<1>6. d \cap ToSet(r) = {}
  <2>1. \A x \in d : x \in ToSet(a)
    BY DEF Order
  <2>2. \A x \in ToSet(a) : x.n # 0
    BY LenProperties DEF Order, ToSet
  <2> QED
    BY <1>1, <1>2, <2>1, <2>2 DEF Order
<1>7. \A z \in ToSet(r) : z.system <= s
  BY <1>1, <1>2 DEF Order
<1> QED
  BY <1>2, <1>3, <1>4, <1>5, <1>6, <1>7 DEF Order, r, e

\* SystemDefer: the new operation comes after everything so far.
LEMMA OrderDefer ==
  ASSUME NEW c, NEW a, NEW t, NEW d, NEW s, Order(c, a, t, d, s), Writable(c),
         NEW op, op = [system |-> s, n |-> Len(a) + 1]
  PROVE  Order(Deferred(c, op), Append(a, op), t, d, s) /\ ~Deferred(c, op).flushing
<1> DEFINE p == c.pending
           q == Append(p, op)
           b == Append(a, op)
           e == Deferred(c, op)
<1>1. /\ c \in Buffer(Op) /\ p \in Seq(Op) /\ a \in Seq(Op) /\ t \in Seq(Op) /\ d \in SUBSET Op /\ s \in Nat
      /\ Len(a) \in Nat /\ DOMAIN a = 1..Len(a) /\ c.next = 0 /\ ~c.flushing
      /\ Len(p) \in Nat /\ DOMAIN p = 1..Len(p)
  BY PendingFacts, LenProperties DEF Order, Writable
<1>2. op \in Op /\ op.system = s /\ op.n = Len(a) + 1 /\ IsOp(op)
  BY <1>1 DEF Op, IsOp
<1>3. /\ q \in Seq(Op) /\ DOMAIN q = 1..(Len(p) + 1) /\ Len(q) = Len(p) + 1
      /\ \A i \in 1..Len(p) : q[i] = p[i]
      /\ q[Len(p) + 1] = op
      /\ ToSet(q) = ToSet(p) \cup {op}
  BY <1>1, <1>2, Appended
<1>4. /\ b \in Seq(Op) /\ DOMAIN b = 1..(Len(a) + 1)
      /\ \A i \in 1..Len(a) : b[i] = a[i]
      /\ b[Len(a) + 1] = op
      /\ ToSet(b) = ToSet(a) \cup {op}
  BY <1>1, <1>2, Appended
<1>5. Waiting(c) = ToSet(p)
  BY <1>1 DEF Waiting, ToSet
<1> HIDE DEF q, b
<1>6. e = [pending |-> q, flushing |-> c.flushing, next |-> c.next]
  <2>1. e = [c EXCEPT !.pending = q]
    BY DEF Deferred, q
  <2> QED
    BY <1>1, <2>1 DEF Buffer
<1> HIDE DEF e
<1>7. e \in Buffer(Op) /\ e.pending = q /\ e.next = 0 /\ ~e.flushing
  BY <1>1, <1>3, <1>6 DEF Buffer
<1>8. Waiting(e) = ToSet(q)
  BY <1>3, <1>7 DEF Waiting, ToSet
\* Accepted operations have smaller numbers.
<1>9. \A x \in ToSet(a) : x.n \in 1..Len(a)
  BY <1>1 DEF Order, ToSet
<1>10. \A z \in ToSet(t) : Before(z, op)
  <2>1. ASSUME NEW z \in ToSet(t) PROVE Before(z, op)
    <3>1. z \in Op /\ z.system <= s
      BY <1>1, ElementOfSeq, LenProperties DEF Order, ToSet
    <3>2. z.n < Len(a) + 1
      <4>1. CASE IsOp(z)
        <5>1. z \in ToSet(a)
          BY <4>1 DEF Order, OpsOf
        <5> QED
          BY <1>1, <1>9, <5>1
      <4>2. CASE ~IsOp(z)
        BY <1>1, <4>2 DEF IsOp
      <4> QED
        BY <4>1, <4>2
    <3>3. z.system \in Nat
      BY <3>1 DEF Op
    <3> QED
      BY <1>1, <1>2, <3>1, <3>2, <3>3 DEF Before
  <2> QED
    BY <2>1
<1>11. \A z \in ToSet(p) : Before(z, op)
  <2>1. ASSUME NEW z \in ToSet(p) PROVE Before(z, op)
    <3>1. z.system = s
      BY <1>1 DEF Order, ToSet
    <3>2. z \in ToSet(a)
      BY <1>5 DEF Order
    <3> QED
      BY <1>1, <1>2, <1>9, <3>1, <3>2 DEF Before
  <2> QED
    BY <2>1
<1>12. Ordered(q)
  BY <1>1, <1>2, <1>11, OrderedAppend DEF Order, q
<1>13. \A k \in DOMAIN q : q[k].system = s
  <2>1. ASSUME NEW k \in 1..(Len(p) + 1) PROVE q[k].system = s
    <3>1. k \in 1..Len(p) \/ k = Len(p) + 1
      BY <1>1
    <3> QED
      BY <1>1, <1>2, <1>3, <3>1 DEF Order
  <2> QED
    BY <1>3, <2>1
<1>14. \A k \in DOMAIN b : b[k].n = k
  <2>1. ASSUME NEW k \in 1..(Len(a) + 1) PROVE b[k].n = k
    <3>1. k \in 1..Len(a) \/ k = Len(a) + 1
      BY <1>1
    <3> QED
      BY <1>1, <1>2, <1>4, <3>1 DEF Order
  <2> QED
    BY <1>4, <2>1
<1>15. op \notin ToSet(a)
  BY <1>1, <1>2, <1>9
<1>16. d \cap Waiting(e) = {}
  <2>1. d \subseteq ToSet(a)
    BY DEF Order
  <2> QED
    BY <1>3, <1>5, <1>8, <1>15, <2>1 DEF Order
<1>17. ToSet(b) = OpsOf(t) \cup d \cup Waiting(e)
  BY <1>3, <1>4, <1>5, <1>8 DEF Order
<1>18. \A y \in Waiting(e) : \A z \in ToSet(t) : Before(z, y)
  BY <1>3, <1>5, <1>8, <1>10 DEF Order
<1>19. e.next \in 0..Len(e.pending)
  BY <1>1, <1>3, <1>7
<1> QED
  BY <1>1, <1>4, <1>7, <1>12, <1>13, <1>14, <1>16, <1>17, <1>18, <1>19 DEF Order, e, b

\* Operations that do not run any more are discarded.
LEMMA OrderEmptied ==
  ASSUME NEW c, NEW a, NEW t, NEW d, NEW s, Order(c, a, t, d, s)
  PROVE  Order(EmptyBuffer, a, t, d \cup Waiting(c), s)
<1>1. EmptyBuffer \in Buffer(Op) /\ EmptyBuffer.pending = <<>> /\ EmptyBuffer.next = 0 /\ Waiting(EmptyBuffer) = {}
  BY EmptyBufferFacts
<1>2. Len(<<>>) = 0 /\ DOMAIN <<>> = {}
  BY EmptySeq
<1>3. d \cup Waiting(c) \in SUBSET Op
  BY WaitingAreOps DEF Order
<1>4. (d \cup Waiting(c)) \cap ToSet(t) = {}
  <2>1. ASSUME NEW y \in Waiting(c), y \in ToSet(t) PROVE FALSE
    <3>1. Before(y, y) /\ y \in Op
      BY <2>1, WaitingAreOps DEF Order
    <3> QED
      BY <3>1 DEF Before, Op
  <2> QED
    BY <2>1 DEF Order
<1>5. ToSet(a) = OpsOf(t) \cup (d \cup Waiting(c))
  BY DEF Order
<1>6. Ordered(<<>>)
  BY <1>2 DEF Ordered
<1> QED
  BY <1>1, <1>2, <1>3, <1>4, <1>5, <1>6 DEF Order

\* When a system is done, with nothing left to run, the next one's turn comes.
LEMMA OrderAdvance ==
  ASSUME NEW c, NEW a, NEW t, NEW d, NEW s, Order(c, a, t, d, s), c.pending = <<>>
  PROVE  Order(c, a, t, d, s + 1) /\ \A z \in ToSet(t) : z.system < s + 1
<1>1. DOMAIN c.pending = {}
  BY EmptySeq
<1>2. \A z \in ToSet(t) : z.system \in Nat
  <2>1. ToSet(t) \subseteq Op
    BY ElementsOf DEF Order
  <2> QED
    BY <2>1 DEF Op
<1>3. s \in Nat /\ s + 1 \in Nat
  BY DEF Order
<1>4. \A z \in ToSet(t) : z.system <= s + 1 /\ z.system < s + 1
  BY <1>2, <1>3 DEF Order
<1> QED
  BY <1>1, <1>3, <1>4 DEF Order

\* What is settled once nothing waits.
LEMMA OrderSettled ==
  ASSUME NEW c, NEW a, NEW t, NEW d, NEW s, Order(c, a, t, d, s), Waiting(c) = {}
  PROVE  {x \in ToSet(t) : IsOp(x)} = ToSet(a) \ d /\ Ordered(t)
BY DEF Order, OpsOf

\* The operation after the ones that ran is the next one to run.
LEMMA OrderRun ==
  ASSUME NEW c, NEW a, NEW t, NEW d, NEW s, Order(c, a, t, d, s), NEW e \in Buffer(Op),
         c.next < Len(c.pending), e.pending = c.pending, e.flushing, e.next = c.next + 1
  PROVE  Order(e, a, Append(t, c.pending[c.next + 1]), d, s)
<1> DEFINE p == c.pending
           k == c.next + 1
           n == Len(p)
           q == p[k]
           r == Append(t, q)
<1>1. /\ c \in Buffer(Op) /\ t \in Seq(Op) /\ s \in Nat /\ n \in Nat /\ DOMAIN p = 1..n
      /\ c.next \in 0..n /\ \A i \in 1..n : p[i] \in Op
  BY PendingFacts DEF Order
<1>2. k \in 1..n /\ q \in Op /\ q.system = s
  BY <1>1 DEF Order
<1>3. Waiting(c) = {p[i] : i \in k..n} /\ Waiting(e) = {p[i] : i \in (k + 1)..n}
  BY DEF Waiting
<1>4. k..n = (k + 1)..n \cup {k} /\ \A i \in (k + 1)..n : i \in 1..n /\ k < i
  BY <1>1, <1>2
<1>5. \A i \in (k + 1)..n : Before(q, p[i])
  BY <1>1, <1>2, <1>4 DEF Order, Ordered
<1> HIDE DEF p, k, n, q
<1>6. Waiting(c) = Waiting(e) \cup {q}
  BY <1>3, <1>4 DEF q
<1>7. \A y \in Waiting(e) : Before(q, y)
  BY <1>3, <1>5
<1>8. r \in Seq(Op) /\ ToSet(r) = ToSet(t) \cup {q}
  BY <1>1, <1>2, Appended
<1>9. \A z \in ToSet(t) : Before(z, q)
  BY <1>6 DEF Order
<1>10. Ordered(r)
  BY <1>1, <1>2, <1>9, OrderedAppend DEF Order
<1> HIDE DEF r
<1>11. \A y \in Waiting(e) : \A z \in ToSet(r) : Before(z, y)
  BY <1>6, <1>7, <1>8 DEF Order
<1>12. d \cap ToSet(r) = {} /\ d \cap Waiting(e) = {}
  BY <1>6, <1>8 DEF Order
<1>13. IsOp(q)
  <2>1. q \in ToSet(a)
    BY <1>6 DEF Order
  <2>2. \A x \in ToSet(a) : x.n # 0
    BY LenProperties DEF Order, ToSet
  <2> QED
    BY <2>1, <2>2 DEF IsOp
<1>14. OpsOf(r) = OpsOf(t) \cup {q}
  BY <1>8, <1>13 DEF OpsOf
<1>15. ToSet(a) = OpsOf(r) \cup d \cup Waiting(e)
  BY <1>6, <1>14 DEF Order
<1>16. e.next \in 0..Len(e.pending)
  BY <1>1, <1>2 DEF k, n, p
<1>17. \A z \in ToSet(r) : z.system <= s
  BY <1>1, <1>2, <1>8 DEF Order
<1>18. Order(e, a, r, d, s)
  BY <1>8, <1>10, <1>11, <1>12, <1>15, <1>16, <1>17 DEF Order
<1> QED
  BY <1>18 DEF r, q, k, p

-----------------------------------------------------------------------------
(* The inductive invariant *)

Active == {"update", "flush", "ownflush"}

\* Where a step is, its flags, and the buffer there.
Phase ==
  /\ stepping <=> pc # "idle"
  /\ stepping => started /\ failed = None /\ tick # 0
  /\ ~started => tick = 0
  /\ pc = "idle" => commands = EmptyBuffer /\ frame = ZeroFrame
  /\ pc = "loop" => at \in 1..(Len(systems) + 1) /\ commands = EmptyBuffer
  /\ pc \in Active => at \in 1..Len(systems)
  /\ pc = "update" => ~commands.flushing
  /\ pc \in {"flush", "ownflush"} => commands.flushing /\ commands.next # 0

\* Deltas and simulation time are multiples of the step.
InStep ==
  /\ elapsed = tick * StepLen
  /\ \A i \in DOMAIN systems : systems[i].delta = systems[i].every * StepLen

\* System i ran on all its multiples up to n.
RanTo(i, n) == runs[i] = n \div systems[i].every

\* The systems ahead of the loop have run in this tick where they were due, the
\* others in the ticks before it.
Progress ==
  /\ \A i \in DOMAIN systems : lastRun[i] = runs[i] * systems[i].every
  /\ failed = None /\ pc = "idle" => \A i \in DOMAIN systems : RanTo(i, tick)
  /\ pc # "idle" => \A i \in DOMAIN systems :
       /\ i < at => RanTo(i, tick)
       /\ i = at => RanTo(i, IF pc = "loop" THEN tick - 1 ELSE tick)
       /\ i > at => RanTo(i, tick - 1)

Settled ==
  /\ {x \in ToSet(trace) : IsOp(x)} = ToSet(accepted) \ discarded
  /\ Ordered(trace)

Commanded ==
  /\ pc # "idle" => Order(commands, accepted, trace, discarded, at)
  /\ pc = "loop" => \A z \in ToSet(trace) : z.system < at
  /\ pc = "idle" /\ failed = None => Settled

IInv ==
  /\ SchedTypeOK
  /\ Len(lastRun) = Len(systems) /\ Len(runs) = Len(systems)
  /\ Phase /\ InStep /\ Progress /\ Commanded

-----------------------------------------------------------------------------
(* Ticks and intervals *)

LEMMA Quotient ==
  ASSUME NEW e \in Nat \ {0}, NEW t \in Nat
  PROVE  (t \div e) \in Nat /\ (t \div e) * e \in Nat
<1>1. (t \div e) \in Nat
  BY Z3
<1> QED
  BY <1>1

\* A system that is due has one multiple more behind it; one that is not, none.
LEMMA NextMultiple ==
  ASSUME NEW e \in Nat \ {0}, NEW t \in Nat \ {0}
  PROVE  /\ t % e = 0 => /\ t \div e = ((t - 1) \div e) + 1
                         /\ ((t - 1) \div e) * e = t - e
         /\ t % e # 0 => t \div e = (t - 1) \div e
<1>1. t - 1 \in Nat
  OBVIOUS
<1> DEFINE q == t \div e
           p == (t - 1) \div e
           r == t % e
           s == (t - 1) % e
<1>2. q \in Nat /\ r \in 0..(e - 1) /\ t = e * q + r
  BY Z3
<1>3. p \in Nat /\ s \in 0..(e - 1) /\ t - 1 = e * p + s
  BY <1>1, Z3
<1> HIDE DEF q, p, r, s
<1>4. e * (q - p) = 1 + s - r
  BY <1>2, <1>3, Z3
<1>5. CASE r = 0
  <2>1. q - p = 1
    BY <1>2, <1>3, <1>4, <1>5, Z3
  <2>2. q = p + 1
    BY <1>2, <1>3, <2>1
  <2>3. e * q = e * p + e
    BY <1>2, <1>3, <2>2, Z3
  <2>4. e * p = t - e
    BY <1>2, <1>3, <1>5, <2>3
  <2>5. p * e = e * p
    BY <1>3
  <2> QED
    BY <1>5, <2>2, <2>4, <2>5 DEF q, p, r
<1>6. CASE r # 0
  <2>1. q - p = 0
    BY <1>2, <1>3, <1>4, <1>6, Z3
  <2> QED
    BY <1>2, <1>3, <1>6, <2>1 DEF q, p, r
<1> QED
  BY <1>5, <1>6

LEMMA OneMore ==
  ASSUME NEW m \in Nat, NEW k \in Nat
  PROVE  (m + 1) * k = m * k + k /\ m * k \in Nat
BY Z3

\* Add: an interval that passes its check has a delta that fits.
LEMMA DeltaFits ==
  ASSUME NEW every \in Nat, every <= MaxTime \div StepLen
  PROVE  every * StepLen \in 0..MaxTime
<1> DEFINE q == MaxTime \div StepLen
           r == MaxTime % StepLen
<1>1. StepLen \in Nat \ {0} /\ MaxTime \in Nat
  BY SchedulerAssumption
<1>2. q \in Nat /\ r \in Nat /\ MaxTime = StepLen * q + r
  BY <1>1, Z3
<1>3. every <= q
  OBVIOUS
<1> HIDE DEF q, r
<1>4. every * StepLen \in Nat
  BY <1>1
<1>5. every * StepLen <= StepLen * q
  BY <1>1, <1>2, <1>3, Z3
<1>6. StepLen * q \in Nat
  BY <1>1, <1>2
<1> QED
  BY <1>1, <1>2, <1>4, <1>5, <1>6

-----------------------------------------------------------------------------
(* The invariant holds *)

\* A new scheduler satisfies it.
LEMMA InitIInv == SchedInit => IInv
<1> SUFFICES ASSUME SchedInit PROVE IInv
  OBVIOUS
<1> USE DEF SchedInit
<1>1. <<>> \in Seq(System) /\ <<>> \in Seq(Op) /\ <<>> \in Seq(Nat) /\ Len(<<>>) = 0
      /\ DOMAIN <<>> = {} /\ ToSet(<<>>) = {}
  BY EmptySeq DEF ToSet
<1>2. SchedTypeOK /\ Len(lastRun) = Len(systems) /\ Len(runs) = Len(systems)
  <2>1. ZeroFrame \in FrameType /\ 0 \in 0..MaxTime
    BY SchedulerAssumption DEF ZeroFrame, FrameType
  <2>2. pc \in Places /\ at \in Nat /\ tick \in Nat /\ queryDepth \in 0..1
    BY DEF Places
  <2>3. EmptyBuffer \in Buffer(Op)
    BY EmptyBufferFacts
  <2> QED
    BY <1>1, <2>1, <2>2, <2>3, Zenon DEF SchedTypeOK
<1>3. Phase
  BY DEF Phase, Active
<1>4. InStep /\ Progress
  <2>1. DOMAIN systems = {}
    BY <1>1
  <2>2. 0 * StepLen = 0
    BY SchedulerAssumption
  <2> QED
    BY <2>1, <2>2 DEF InStep, Progress
<1>5. Commanded
  BY <1>1 DEF Commanded, Settled, Ordered
<1> QED
  BY <1>2, <1>3, <1>4, <1>5 DEF IInv

\* What the proofs need of the registered systems.
LEMMA Registry ==
  ASSUME IInv
  PROVE  /\ Len(systems) \in Nat /\ DOMAIN systems = 1..Len(systems)
         /\ DOMAIN runs = 1..Len(systems) /\ DOMAIN lastRun = 1..Len(systems)
         /\ \A i \in 1..Len(systems) :
              systems[i] \in System /\ systems[i].every \in Nat \ {0}
              /\ runs[i] \in Nat /\ lastRun[i] \in Nat
<1>1. systems \in Seq(System) /\ runs \in Seq(Nat) /\ lastRun \in Seq(Nat)
      /\ Len(lastRun) = Len(systems) /\ Len(runs) = Len(systems)
  BY DEF IInv, SchedTypeOK
<1>2. /\ Len(systems) \in Nat /\ DOMAIN systems = 1..Len(systems)
      /\ DOMAIN runs = 1..Len(systems) /\ DOMAIN lastRun = 1..Len(systems)
  BY <1>1, LenProperties
<1>3. ASSUME NEW i \in 1..Len(systems)
      PROVE  systems[i] \in System /\ runs[i] \in Nat /\ lastRun[i] \in Nat
  BY <1>1, <1>2, ElementOfSeq
<1>4. \A x \in System : x.every \in Nat \ {0}
  BY SchedulerAssumption DEF System
<1> QED
  BY <1>2, <1>3, <1>4

\* A step that ends with a fault, wherever it is.
LEMMA KeepsFaulted ==
  ASSUME IInv, pc # "idle",
         stepping' = FALSE, commands' = EmptyBuffer, frame' = ZeroFrame, failed' \in Faults,
         pc' = "idle", at' = 0, queryDepth' \in 0..1, discarded' \in SUBSET Op,
         UNCHANGED <<config, clock, cancelled, accepted, trace, lastRun, runs>>
  PROVE  IInv'
<1>1. UNCHANGED <<systems, started, tick, elapsed, cancelled, accepted, trace, lastRun, runs>>
  BY DEF config, clock
<1>2. failed' # None
  BY DEF Faults, None
<1>3. SchedTypeOK' /\ (Len(lastRun) = Len(systems))' /\ (Len(runs) = Len(systems))'
  <2>1. ZeroFrame \in FrameType
    BY SchedulerAssumption DEF ZeroFrame, FrameType
  <2>2. "idle" \in Places /\ 0 \in Nat
    BY DEF Places
  <2>3. EmptyBuffer \in Buffer(Op)
    BY EmptyBufferFacts
  <2> QED
    BY <1>1, <2>1, <2>2, <2>3 DEF IInv, SchedTypeOK
<1>4. Phase'
  BY <1>1 DEF IInv, Phase, Active
<1>5. InStep'
  BY <1>1 DEF IInv, InStep
<1>6. Progress'
  BY <1>1, <1>2 DEF IInv, Progress
<1>7. Commanded'
  BY <1>2 DEF Commanded
<1> QED
  BY <1>3, <1>4, <1>5, <1>6, <1>7 DEF IInv

\* User code of the running system goes on.
LEMMA KeepsInUpdate ==
  ASSUME IInv, pc \in Active, pc' \in Active,
         Order(commands', accepted', trace', discarded', at),
         pc' = "update" => ~commands'.flushing,
         pc' # "update" => commands'.flushing /\ commands'.next # 0,
         queryDepth' \in 0..1,
         UNCHANGED <<config, clock, stepping, failed, frame, cancelled, at, lastRun, runs>>
  PROVE  IInv'
<1>1. UNCHANGED <<systems, started, tick, elapsed, stepping, failed, frame, cancelled, at, lastRun, runs>>
  BY DEF config, clock
<1>2. commands' \in Buffer(Op) /\ accepted' \in Seq(Op) /\ trace' \in Seq(Op) /\ discarded' \in SUBSET Op
  BY DEF Order
<1>3. SchedTypeOK' /\ (Len(lastRun) = Len(systems))' /\ (Len(runs) = Len(systems))'
  BY <1>1, <1>2 DEF IInv, SchedTypeOK, Places, Active
<1>4. Phase'
  BY <1>1 DEF IInv, Phase, Active
<1>5. InStep'
  BY <1>1 DEF IInv, InStep
<1>6. Progress'
  BY <1>1 DEF IInv, Progress, RanTo, Active
<1>7. Commanded'
  BY <1>1 DEF Commanded, Active
<1> QED
  BY <1>3, <1>4, <1>5, <1>6, <1>7 DEF IInv

\* The running system is done, and the loop goes on to the next.
LEMMA KeepsNextSystem ==
  ASSUME IInv, pc \in Active, Waiting(commands) = {}, commands' = EmptyBuffer,
         pc' = "loop", at' = at + 1,
         UNCHANGED <<config, clock, stepping, failed, frame, queryDepth, cancelled, history>>
  PROVE  IInv'
<1>1. UNCHANGED <<systems, started, tick, elapsed, stepping, failed, frame, queryDepth, cancelled,
                  accepted, discarded, trace, lastRun, runs>>
  BY DEF config, clock, history
<1>2. at \in 1..Len(systems) /\ Len(systems) \in Nat
  BY Registry DEF IInv, Phase
<1>3. SchedTypeOK' /\ (Len(lastRun) = Len(systems))' /\ (Len(runs) = Len(systems))'
  BY <1>1, <1>2, EmptyBufferFacts DEF IInv, SchedTypeOK, Places
<1>4. Phase'
  BY <1>1, <1>2 DEF IInv, Phase, Active
<1>5. InStep'
  BY <1>1 DEF IInv, InStep
<1>6. Progress'
  <2>1. DOMAIN systems = 1..Len(systems)
    BY Registry
  <2>2. ASSUME NEW i \in 1..Len(systems)
        PROVE  /\ i < at + 1 => RanTo(i, tick)
               /\ i = at + 1 => RanTo(i, tick - 1)
               /\ i > at + 1 => RanTo(i, tick - 1)
    BY <1>2, <2>1 DEF IInv, Progress, Active
  <2> QED
    BY <1>1, <2>1, <2>2 DEF IInv, Progress, RanTo
<1>7. Commanded'
  <2>1. Order(commands, accepted, trace, discarded, at)
    BY DEF IInv, Commanded, Active
  <2>2. Order(EmptyBuffer, accepted, trace, discarded, at)
    <3>1. discarded \cup Waiting(commands) = discarded
      OBVIOUS
    <3> QED
      BY <2>1, <3>1, OrderEmptied
  <2>3. Order(EmptyBuffer, accepted, trace, discarded, at + 1)
        /\ \A z \in ToSet(trace) : z.system < at + 1
    BY <2>2, OrderAdvance, EmptyBufferFacts
  <2> QED
    BY <1>1, <2>3 DEF Commanded
<1> QED
  BY <1>3, <1>4, <1>5, <1>6, <1>7 DEF IInv

\* Where a step is, as the actions use it.
LEMMA InAStep ==
  ASSUME IInv
  PROVE  /\ pc # "idle" => /\ stepping /\ failed = None /\ tick \in Nat \ {0}
                           /\ Order(commands, accepted, trace, discarded, at)
                           /\ commands \in Buffer(Op)
                           /\ (~commands.flushing => commands.next = 0)
         /\ pc \in Active => at \in 1..Len(systems)
         /\ pc = "update" => ~commands.flushing
         /\ pc \in {"flush", "ownflush"} => commands.flushing /\ commands.next \in 1..Len(commands.pending)
         /\ pc = "loop" => commands = EmptyBuffer /\ \A z \in ToSet(trace) : z.system < at
         /\ discarded \in SUBSET Op /\ queryDepth \in 0..1
<1>1. pc # "idle" => Order(commands, accepted, trace, discarded, at)
  BY DEF IInv, Commanded
<1>2. pc # "idle" => /\ stepping /\ failed = None /\ tick \in Nat \ {0}
  BY DEF IInv, Phase, SchedTypeOK
<1>3. pc # "idle" => /\ commands \in Buffer(Op) /\ (~commands.flushing => commands.next = 0)
                     /\ commands.next \in 0..Len(commands.pending)
  BY <1>1 DEF Order
<1>4. commands \in Buffer(Op) => Len(commands.pending) \in Nat
  BY PendingFacts
<1>5. pc \in {"flush", "ownflush"} => commands.flushing /\ commands.next # 0
  BY DEF IInv, Phase
<1>6. discarded \in SUBSET Op /\ queryDepth \in 0..1
  BY DEF IInv, SchedTypeOK
<1>7. /\ pc \in Active => at \in 1..Len(systems)
      /\ pc = "update" => ~commands.flushing
      /\ pc = "loop" => commands = EmptyBuffer /\ \A z \in ToSet(trace) : z.system < at
  BY DEF IInv, Phase, Commanded
<1>8. pc \in {"flush", "ownflush"} => commands.next \in 1..Len(commands.pending)
  BY <1>3, <1>4, <1>5
<1> QED
  BY <1>1, <1>2, <1>3, <1>5, <1>6, <1>7, <1>8, Zenon

\* A buffer that is not being flushed is empty once cleared.
LEMMA ClearedIsEmpty ==
  ASSUME NEW c \in Buffer(Op), ~c.flushing, c.next = 0
  PROVE  Cleared(c) = EmptyBuffer /\ Cleared(EmptyBuffer) = EmptyBuffer /\ FlushEnded(c) = EmptyBuffer
<1>1. c.flushing = FALSE
  BY DEF Buffer
<1>2. Cleared(c) = [pending |-> <<>>, flushing |-> FALSE, next |-> 0]
  <2>1. Cleared(c) = [pending |-> <<>>, flushing |-> c.flushing, next |-> c.next]
    BY DEF Buffer, Cleared
  <2> QED
    BY <1>1, <2>1
<1>3. Cleared(EmptyBuffer) = EmptyBuffer
  BY DEF Cleared, EmptyBuffer
<1> QED
  BY <1>2, <1>3 DEF EmptyBuffer, FlushEnded

LEMMA FlushEndedIsEmpty ==
  ASSUME NEW c
  PROVE  FlushEnded(c) = EmptyBuffer /\ Cleared(FlushEnded(c)) = EmptyBuffer
BY DEF Cleared, EmptyBuffer, FlushEnded

LEMMA KeepsStopCancelled == ASSUME IInv, StopCancelled PROVE IInv'
<1>1. pc # "idle" /\ commands = EmptyBuffer /\ discarded \in SUBSET Op /\ queryDepth \in 0..1
  BY InAStep DEF StopCancelled
<1>2. commands' = EmptyBuffer /\ failed' \in Faults /\ stepping' = FALSE /\ frame' = ZeroFrame
      /\ pc' = "idle" /\ at' = 0
  BY <1>1, ClearedIsEmpty, EmptyBufferFacts DEF StopCancelled, Exit, Faults, None
<1>3. UNCHANGED <<config, clock, cancelled, accepted, trace, lastRun, runs>>
      /\ discarded' = discarded /\ queryDepth' = queryDepth
  BY DEF StopCancelled, Exit, history
<1> QED
  BY <1>1, <1>2, <1>3, KeepsFaulted

\* What is discarded stays a set of operations.
LEMMA DiscardsOps ==
  ASSUME IInv, pc # "idle", DiscardWaiting
  PROVE  discarded' \in SUBSET Op /\ UNCHANGED <<accepted, trace, lastRun, runs>>
<1>1. discarded \in SUBSET Op /\ commands \in Buffer(Op)
  BY InAStep
<1> QED
  BY <1>1, WaitingAreOps DEF DiscardWaiting

LEMMA KeepsUpdateFails == ASSUME IInv, UpdateFails PROVE IInv'
<1>1. pc = "update" /\ commands \in Buffer(Op) /\ ~commands.flushing /\ commands.next = 0
      /\ queryDepth \in 0..1
  BY InAStep DEF UpdateFails
<1>2. commands' = EmptyBuffer /\ failed' \in Faults /\ stepping' = FALSE /\ frame' = ZeroFrame
      /\ pc' = "idle" /\ at' = 0 /\ UNCHANGED <<config, clock, cancelled>>
  BY <1>1, ClearedIsEmpty DEF UpdateFails, Exit, Faults, None
<1>3. discarded' \in SUBSET Op /\ UNCHANGED <<accepted, trace, lastRun, runs>> /\ queryDepth' = queryDepth
  BY <1>1, DiscardsOps DEF UpdateFails
<1> QED
  BY <1>1, <1>2, <1>3, KeepsFaulted

LEMMA KeepsOperationFails == ASSUME IInv, OperationFails PROVE IInv'
<1>1. pc = "flush" /\ queryDepth \in 0..1
  BY InAStep DEF OperationFails
<1>2. commands' = EmptyBuffer /\ failed' \in Faults /\ stepping' = FALSE /\ frame' = ZeroFrame
      /\ pc' = "idle" /\ at' = 0 /\ UNCHANGED <<config, clock, cancelled>>
  BY <1>1, FlushEndedIsEmpty DEF OperationFails, Exit, Faults, None
<1>3. discarded' \in SUBSET Op /\ UNCHANGED <<accepted, trace, lastRun, runs>> /\ queryDepth' = queryDepth
  BY <1>1, DiscardsOps DEF OperationFails
<1> QED
  BY <1>1, <1>2, <1>3, KeepsFaulted

LEMMA KeepsStepPanics == ASSUME IInv, StepPanics PROVE IInv'
<1>1. pc # "idle" /\ (pc = "update" => commands \in Buffer(Op) /\ ~commands.flushing /\ commands.next = 0)
  BY InAStep DEF StepPanics
<1> DEFINE left == IF pc = "update" THEN commands ELSE FlushEnded(commands)
<1>2. Cleared(left) = EmptyBuffer
  BY <1>1, ClearedIsEmpty, FlushEndedIsEmpty
<1>3. Exit(FALSE, None, left)
  BY DEF StepPanics
<1> HIDE DEF left
<1>4. commands' = EmptyBuffer /\ failed' \in Faults /\ stepping' = FALSE /\ frame' = ZeroFrame
      /\ pc' = "idle" /\ at' = 0 /\ UNCHANGED <<config, clock, cancelled>>
  BY <1>2, <1>3 DEF Exit, Faults
<1>5. discarded' \in SUBSET Op /\ UNCHANGED <<accepted, trace, lastRun, runs>> /\ queryDepth' \in 0..1
  BY <1>1, DiscardsOps DEF StepPanics
<1> QED
  BY <1>1, <1>4, <1>5, KeepsFaulted

LEMMA KeepsSystemDefer == ASSUME IInv, SystemDefer PROVE IInv'
<1>1. pc \in Active /\ pc # "idle" /\ Writable(commands) /\ commands' = Deferred(commands, NextOp)
      /\ accepted' = Append(accepted, NextOp)
  BY DEF SystemDefer, Active
<1>2. Order(commands, accepted, trace, discarded, at) /\ queryDepth \in 0..1
  BY <1>1, InAStep
<1>3. NextOp = [system |-> at, n |-> Len(accepted) + 1]
  BY DEF NextOp
<1>4. Order(commands', accepted', trace, discarded, at) /\ ~commands'.flushing
  BY ONLY <1>1, <1>2, <1>3, OrderDefer
<1>5. pc = "update"
  BY <1>1, InAStep DEF Active, Writable
<1>6. UNCHANGED <<config, clock, stepping, failed, frame, queryDepth, cancelled, pc, at,
                  discarded, trace, lastRun, runs>>
  BY DEF SystemDefer
<1> QED
  BY <1>1, <1>2, <1>4, <1>5, <1>6, KeepsInUpdate

LEMMA KeepsSystemClear == ASSUME IInv, SystemClear PROVE IInv'
<1>1. pc = "update" /\ pc \in Active /\ pc # "idle" /\ pc' = pc
  BY DEF SystemClear, Active
<1>2. Order(commands, accepted, trace, discarded, at) /\ queryDepth \in 0..1
      /\ commands \in Buffer(Op) /\ ~commands.flushing /\ commands.next = 0
  BY <1>1, InAStep
<1>3. commands' = EmptyBuffer
  BY <1>2, ClearedIsEmpty DEF SystemClear
<1>4. discarded' = discarded \cup Waiting(commands) /\ UNCHANGED <<accepted, trace, lastRun, runs>>
  BY DEF SystemClear, DiscardWaiting
<1>5. Order(commands', accepted', trace', discarded', at)
  BY <1>2, <1>3, <1>4, OrderEmptied
<1>6. ~commands'.flushing
  BY <1>3, EmptyBufferFacts
<1>7. UNCHANGED <<config, clock, stepping, failed, frame, queryDepth, cancelled, pc, at>>
  BY DEF SystemClear
<1> QED
  BY <1>1, <1>2, <1>4, <1>5, <1>6, <1>7, KeepsInUpdate

\* The first operation of a flush, the system's or the scheduler's.
LEMMA KeepsFlushBegin ==
  ASSUME IInv, pc = "update", NEW place \in {"flush", "ownflush"}, FlushBegin(place)
  PROVE  IInv'
<1> DEFINE p == commands.pending
<1>1. Order(commands, accepted, trace, discarded, at) /\ queryDepth \in 0..1
      /\ commands \in Buffer(Op) /\ ~commands.flushing /\ commands.next = 0
  BY InAStep
<1>2. p \in Seq(Op) /\ p # <<>> /\ Len(p) \in Nat
  BY <1>1, PendingFacts DEF FlushBegin
<1>3. Len(p) # 0 /\ Head(p) = p[1]
  BY <1>2, EmptySeq, HeadTailProperties
<1>4. commands' = [pending |-> p, flushing |-> TRUE, next |-> 1]
  BY <1>1 DEF FlushBegin, FlushStarted, Buffer
<1>5. commands' \in Buffer(Op) /\ commands'.pending = p /\ commands'.flushing /\ commands'.next = 1
  BY <1>2, <1>4 DEF Buffer
<1>6. trace' = Append(trace, p[commands.next + 1])
  BY <1>1, <1>3 DEF FlushBegin
<1>7. commands.next < Len(p) /\ commands'.next = commands.next + 1
  BY <1>1, <1>2, <1>3, <1>5
<1> HIDE DEF p
<1>8. UNCHANGED <<config, clock, stepping, failed, frame, queryDepth, cancelled, at,
                  accepted, discarded, lastRun, runs>> /\ pc' = place
  BY DEF FlushBegin
<1>9. Order(commands', accepted, Append(trace, p[commands.next + 1]), discarded, at)
  BY <1>1, <1>5, <1>7, OrderRun DEF p
<1>10. Order(commands', accepted', trace', discarded', at)
  BY <1>6, <1>8, <1>9
<1> QED
  BY <1>1, <1>5, <1>8, <1>10, KeepsInUpdate DEF Active

LEMMA KeepsOperationNext == ASSUME IInv, OperationNext PROVE IInv'
<1> DEFINE p == commands.pending
<1>1. pc \in {"flush", "ownflush"} /\ pc \in Active /\ pc # "idle" /\ pc # "update"
  BY DEF OperationNext, Active
<1>2. Order(commands, accepted, trace, discarded, at) /\ queryDepth \in 0..1
      /\ commands \in Buffer(Op) /\ commands.flushing /\ commands.next \in 1..Len(p)
  BY <1>1, InAStep
<1>3. p \in Seq(Op) /\ Len(p) \in Nat /\ commands.next \in Nat
  BY <1>2, PendingFacts
<1>4. commands.next < Len(p)
  BY DEF OperationNext, MoreToRun
<1>5. commands' = [pending |-> p, flushing |-> TRUE, next |-> commands.next + 1]
  BY <1>2 DEF OperationNext, FlushAdvanced, Buffer
<1>6. commands' \in Buffer(Op) /\ commands'.pending = p /\ commands'.flushing
      /\ commands'.next = commands.next + 1
  BY <1>3, <1>5 DEF Buffer
<1>7. trace' = Append(trace, p[commands.next + 1])
  <2>1. trace' = Append(trace, Current(commands'))
    BY DEF OperationNext
  <2> QED
    BY <1>6, <2>1 DEF Current
<1>8. commands'.next # 0
  BY <1>3, <1>6
<1>9. UNCHANGED <<config, clock, stepping, failed, frame, queryDepth, cancelled, pc, at,
                  accepted, discarded, lastRun, runs>>
  BY DEF OperationNext
<1> HIDE DEF p
<1>10. Order(commands', accepted, Append(trace, p[commands.next + 1]), discarded, at)
  BY <1>2, <1>4, <1>6, OrderRun DEF p
<1>11. Order(commands', accepted', trace', discarded', at)
  BY <1>7, <1>9, <1>10
<1> QED
  BY <1>1, <1>2, <1>6, <1>8, <1>9, <1>11, KeepsInUpdate

LEMMA KeepsFlushReturns == ASSUME IInv, FlushReturns PROVE IInv'
<1>1. pc \in {"flush", "ownflush"} /\ pc \in Active /\ pc # "idle" /\ commands' = EmptyBuffer
  BY FlushEndedIsEmpty DEF FlushReturns, Active
<1>2. Order(commands, accepted, trace, discarded, at) /\ queryDepth \in 0..1
      /\ commands \in Buffer(Op) /\ commands.next \in 1..Len(commands.pending)
  BY <1>1, InAStep
<1>3. Waiting(commands) = {}
  <2>1. Len(commands.pending) \in Nat
    BY <1>2, PendingFacts
  <2>2. (commands.next + 1)..Len(commands.pending) = {}
    BY <1>2, <2>1 DEF FlushReturns, MoreToRun
  <2> QED
    BY <2>2 DEF Waiting
<1>4. UNCHANGED <<config, clock, stepping, failed, frame, queryDepth, cancelled, history>>
  BY DEF FlushReturns
<1>5. CASE pc = "flush"
  <2>1. pc' = "loop" /\ at' = at + 1
    BY <1>5 DEF FlushReturns
  <2> QED
    BY <1>1, <1>3, <1>4, <2>1, KeepsNextSystem
<1>6. CASE pc = "ownflush"
  <2>1. pc' = "update" /\ at' = at
    BY <1>6 DEF FlushReturns
  <2>2. discarded \cup Waiting(commands) = discarded
    BY <1>3
  <2>3. Order(EmptyBuffer, accepted, trace, discarded, at)
    BY <1>2, <2>2, OrderEmptied
  <2>4. UNCHANGED <<accepted, discarded, trace, lastRun, runs>>
    BY <1>4 DEF history
  <2>5. Order(commands', accepted', trace', discarded', at)
    BY <1>1, <2>3, <2>4
  <2>6. ~commands'.flushing /\ pc' \in Active
    BY <1>1, <2>1, EmptyBufferFacts DEF Active
  <2> QED
    BY <1>1, <1>2, <1>4, <2>1, <2>4, <2>5, <2>6, KeepsInUpdate
<1> QED
  BY <1>1, <1>5, <1>6

LEMMA KeepsUpdateReturnsEmpty == ASSUME IInv, UpdateReturnsEmpty PROVE IInv'
<1>1. pc = "update" /\ pc \in Active /\ commands.pending = <<>> /\ commands' = commands
      /\ pc' = "loop" /\ at' = at + 1
  BY DEF UpdateReturnsEmpty, Active
<1>2. commands \in Buffer(Op) /\ ~commands.flushing /\ commands.next = 0
  BY <1>1, InAStep
<1>3. commands = EmptyBuffer
  BY <1>1, <1>2 DEF Buffer, EmptyBuffer
<1>4. Waiting(commands) = {}
  BY <1>3, EmptyBufferFacts
<1>5. UNCHANGED <<config, clock, stepping, failed, frame, queryDepth, cancelled, history>>
  BY DEF UpdateReturnsEmpty
<1> QED
  BY <1>1, <1>3, <1>4, <1>5, KeepsNextSystem

LEMMA KeepsOwnFlushAborts == ASSUME IInv, OwnFlushAborts PROVE IInv'
<1>1. pc = "ownflush" /\ pc \in Active /\ pc # "idle" /\ commands' = EmptyBuffer /\ pc' = "update"
      /\ pc' \in Active /\ queryDepth' \in 0..1
  BY FlushEndedIsEmpty DEF OwnFlushAborts, Active
<1>2. Order(commands, accepted, trace, discarded, at)
  BY <1>1, InAStep
<1>3. discarded' = discarded \cup Waiting(commands) /\ UNCHANGED <<accepted, trace, lastRun, runs>>
  BY DEF OwnFlushAborts, DiscardWaiting
<1>4. Order(EmptyBuffer, accepted, trace, discarded \cup Waiting(commands), at)
  BY <1>2, OrderEmptied
<1>5. Order(commands', accepted', trace', discarded', at)
  BY <1>1, <1>3, <1>4
<1>6. ~commands'.flushing
  BY <1>1, EmptyBufferFacts
<1>7. UNCHANGED <<config, clock, stepping, failed, frame, cancelled, at>>
  BY DEF OwnFlushAborts
<1> QED
  BY <1>1, <1>3, <1>5, <1>6, <1>7, KeepsInUpdate

\* Steps that change one flag.
LEMMA KeepsFlags ==
  ASSUME IInv,
         cancelled' \in BOOLEAN, queryDepth' \in 0..1,
         UNCHANGED <<config, clock, stepping, failed, commands, frame, pc, at, history>>
  PROVE  IInv'
<1>1. UNCHANGED <<systems, started, tick, elapsed, stepping, failed, commands, frame, pc, at,
                  accepted, discarded, trace, lastRun, runs>>
  BY DEF config, clock, history
<1>2. SchedTypeOK' /\ (Len(lastRun) = Len(systems))' /\ (Len(runs) = Len(systems))'
  BY <1>1 DEF IInv, SchedTypeOK
<1>3. Phase'
  BY <1>1 DEF IInv, Phase
<1>4. InStep' /\ Progress'
  BY <1>1 DEF IInv, InStep, Progress, RanTo
<1>5. Commanded'
  BY <1>1 DEF IInv, Commanded, Settled
<1> QED
  BY <1>2, <1>3, <1>4, <1>5 DEF IInv

LEMMA KeepsStepOverflow == ASSUME IInv, StepOverflow PROVE IInv'
<1>1. UNCHANGED <<systems, started, tick, elapsed, stepping, commands, frame, queryDepth, cancelled, pc, at,
                  accepted, discarded, trace, lastRun, runs>> /\ failed' = "overflow"
  BY DEF StepOverflow, config, clock, history
<1>2. pc = "idle" /\ ~stepping /\ "overflow" # None /\ "overflow" \in Faults
  BY DEF StepOverflow, Admitted, IInv, Phase, None, Faults
<1>3. SchedTypeOK' /\ (Len(lastRun) = Len(systems))' /\ (Len(runs) = Len(systems))'
  BY <1>1, <1>2 DEF IInv, SchedTypeOK
<1>4. Phase'
  BY <1>1, <1>2 DEF IInv, Phase, Active
<1>5. InStep'
  BY <1>1 DEF IInv, InStep
<1>6. Progress'
  BY <1>1, <1>2 DEF IInv, Progress
<1>7. Commanded'
  BY <1>1, <1>2 DEF Commanded
<1> QED
  BY <1>3, <1>4, <1>5, <1>6, <1>7 DEF IInv

LEMMA KeepsStepFinish == ASSUME IInv, StepFinish PROVE IInv'
<1>1. pc = "loop" /\ commands = EmptyBuffer /\ Order(commands, accepted, trace, discarded, at)
      /\ queryDepth \in 0..1 /\ stepping
  BY InAStep DEF StepFinish
<1>2. commands' = EmptyBuffer
  BY <1>1, ClearedIsEmpty, EmptyBufferFacts DEF StepFinish, Exit
<1>3. UNCHANGED <<systems, started, tick, elapsed, queryDepth, cancelled,
                  accepted, discarded, trace, lastRun, runs>>
      /\ stepping' = FALSE /\ frame' = ZeroFrame /\ failed' = None /\ pc' = "idle" /\ at' = 0
  BY DEF StepFinish, Exit, config, clock, history
<1>4. SchedTypeOK' /\ (Len(lastRun) = Len(systems))' /\ (Len(runs) = Len(systems))'
  <2>1. ZeroFrame \in FrameType
    BY SchedulerAssumption DEF ZeroFrame, FrameType
  <2>2. "idle" \in Places /\ 0 \in Nat
    BY DEF Places
  <2>3. EmptyBuffer \in Buffer(Op)
    BY EmptyBufferFacts
  <2> QED
    BY <1>2, <1>3, <2>1, <2>2, <2>3 DEF IInv, SchedTypeOK
<1>5. Phase'
  BY <1>1, <1>2, <1>3 DEF IInv, Phase, Active
<1>6. InStep'
  BY <1>3 DEF IInv, InStep
<1>7. Progress'
  <2>1. DOMAIN systems = 1..Len(systems) /\ Len(systems) \in Nat
    BY Registry
  <2>2. at \in Nat /\ at > Len(systems)
    BY DEF IInv, SchedTypeOK, StepFinish
  <2>3. ASSUME NEW i \in 1..Len(systems) PROVE RanTo(i, tick)
    <3>1. i < at
      BY <2>1, <2>2
    <3> QED
      BY <1>1, <2>1, <3>1 DEF IInv, Progress
  <2> QED
    BY <1>3, <2>1, <2>3 DEF IInv, Progress, RanTo
<1>8. Commanded'
  <2>1. Settled
    BY <1>1, EmptyBufferFacts, OrderSettled DEF Settled
  <2> QED
    BY <1>3, <2>1 DEF Commanded, Settled
<1> QED
  BY <1>4, <1>5, <1>6, <1>7, <1>8 DEF IInv

LEMMA KeepsSkipSystem == ASSUME IInv, SkipSystem PROVE IInv'
<1>1. pc = "loop" /\ commands = EmptyBuffer /\ Order(commands, accepted, trace, discarded, at)
      /\ (\A z \in ToSet(trace) : z.system < at) /\ tick \in Nat \ {0}
  BY InAStep DEF SkipSystem
<1>2. UNCHANGED <<systems, started, tick, elapsed, stepping, failed, commands, frame, queryDepth,
                  cancelled, pc, accepted, discarded, trace, lastRun, runs>> /\ at' = at + 1
  BY DEF SkipSystem, config, clock, history
<1>3. at \in 1..Len(systems) /\ Len(systems) \in Nat /\ DOMAIN systems = 1..Len(systems)
  BY <1>1, Registry DEF IInv, Phase, SkipSystem
<1>4. SchedTypeOK' /\ (Len(lastRun) = Len(systems))' /\ (Len(runs) = Len(systems))'
  BY <1>2, <1>3 DEF IInv, SchedTypeOK
<1>5. Phase'
  BY <1>1, <1>2, <1>3 DEF IInv, Phase, Active
<1>6. InStep'
  BY <1>2 DEF IInv, InStep
<1>7. Progress'
  <2>1. RanTo(at, tick)
    <3>1. RanTo(at, tick - 1)
      BY <1>1, <1>3 DEF IInv, Progress
    <3>2. systems[at].every \in Nat \ {0} /\ tick % systems[at].every # 0
      BY <1>3, Registry DEF SkipSystem, Due
    <3> QED
      BY <1>1, <3>1, <3>2, NextMultiple DEF RanTo
  <2>2. ASSUME NEW i \in 1..Len(systems)
        PROVE  /\ i < at + 1 => RanTo(i, tick)
               /\ i = at + 1 => RanTo(i, tick - 1)
               /\ i > at + 1 => RanTo(i, tick - 1)
    <3>1. /\ i < at => RanTo(i, tick)
          /\ i > at => RanTo(i, tick - 1)
      BY <1>1, <1>3 DEF IInv, Progress
    <3>2. i < at + 1 => i < at \/ i = at
      BY <1>3
    <3>3. i = at + 1 \/ i > at + 1 => i > at
      BY <1>3
    <3> QED
      BY <2>1, <3>1, <3>2, <3>3
  <2> QED
    BY <1>1, <1>2, <1>3, <2>2 DEF IInv, Progress, RanTo
<1>8. Commanded'
  <2>1. Order(commands, accepted, trace, discarded, at + 1)
        /\ \A z \in ToSet(trace) : z.system < at + 1
    BY <1>1, OrderAdvance, EmptyBufferFacts
  <2> QED
    BY <1>1, <1>2, <2>1 DEF Commanded
<1> QED
  BY <1>4, <1>5, <1>6, <1>7, <1>8 DEF IInv

\* One more run of a due system.
LEMMA RunsOnce ==
  ASSUME IInv, UpdateBegin
  PROVE  /\ tick = lastRun[at] + systems[at].every
         /\ runs[at] + 1 = tick \div systems[at].every
         /\ tick = (runs[at] + 1) * systems[at].every
<1> DEFINE e == systems[at].every
           r == runs[at]
<1>1. pc = "loop" /\ tick \in Nat \ {0}
  BY InAStep DEF UpdateBegin
<1>2. at \in 1..Len(systems) /\ e \in Nat \ {0} /\ r \in Nat /\ DOMAIN systems = 1..Len(systems)
  BY <1>1, Registry DEF IInv, Phase, UpdateBegin
<1>3. r = (tick - 1) \div e /\ lastRun[at] = r * e
  BY <1>1, <1>2 DEF IInv, Progress, RanTo
<1>4. tick % e = 0
  BY DEF UpdateBegin, Due
<1> HIDE DEF e, r
<1>5. tick \div e = r + 1 /\ r * e = tick - e
  BY <1>1, <1>2, <1>3, <1>4, NextMultiple
<1>6. (r + 1) * e = r * e + e
  BY <1>2, OneMore
<1>7. (r + 1) * e = tick /\ tick = r * e + e
  BY <1>1, <1>2, <1>5, <1>6
<1> QED
  BY <1>3, <1>5, <1>7 DEF e, r

LEMMA KeepsUpdateBegin == ASSUME IInv, UpdateBegin PROVE IInv'
<1>1. pc = "loop" /\ commands = EmptyBuffer /\ Order(commands, accepted, trace, discarded, at)
      /\ (\A z \in ToSet(trace) : z.system < at) /\ tick \in Nat \ {0}
  BY InAStep DEF UpdateBegin
<1>2. UNCHANGED <<systems, started, tick, elapsed, stepping, failed, commands, queryDepth,
                  cancelled, at, accepted, discarded>>
      /\ pc' = "update" /\ trace' = Append(trace, UpdateEvent(at))
  BY DEF UpdateBegin, config, clock
<1>3. at \in 1..Len(systems) /\ Len(systems) \in Nat /\ DOMAIN systems = 1..Len(systems)
      /\ DOMAIN lastRun = 1..Len(systems) /\ DOMAIN runs = 1..Len(systems)
      /\ systems[at] \in System /\ runs[at] \in Nat
  BY <1>1, Registry DEF IInv, Phase, UpdateBegin
<1>4. Order(commands, accepted, Append(trace, UpdateEvent(at)), discarded, at)
  BY <1>1, EmptyBufferFacts, OrderUpdate
<1>5. /\ lastRun' \in Seq(Nat) /\ Len(lastRun') = Len(lastRun)
      /\ runs' \in Seq(Nat) /\ Len(runs') = Len(runs)
  <2>1. lastRun \in Seq(Nat) /\ runs \in Seq(Nat) /\ runs[at] + 1 \in Nat
    BY <1>3 DEF IInv, SchedTypeOK
  <2> QED
    BY <1>1, <1>3, <2>1, ExceptSeq DEF UpdateBegin
<1>6. /\ lastRun'[at] = tick /\ runs'[at] = runs[at] + 1
      /\ \A i \in 1..Len(systems) : i # at => lastRun'[i] = lastRun[i] /\ runs'[i] = runs[i]
  BY <1>3 DEF UpdateBegin
<1>7. SchedTypeOK' /\ (Len(lastRun) = Len(systems))' /\ (Len(runs) = Len(systems))'
  <2>1. frame' \in FrameType
    BY <1>3 DEF UpdateBegin, FrameType, System, IInv, SchedTypeOK
  <2>2. trace' \in Seq(Op)
    BY <1>2, <1>4 DEF Order
  <2>3. pc' \in Places
    BY <1>2 DEF Places
  <2> QED
    BY <1>2, <1>5, <2>1, <2>2, <2>3 DEF IInv, SchedTypeOK
<1>8. Phase'
  BY <1>1, <1>2, <1>3, EmptyBufferFacts DEF IInv, Phase, Active
<1>9. InStep'
  BY <1>2 DEF IInv, InStep
<1>10. Progress'
  <2>1. ASSUME NEW i \in 1..Len(systems)
        PROVE  /\ lastRun'[i] = runs'[i] * systems[i].every
               /\ i < at => runs'[i] = tick \div systems[i].every
               /\ i = at => runs'[i] = tick \div systems[i].every
               /\ i > at => runs'[i] = (tick - 1) \div systems[i].every
    <3>1. CASE i = at
      <4>1. tick = (runs[at] + 1) * systems[at].every /\ runs[at] + 1 = tick \div systems[at].every
        BY RunsOnce
      <4>2. ~(at < at) /\ ~(at > at)
        BY <1>3
      <4> QED
        BY <1>6, <3>1, <4>1, <4>2
    <3>2. CASE i # at
      <4>1. lastRun'[i] = lastRun[i] /\ runs'[i] = runs[i]
        BY <1>6, <3>2
      <4>2. /\ lastRun[i] = runs[i] * systems[i].every
            /\ i < at => RanTo(i, tick)
            /\ i > at => RanTo(i, tick - 1)
        BY <1>1, <1>3 DEF IInv, Progress
      <4> QED
        BY <3>2, <4>1, <4>2 DEF RanTo
    <3> QED
      BY <3>1, <3>2
  <2> QED
    BY <1>2, <1>3, <2>1 DEF Progress, RanTo
<1>11. Commanded'
  BY <1>2, <1>4 DEF Commanded
<1> QED
  BY <1>3, <1>7, <1>8, <1>9, <1>10, <1>11 DEF IInv

LEMMA KeepsStepBegin == ASSUME IInv, StepBegin PROVE IInv'
<1>1. pc = "idle" /\ failed = None /\ commands = EmptyBuffer /\ queryDepth \in 0..1
      /\ tick \in Nat /\ elapsed \in Nat /\ elapsed = tick * StepLen
  BY InAStep, SchedulerAssumption DEF StepBegin, Admitted, IInv, Phase, SchedTypeOK, InStep
<1>2. UNCHANGED <<systems, failed, commands, frame, queryDepth, lastRun, runs>>
      /\ started' = TRUE /\ stepping' = TRUE /\ cancelled' = FALSE
      /\ tick' = tick + 1 /\ elapsed' = elapsed + StepLen /\ pc' = "loop" /\ at' = 1
      /\ accepted' = <<>> /\ discarded' = {} /\ trace' = <<>>
  BY DEF StepBegin
<1>3. Len(systems) \in Nat /\ DOMAIN systems = 1..Len(systems)
  BY Registry
<1>4. <<>> \in Seq(Op) /\ ToSet(<<>>) = {}
  BY EmptySeq DEF ToSet
<1>5. tick' = tick + 1 /\ tick' - 1 = tick /\ tick' \in Nat /\ tick' # 0
  BY <1>1, <1>2
<1>6. SchedTypeOK' /\ (Len(lastRun) = Len(systems))' /\ (Len(runs) = Len(systems))'
  <2>1. elapsed' \in 0..MaxTime
    BY <1>1, <1>2, SchedulerAssumption DEF StepBegin
  <2>2. pc' \in Places /\ at' \in Nat
    BY <1>2 DEF Places
  <2> QED
    BY <1>2, <1>4, <1>5, <2>1, <2>2 DEF IInv, SchedTypeOK
<1>7. Phase'
  BY <1>1, <1>2, <1>3, <1>5 DEF IInv, Phase, Active
<1>8. InStep'
  <2>1. (tick + 1) * StepLen = tick * StepLen + StepLen
    BY <1>1, OneMore, SchedulerAssumption
  <2>2. elapsed' = tick' * StepLen
    BY <1>1, <1>2, <2>1
  <2> QED
    BY <1>2, <2>2 DEF IInv, InStep
<1>9. Progress'
  <2>1. ASSUME NEW i \in DOMAIN systems
        PROVE  lastRun[i] = runs[i] * systems[i].every /\ runs[i] = tick \div systems[i].every
    BY <1>1 DEF IInv, Progress, RanTo
  <2>2. \A i \in DOMAIN systems : ~(i < 1)
    BY <1>3
  <2> QED
    BY <1>2, <1>5, <2>1, <2>2 DEF Progress, RanTo
<1>10. Commanded'
  BY <1>1, <1>2, <1>4, OrderStart DEF Commanded
<1> QED
  BY <1>6, <1>7, <1>8, <1>9, <1>10 DEF IInv

LEMMA KeepsAdd ==
  ASSUME IInv, NEW name \in Names, NEW every \in Intervals, Add(name, every)
  PROVE  IInv'
<1> DEFINE n == Len(systems)
           new == [name |-> name, every |-> every, delta |-> every * StepLen]
<1>1. pc = "idle" /\ ~stepping /\ tick = 0
  BY DEF Add, IInv, Phase, Places
<1>2. UNCHANGED <<started, tick, elapsed, stepping, failed, commands, frame, queryDepth, cancelled,
                  pc, at, accepted, discarded, trace>>
  BY DEF Add, clock
<1>3. every \in Nat \ {0}
  BY SchedulerAssumption
<1>4. new \in System /\ new.every = every /\ new.delta = every * StepLen
  BY <1>3, DeltaFits DEF Add, System
<1>5. systems' = Append(systems, new) /\ lastRun' = Append(lastRun, 0) /\ runs' = Append(runs, 0)
  BY DEF Add
<1>6. systems \in Seq(System) /\ lastRun \in Seq(Nat) /\ runs \in Seq(Nat)
      /\ Len(lastRun) = n /\ Len(runs) = n
  BY DEF IInv, SchedTypeOK
<1> HIDE DEF new
<1>7. /\ n \in Nat /\ DOMAIN systems = 1..n
      /\ systems' \in Seq(System) /\ DOMAIN systems' = 1..(n + 1) /\ Len(systems') = n + 1
      /\ \A i \in 1..n : systems'[i] = systems[i]
      /\ systems'[n + 1] = new
  BY <1>4, <1>5, <1>6, Appended
<1>8. /\ lastRun' \in Seq(Nat) /\ Len(lastRun') = n + 1
      /\ \A i \in 1..n : lastRun'[i] = lastRun[i]
      /\ lastRun'[n + 1] = 0
  BY <1>5, <1>6, Appended
<1>9. /\ runs' \in Seq(Nat) /\ Len(runs') = n + 1
      /\ \A i \in 1..n : runs'[i] = runs[i]
      /\ runs'[n + 1] = 0
  BY <1>5, <1>6, Appended
<1> HIDE DEF n
<1>10. \A i \in 1..(n + 1) : i \in 1..n \/ i = n + 1
  BY <1>7
<1>11. SchedTypeOK' /\ (Len(lastRun) = Len(systems))' /\ (Len(runs) = Len(systems))'
  BY <1>2, <1>7, <1>8, <1>9 DEF IInv, SchedTypeOK
<1>12. Phase'
  BY <1>1, <1>2 DEF IInv, Phase, Active
<1>13. InStep'
  <2>1. \A i \in 1..(n + 1) : systems'[i].delta = systems'[i].every * StepLen
    BY <1>4, <1>7, <1>10 DEF IInv, InStep
  <2> QED
    BY <1>2, <1>7, <2>1 DEF IInv, InStep
<1>14. Progress'
  <2>1. 0 \div every = 0 /\ 0 * every = 0
    BY <1>3, Z3
  <2>2. ASSUME NEW i \in 1..(n + 1)
        PROVE  lastRun'[i] = runs'[i] * systems'[i].every
               /\ (failed = None => runs'[i] = tick \div systems'[i].every)
    <3>1. CASE i = n + 1
      BY <1>1, <1>4, <1>7, <1>8, <1>9, <2>1, <3>1
    <3>2. CASE i \in 1..n
      <4>1. lastRun[i] = runs[i] * systems[i].every /\ (failed = None => RanTo(i, tick))
        BY <1>1, <1>7, <3>2 DEF IInv, Progress
      <4> QED
        BY <1>7, <1>8, <1>9, <3>2, <4>1 DEF RanTo
    <3> QED
      BY <1>10, <3>1, <3>2
  <2> QED
    BY <1>1, <1>2, <1>7, <2>2 DEF Progress, RanTo
<1>15. Commanded'
  BY <1>2 DEF IInv, Commanded, Settled
<1> QED
  BY <1>11, <1>12, <1>13, <1>14, <1>15 DEF IInv

\* Every step keeps it.
LEMMA NextIInv == IInv /\ [SchedNext]_schedVars => IInv'
<1> SUFFICES ASSUME IInv, [SchedNext]_schedVars PROVE IInv'
  OBVIOUS
<1>1. discarded \in SUBSET Op /\ queryDepth \in 0..1 /\ cancelled \in BOOLEAN
  BY InAStep DEF IInv, SchedTypeOK
<1>2. CASE \E name \in Names, every \in Intervals : Add(name, every)
  BY <1>2, KeepsAdd
<1>3. CASE StepOverflow
  BY <1>3, KeepsStepOverflow
<1>4. CASE StepBegin
  BY <1>4, KeepsStepBegin
<1>5. CASE LoopStep
  BY <1>5, KeepsStopCancelled, KeepsSkipSystem, KeepsUpdateBegin, KeepsStepFinish DEF LoopStep
<1>6. CASE Cancel
  <2>1. cancelled' \in BOOLEAN /\ queryDepth' \in 0..1
        /\ UNCHANGED <<config, clock, stepping, failed, commands, frame, pc, at, history>>
    BY <1>1, <1>6 DEF Cancel
  <2> QED
    BY <2>1, KeepsFlags
<1>7. CASE SystemDefer
  BY <1>7, KeepsSystemDefer
<1>8. CASE SystemClear
  BY <1>8, KeepsSystemClear
<1>9. CASE BeginTraversal \/ EndTraversal
  <2>1. cancelled' \in BOOLEAN /\ queryDepth' \in 0..1
        /\ UNCHANGED <<config, clock, stepping, failed, commands, frame, pc, at, history>>
    BY <1>1, <1>9 DEF BeginTraversal, EndTraversal, SetDepth
  <2> QED
    BY <2>1, KeepsFlags
<1>10. CASE SystemFlush
  BY <1>10, KeepsFlushBegin DEF SystemFlush
<1>11. CASE UserReturns
  BY <1>11, KeepsFlushBegin, KeepsUpdateReturnsEmpty, KeepsOperationNext, KeepsFlushReturns
     DEF UserReturns, UpdateReturns
<1>12. CASE UpdateFails
  BY <1>12, KeepsUpdateFails
<1>13. CASE OperationFails
  BY <1>13, KeepsOperationFails
<1>14. CASE OwnFlushAborts
  BY <1>14, KeepsOwnFlushAborts
<1>15. CASE StepPanics
  BY <1>15, KeepsStepPanics
<1>16. CASE UNCHANGED schedVars
  <2>1. cancelled' \in BOOLEAN /\ queryDepth' \in 0..1
        /\ UNCHANGED <<config, clock, stepping, failed, commands, frame, pc, at, history>>
    BY <1>1, <1>16 DEF schedVars, config, clock, history
  <2> QED
    BY <2>1, KeepsFlags
<1> QED
  BY <1>2, <1>3, <1>4, <1>5, <1>6, <1>7, <1>8, <1>9, <1>10, <1>11, <1>12, <1>13, <1>14, <1>15, <1>16
     DEF SchedNext

\* Every reachable state of a scheduler satisfies the invariant.
THEOREM SchedulerInvariant == SchedSpec => []IInv
<1>1. SchedInit => IInv
  BY InitIInv
<1>2. IInv /\ [SchedNext]_schedVars => IInv'
  BY NextIInv
<1> QED
  BY <1>1, <1>2, PTL DEF SchedSpec

-----------------------------------------------------------------------------
(* What follows from it *)

\* Simulation time and every delta stay Durations, however often the scheduler
\* steps (Add's interval check and StepContext's overflow check).
THEOREM SchedulerTypes == SchedSpec => []SchedTypeOK
<1>1. IInv => SchedTypeOK
  BY DEF IInv
<1> QED
  BY <1>1, SchedulerInvariant, PTL

\* Steps that return without a fault have run every system on exactly its
\* multiples: no error, panic or cancellation leaves half a tick behind without
\* a fault.
THEOREM SchedulerWholeTicks == SchedSpec => []NoFaultMeansWholeTicks
<1>1. IInv => NoFaultMeansWholeTicks
  BY DEF IInv, Progress, RanTo, NoFaultMeansWholeTicks
<1> QED
  BY <1>1, SchedulerInvariant, PTL

\* What a system deferred has run, in order, or was discarded, before the next
\* system's Update begins (the Flush between systems).
THEOREM SchedulerSettlesCommands == SchedSpec => []CommandsSettled
<1>1. ASSUME IInv PROVE CommandsSettled
  <2>1. ASSUME pc = "loop" \/ (pc = "idle" /\ failed = None)
        PROVE  Settled /\ commands.pending = <<>>
    <3>1. commands = EmptyBuffer
      BY <1>1, <2>1 DEF IInv, Phase
    <3>2. CASE pc = "loop"
      <4>1. Order(commands, accepted, trace, discarded, at)
        BY <1>1, <3>2, InAStep
      <4> QED
        BY <3>1, <4>1, EmptyBufferFacts, OrderSettled DEF Settled
    <3>3. CASE pc = "idle" /\ failed = None
      BY <1>1, <3>1, <3>3, EmptyBufferFacts DEF IInv, Commanded
    <3> QED
      BY <2>1, <3>2, <3>3
  <2> QED
    BY <2>1 DEF CommandsSettled, Settled, Ordered
<1>2. IInv => CommandsSettled
  BY <1>1
<1> QED
  BY <1>2, SchedulerInvariant, PTL

\* StepContext's deferred function leaves no operation, frame or flag behind.
THEOREM SchedulerLeavesNothing == SchedSpec => []StepLeavesNothing
<1>1. IInv => StepLeavesNothing
  BY DEF IInv, Phase, StepLeavesNothing
<1> QED
  BY <1>1, SchedulerInvariant, PTL

\* The Frame's Delta is the time since the system last ran, and its Time the end
\* of the tick.
THEOREM SchedulerDeltaCoversGap == SchedSpec => DeltaCoversGap
<1>1. ASSUME IInv, UpdateBegin
      PROVE  /\ frame'.delta = (tick - lastRun[at]) * StepLen
             /\ frame'.time = tick * StepLen
  <2>1. at \in 1..Len(systems) /\ pc = "loop" /\ tick \in Nat
    BY <1>1, InAStep, Registry DEF UpdateBegin, IInv, Phase
  <2>2. systems[at].every \in Nat \ {0} /\ lastRun[at] \in Nat /\ DOMAIN systems = 1..Len(systems)
    BY <1>1, <2>1, Registry
  <2>3. tick = lastRun[at] + systems[at].every
    BY <1>1, RunsOnce
  <2>4. tick - lastRun[at] = systems[at].every
    BY <2>1, <2>2, <2>3
  <2>5. frame'.delta = systems[at].every * StepLen
    BY <1>1, <2>1, <2>2 DEF UpdateBegin, IInv, InStep
  <2>6. frame'.time = tick * StepLen
    BY <1>1 DEF UpdateBegin, IInv, InStep
  <2> QED
    BY <2>4, <2>5, <2>6
<1>2. IInv /\ [SchedNext]_schedVars =>
        [UpdateBegin => /\ frame'.delta = (tick - lastRun[at]) * StepLen
                        /\ frame'.time = tick * StepLen]_schedVars
  BY <1>1
<1> QED
  BY <1>2, SchedulerInvariant, PTL DEF SchedSpec, DeltaCoversGap
=============================================================================
