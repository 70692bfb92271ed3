----------------------------- MODULE EventsProofs -----------------------------
(***************************************************************************)
(* Proofs about Events.tla: ring buffers of any capacities, in a topic of  *)
(* any number of subscriptions, implement the bounded broadcast of         *)
(* Broadcast.tla, and keep no reference to a consumed event.               *)
(***************************************************************************)
EXTENDS Events, SequenceTheorems, TLAPS

\* One ring of c slots, of which the n from h on hold events and no other does.
\* A subscription that is not open has no slots.
Ring(c, h, n, q) ==
  /\ c \in Nat /\ h \in Nat /\ n \in 0..c
  /\ IF c = 0 THEN h = 0 ELSE h < c
  /\ q \in [Slots(c) -> EventValues \cup {Zero}]
  /\ \A i \in Slots(c) : q[i] # Zero => \E k \in 0..(n - 1) : i = (h + k) % c

\* The events such a ring holds, oldest first.
Window(c, h, n, q) == [i \in 1..n |-> q[(h + i - 1) % c]]

\* Append and Tail under names that stay folded where only equality matters.
With(w, e) == Append(w, e)
Rest(w) == Tail(w)

\* The window that Next leaves.
Shrunk(c, h, n, q) == Window(c, (h + 1) % c, n - 1, [q EXCEPT ![h] = Zero])

IInv ==
  /\ topic \in Seq(Subs) /\ TopicListsOpen
  /\ joined \subseteq Subs /\ open \subseteq joined /\ published \in 0..MaxPublished
  /\ cap \in [Subs -> Nat] /\ head \in [Subs -> Nat] /\ size \in [Subs -> Nat]
  /\ queue = [s \in Subs |-> queue[s]]
  /\ \A s \in Subs : /\ s \in open <=> cap[s] # 0
                    /\ Ring(cap[s], head[s], size[s], queue[s])

-----------------------------------------------------------------------------
(* Positions in a ring, and the topic's list *)

\* A position less than twice around wraps at most once.
LEMMA Wrap ==
  ASSUME NEW c \in Nat \ {0}, NEW h \in 0..(c - 1), NEW i \in 0..c
  PROVE  (h + i) % c = IF h + i < c THEN h + i ELSE h + i - c
<1>1. CASE h + i < c
  BY <1>1, Z3
<1>2. CASE h + i >= c
  BY <1>2, Z3
<1> QED
  BY <1>1, <1>2

\* Two positions of one window are different slots, but for the window's two ends.
LEMMA WindowInjective ==
  ASSUME NEW c \in Nat \ {0}, NEW h \in 0..(c - 1), NEW i \in 0..c, NEW j \in 0..(c - 1), i # j,
         (h + i) % c = (h + j) % c
  PROVE  i = c /\ j = 0
<1>1. (h + i) % c = IF h + i < c THEN h + i ELSE h + i - c
  BY ONLY Wrap, c \in Nat \ {0}, h \in 0..(c - 1), i \in 0..c, Zenon
<1>2. (h + j) % c = IF h + j < c THEN h + j ELSE h + j - c
  <2>1. j \in 0..c
    OBVIOUS
  <2> QED
    BY ONLY <2>1, Wrap, c \in Nat \ {0}, h \in 0..(c - 1), Zenon
<1>4. (IF h + i < c THEN h + i ELSE h + i - c) = (IF h + j < c THEN h + j ELSE h + j - c)
  BY ONLY <1>1, <1>2, (h + i) % c = (h + j) % c, Zenon
<1> QED
  BY ONLY <1>4, c \in Nat \ {0}, h \in 0..(c - 1), i \in 0..c, j \in 0..(c - 1), i # j

\* Close: the last element takes the place of the i-th.
LEMMA SwapRemovedSound ==
  ASSUME NEW S, NEW subs \in Seq(S), IsInjective(subs), NEW i \in DOMAIN subs
  PROVE  /\ SwapRemoved(subs, i) \in Seq(S)
         /\ IsInjective(SwapRemoved(subs, i))
         /\ ToSet(SwapRemoved(subs, i)) = ToSet(subs) \ {subs[i]}
<1> DEFINE n == Len(subs)
           moved == [subs EXCEPT ![i] = Last(subs)]
           left == SwapRemoved(subs, i)
<1>1. n \in Nat \ {0} /\ i \in 1..n /\ DOMAIN subs = 1..n
  OBVIOUS
<1>2. moved \in Seq(S) /\ Len(moved) = n
  BY <1>1 DEF Last
<1>3. /\ left \in Seq(S) /\ Len(left) = n - 1
      /\ \A j \in 1..(n - 1) : left[j] = moved[j]
  BY <1>1, <1>2 DEF SwapRemoved, Front
<1>4. \A j \in 1..(n - 1) : left[j] = IF j = i THEN subs[n] ELSE subs[j]
  BY <1>1, <1>3 DEF Last
<1>5. DOMAIN left = 1..(n - 1)
  BY <1>1, <1>3
<1> HIDE DEF n, moved, left
<1>6. IsInjective(left)
  BY <1>1, <1>4, <1>5 DEF IsInjective
<1>7. ASSUME NEW x PROVE x \in ToSet(left) <=> x \in ToSet(subs) /\ x # subs[i]
  <2>1. x \in ToSet(left) => x \in ToSet(subs) /\ x # subs[i]
    BY <1>1, <1>4, <1>5 DEF IsInjective, ToSet
  <2>2. ASSUME x \in ToSet(subs), x # subs[i] PROVE x \in ToSet(left)
    <3>1. PICK j \in 1..n : x = subs[j]
      BY <1>1, <2>2 DEF ToSet
    <3>2. j # i
      BY <3>1, <2>2
    <3>3. CASE j = n
      BY <1>1, <1>4, <1>5, <3>1, <3>2, <3>3 DEF ToSet
    <3>4. CASE j # n
      <4>1. j \in 1..(n - 1)
        BY ONLY <1>1, j \in 1..n, <3>4
      <4>2. left[j] = x
        BY <4>1, <1>4, <3>1, <3>2
      <4> QED
        BY <1>5, <4>1, <4>2 DEF ToSet
    <3> QED
      BY <3>3, <3>4
  <2> QED
    BY <2>1, <2>2
<1> QED
  BY <1>3, <1>6, <1>7 DEF left

-----------------------------------------------------------------------------
(* One ring *)

LEMMA RingClosed ==
  Ring(0, 0, 0, NoQueue)
<1>1. Slots(0) = {}
  BY DEF Slots
<1>2. NoQueue \in [{} -> EventValues \cup {Zero}]
  BY DEF NoQueue
<1> QED
  BY <1>1, <1>2 DEF Ring

LEMMA RingFresh ==
  ASSUME NEW c \in Nat \ {0} PROVE Ring(c, 0, 0, [i \in Slots(c) |-> Zero])
BY DEF Ring

LEMMA RingTypes ==
  ASSUME NEW c, NEW h, NEW n, NEW q, Ring(c, h, n, q)
  PROVE  /\ c \in Nat /\ h \in Nat /\ n \in 0..c
         /\ q \in [Slots(c) -> EventValues \cup {Zero}]
         /\ c = 0 => h = 0
         /\ c # 0 => h \in 0..(c - 1)
BY DEF Ring

\* Publish: the new event goes behind the window.
LEMMA RingPublish ==
  ASSUME NEW c, NEW h, NEW n, NEW q, Ring(c, h, n, q), c # 0, n # c, NEW e \in EventValues
  PROVE  /\ Ring(c, h, n + 1, [q EXCEPT ![(h + n) % c] = e])
         /\ Window(c, h, n + 1, [q EXCEPT ![(h + n) % c] = e]) = With(Window(c, h, n, q), e)
<1> DEFINE new == [q EXCEPT ![(h + n) % c] = e]
           slot == (h + n) % c
<1>1. c \in Nat \ {0} /\ h \in 0..(c - 1) /\ n \in 0..(c - 1) /\ n \in 0..c
  BY RingTypes
<1>2. slot \in 0..(c - 1)
  <2>1. slot = IF h + n < c THEN h + n ELSE h + n - c
    BY ONLY <1>1, Wrap
  <2> HIDE DEF slot
  <2> QED
    BY <1>1, <2>1
<1>3. q \in [Slots(c) -> EventValues \cup {Zero}] /\ slot \in Slots(c)
  BY <1>2, RingTypes DEF Slots
<1>4. /\ new \in [Slots(c) -> EventValues \cup {Zero}] /\ new[slot] = e
      /\ \A i \in Slots(c) : i # slot => new[i] = q[i]
  BY <1>3
<1>5. ASSUME NEW i \in Slots(c), new[i] # Zero PROVE \E k \in 0..n : i = (h + k) % c
  <2>1. CASE i = slot
    BY <1>1, <2>1
  <2>2. CASE i # slot
    <3>1. q[i] # Zero
      BY <1>4, <1>5, <2>2
    <3>2. PICK k \in 0..(n - 1) : i = (h + k) % c
      BY <3>1 DEF Ring
    <3>3. k \in 0..n
      BY <1>1
    <3> QED
      BY <3>2, <3>3
  <2> QED
    BY <2>1, <2>2
<1>6. Ring(c, h, n + 1, new)
  <2>1. (n + 1) - 1 = n /\ n + 1 \in 0..c
    BY <1>1
  <2> HIDE DEF new
  <2> QED
    BY <1>1, <1>4, <1>5, <2>1 DEF Ring
<1>7. ASSUME NEW j \in 0..(n - 1) PROVE (h + j) % c \in Slots(c) /\ (h + j) % c # slot
  <2>1. j \in 0..(c - 1) /\ j \in 0..c /\ j # n
    BY <1>1
  <2>2. (h + j) % c = IF h + j < c THEN h + j ELSE h + j - c
    BY ONLY <1>1, <2>1, Wrap
  <2>3. (h + j) % c \in Slots(c)
    BY <1>1, <2>1, <2>2 DEF Slots
  <2>4. ASSUME (h + n) % c = (h + j) % c PROVE FALSE
    <3>1. n = c
      BY ONLY <1>1, <2>1, <2>4, WindowInjective
    <3> QED
      BY <3>1
  <2> QED
    BY <2>3, <2>4
<1>8. Window(c, h, n + 1, new) = With(Window(c, h, n, q), e)
  <2> DEFINE old == Window(c, h, n, q)
             win == Window(c, h, n + 1, new)
  <2>1. old \in Seq(EventValues \cup {Zero}) /\ Len(old) = n
    <3>1. \A i \in 1..n : q[(h + i - 1) % c] \in EventValues \cup {Zero}
      <4>1. ASSUME NEW i \in 1..n PROVE q[(h + i - 1) % c] \in EventValues \cup {Zero}
        <5>1. i - 1 \in 0..(n - 1) /\ h + i - 1 = h + (i - 1)
          BY <1>1
        <5>2. (h + (i - 1)) % c \in Slots(c)
          BY <1>7, <5>1
        <5> QED
          BY <1>3, <5>1, <5>2
      <4> QED
        BY <4>1
    <3>2. old \in [1..n -> EventValues \cup {Zero}]
      BY <3>1 DEF Window
    <3> QED
      BY <1>1, <3>2, LenProperties
  <2>2. /\ Append(old, e) \in Seq(EventValues \cup {Zero}) /\ Len(Append(old, e)) = n + 1
        /\ \A i \in 1..n : Append(old, e)[i] = old[i]
        /\ Append(old, e)[n + 1] = e
    BY <2>1, AppendProperties
  <2>3. ASSUME NEW i \in 1..(n + 1) PROVE win[i] = Append(old, e)[i]
    <3>1. i \in Nat /\ h + i - 1 = h + (i - 1) /\ win[i] = new[(h + (i - 1)) % c]
      BY <1>1 DEF Window
    <3>2. CASE i = n + 1
      <4>1. i - 1 = n
        BY <1>1, <3>2
      <4> QED
        BY <1>4, <2>2, <3>1, <3>2, <4>1
    <3>3. CASE i # n + 1
      <4>1. i \in 1..n /\ i - 1 \in 0..(n - 1)
        BY <1>1, <3>3
      <4>2. old[i] = q[(h + (i - 1)) % c]
        BY <3>1, <4>1 DEF Window
      <4>3. new[(h + (i - 1)) % c] = q[(h + (i - 1)) % c]
        BY <1>4, <1>7, <4>1
      <4> QED
        BY <2>2, <3>1, <4>1, <4>2, <4>3
    <3> QED
      BY <3>2, <3>3
  <2>4. DOMAIN win = 1..(n + 1) /\ win = [i \in 1..(n + 1) |-> win[i]]
    BY DEF Window
  <2> DEFINE longer == Append(old, e)
  <2>5. longer \in Seq(EventValues \cup {Zero}) /\ Len(longer) = n + 1
    BY <2>2
  <2> HIDE DEF old, win, longer
  <2>6. DOMAIN longer = 1..(n + 1) /\ longer = [i \in 1..(n + 1) |-> longer[i]]
    BY <2>5, LenProperties
  <2>7. win = longer
    BY <2>3, <2>4, <2>6 DEF longer
  <2> QED
    BY <2>7 DEF old, win, longer, With
<1> QED
  BY <1>6, <1>8

\* Next: the window loses its first slot.
LEMMA RingNext ==
  ASSUME NEW c, NEW h, NEW n, NEW q, Ring(c, h, n, q), n # 0
  PROVE  /\ Ring(c, (h + 1) % c, n - 1, [q EXCEPT ![h] = Zero])
         /\ Shrunk(c, h, n, q) = Rest(Window(c, h, n, q))
<1> DEFINE new == [q EXCEPT ![h] = Zero]
           next == (h + 1) % c
<1>1. c \in Nat \ {0} /\ h \in 0..(c - 1) /\ n \in 1..c
  BY RingTypes
<1>2. next \in 0..(c - 1) /\ next = IF h + 1 < c THEN h + 1 ELSE h + 1 - c
  <2>1. next = IF h + 1 < c THEN h + 1 ELSE h + 1 - c
    <3>1. 1 \in 0..c
      BY <1>1
    <3> QED
      BY ONLY <1>1, <3>1, Wrap
  <2> HIDE DEF next
  <2> QED
    BY <1>1, <2>1
<1>3. q \in [Slots(c) -> EventValues \cup {Zero}] /\ h \in Slots(c)
  BY <1>1, RingTypes DEF Slots
<1>4. /\ new \in [Slots(c) -> EventValues \cup {Zero}] /\ new[h] = Zero
      /\ \A i \in Slots(c) : i # h => new[i] = q[i]
  BY <1>3
\* The k-th slot from next on is the (k+1)-st from h on.
<1>5. ASSUME NEW k \in 0..(c - 1) PROVE (next + k) % c = (h + (k + 1)) % c
  <2>1. k \in 0..c /\ k + 1 \in 0..c
    BY <1>1
  <2>2. (h + (k + 1)) % c = IF h + (k + 1) < c THEN h + (k + 1) ELSE h + (k + 1) - c
    BY ONLY <1>1, <2>1, Wrap
  <2> HIDE DEF next
  <2>3. (next + k) % c = IF next + k < c THEN next + k ELSE next + k - c
    BY ONLY <1>1, <1>2, <2>1, Wrap
  <2>4. (IF next + k < c THEN next + k ELSE next + k - c)
          = (IF h + (k + 1) < c THEN h + (k + 1) ELSE h + (k + 1) - c)
    BY ONLY <1>1, <1>2, k \in 0..(c - 1)
  <2> QED
    BY ONLY <2>2, <2>3, <2>4
<1> HIDE DEF next
<1>6. ASSUME NEW i \in Slots(c), new[i] # Zero PROVE \E k \in 0..(n - 2) : i = (next + k) % c
  <2>1. i # h /\ q[i] # Zero
    BY <1>4, <1>6
  <2>2. PICK k \in 0..(n - 1) : i = (h + k) % c
    BY <2>1 DEF Ring
  <2>3. k # 0
    <3>1. SUFFICES ASSUME k = 0 PROVE FALSE
      OBVIOUS
    <3>2. 0 \in 0..c
      BY <1>1
    <3>3. (h + 0) % c = IF h + 0 < c THEN h + 0 ELSE h + 0 - c
      BY ONLY <1>1, <3>2, Wrap
    <3> QED
      BY <1>1, <2>1, <2>2, <3>1, <3>3
  <2>4. k - 1 \in 0..(n - 2) /\ k - 1 \in 0..(c - 1) /\ (k - 1) + 1 = k
    BY <1>1, <2>3
  <2>5. (next + (k - 1)) % c = (h + k) % c
    BY <1>5, <2>4
  <2> QED
    BY <2>2, <2>4, <2>5
<1>7. Ring(c, next, n - 1, new)
  <2>1. (n - 1) - 1 = n - 2 /\ n - 1 \in 0..c
    BY <1>1
  <2> HIDE DEF new
  <2> QED
    BY <1>1, <1>2, <1>4, <1>6, <2>1 DEF Ring
<1> DEFINE old == Window(c, h, n, q)
           win == Window(c, next, n - 1, new)
<1>8. old \in Seq(EventValues \cup {Zero}) /\ Len(old) = n
  <2>1. ASSUME NEW i \in 1..n PROVE q[(h + i - 1) % c] \in EventValues \cup {Zero}
    <3>1. i - 1 \in 0..c /\ h + i - 1 = h + (i - 1)
      BY <1>1
    <3>2. (h + (i - 1)) % c = IF h + (i - 1) < c THEN h + (i - 1) ELSE h + (i - 1) - c
      BY ONLY <1>1, <3>1, Wrap
    <3>3. (h + (i - 1)) % c \in Slots(c)
      BY <1>1, <3>1, <3>2 DEF Slots
    <3> QED
      BY <1>3, <3>1, <3>3
  <2>2. old \in [1..n -> EventValues \cup {Zero}]
    BY <2>1 DEF Window
  <2> QED
    BY <1>1, <2>2, LenProperties
<1>9. ASSUME NEW i \in 1..(n - 1) PROVE win[i] = old[i + 1]
  <2>1. /\ i - 1 \in 0..(c - 1) /\ i + 1 \in 1..n /\ next + i - 1 = next + (i - 1)
        /\ h + (i + 1) - 1 = h + ((i - 1) + 1) /\ (i - 1) + 1 = i /\ i \in 0..(c - 1)
    BY <1>1, <1>2
  <2>2. win[i] = new[(next + (i - 1)) % c] /\ old[i + 1] = q[(h + i) % c]
    BY <2>1 DEF Window
  <2>3. (next + (i - 1)) % c = (h + i) % c
    BY <1>5, <2>1
  <2>4. (h + i) % c \in Slots(c) /\ (h + i) % c # h
    <3>1. i \in 0..c /\ 0 \in 0..(c - 1) /\ i # 0 /\ i # c
      BY <1>1
    <3>2. (h + i) % c = IF h + i < c THEN h + i ELSE h + i - c
      BY ONLY <1>1, <3>1, Wrap
    <3> QED
      BY <1>1, <3>1, <3>2 DEF Slots
  <2> QED
    BY <1>4, <2>2, <2>3, <2>4
<1>10. win = Rest(old)
  <2>1. win = [i \in 1..(n - 1) |-> win[i]]
    BY DEF Window
  <2> HIDE DEF old, win
  <2>2. old # <<>>
    BY <1>1, <1>8
  <2> DEFINE rest == Tail(old)
  <2>3. /\ rest \in Seq(EventValues \cup {Zero}) /\ Len(rest) = n - 1
        /\ \A i \in 1..(n - 1) : rest[i] = old[i + 1]
    BY <1>8, <2>2, HeadTailProperties
  <2> HIDE DEF rest
  <2>4. DOMAIN rest = 1..(n - 1) /\ rest = [i \in 1..(n - 1) |-> rest[i]]
    BY <2>3, LenProperties
  <2>5. win = rest
    BY <1>9, <2>1, <2>3, <2>4
  <2> QED
    BY <2>5 DEF rest, Rest
<1> QED
  BY <1>7, <1>10 DEF next, Shrunk

-----------------------------------------------------------------------------
(* The inductive invariant *)

LEMMA RingFacts ==
  ASSUME IInv, NEW s \in Subs
  PROVE  /\ Ring(cap[s], head[s], size[s], queue[s])
         /\ cap[s] \in Nat /\ head[s] \in Nat /\ size[s] \in 0..cap[s]
         /\ s \in open <=> cap[s] # 0
         /\ s \in ToSet(topic) <=> s \in open
<1>1. Ring(cap[s], head[s], size[s], queue[s]) /\ (s \in open <=> cap[s] # 0)
  BY DEF IInv
<1>2. cap[s] \in Nat /\ head[s] \in Nat /\ size[s] \in 0..cap[s]
  BY <1>1, RingTypes
<1>3. ToSet(topic) = open
  BY DEF IInv, TopicListsOpen
<1> QED
  BY <1>1, <1>2, <1>3

LEMMA InitIInv ==
  ASSUME EventsInit PROVE IInv
<1>1. /\ topic = <<>> /\ joined = {} /\ open = {} /\ published = 0
      /\ \A s \in Subs : cap[s] = 0 /\ queue[s] = NoQueue /\ head[s] = 0 /\ size[s] = 0
      /\ cap \in [Subs -> Nat] /\ head \in [Subs -> Nat] /\ size \in [Subs -> Nat]
      /\ queue = [s \in Subs |-> queue[s]]
  BY DEF EventsInit
<1>2. TopicListsOpen
  BY <1>1 DEF TopicListsOpen, IsInjective, ToSet
<1>3. \A s \in Subs : Ring(cap[s], head[s], size[s], queue[s])
  BY <1>1, RingClosed
<1> QED
  BY <1>1, <1>2, <1>3, EventsAssumption DEF IInv

\* What Subscribe does to the new subscription and to the others.
LEMMA SubscribeEffect ==
  ASSUME IInv, NEW s \in Subs, NEW c \in Offered, Subscribe(s, c)
  PROVE  /\ s \notin open /\ Capacity(c) \in Nat \ {0} /\ c >= 0
         /\ open' = open \cup {s}
         /\ cap[s] = 0 /\ head[s] = 0 /\ size[s] = 0
         /\ cap' \in [Subs -> Nat] /\ queue' = [x \in Subs |-> queue'[x]]
         /\ head' = head /\ size' = size
         /\ cap'[s] = Capacity(c) /\ queue'[s] = [i \in Slots(Capacity(c)) |-> Zero]
         /\ \A x \in Subs : x # s => cap'[x] = cap[x] /\ queue'[x] = queue[x]
<1>1. Capacity(c) \in Nat \ {0} /\ c >= 0
  BY EventsAssumption DEF Subscribe, Capacity
<1>2. s \notin open
  BY DEF Subscribe, IInv
<1>3. cap[s] = 0
  BY <1>2, RingFacts
<1>4. head[s] = 0 /\ size[s] = 0
  <2>1. Ring(0, head[s], size[s], queue[s])
    BY <1>3, RingFacts
  <2> QED
    BY <2>1, RingTypes
<1>5. cap \in [Subs -> Nat] /\ queue = [x \in Subs |-> queue[x]]
  BY DEF IInv
<1>6. /\ cap' = [cap EXCEPT ![s] = Capacity(c)]
      /\ queue' = [queue EXCEPT ![s] = [i \in Slots(Capacity(c)) |-> Zero]]
      /\ open' = open \cup {s} /\ head' = head /\ size' = size
  BY DEF Subscribe
<1>7. /\ cap' \in [Subs -> Nat] /\ cap'[s] = Capacity(c)
      /\ \A x \in Subs : x # s => cap'[x] = cap[x]
  BY <1>1, <1>5, <1>6
<1>8. /\ queue' = [x \in Subs |-> queue'[x]] /\ queue'[s] = [i \in Slots(Capacity(c)) |-> Zero]
      /\ \A x \in Subs : x # s => queue'[x] = queue[x]
  BY <1>5, <1>6
<1> QED
  BY <1>1, <1>2, <1>3, <1>4, <1>6, <1>7, <1>8

LEMMA SubscribeKeeps ==
  ASSUME IInv, NEW s \in Subs, NEW c \in Offered, Subscribe(s, c) PROVE IInv'
<1>1. /\ topic \in Seq(Subs) /\ IsInjective(topic) /\ ToSet(topic) = open
      /\ joined \subseteq Subs /\ open \subseteq joined /\ published \in 0..MaxPublished
      /\ head \in [Subs -> Nat] /\ size \in [Subs -> Nat]
  BY DEF IInv, TopicListsOpen
<1>2. topic' = Append(topic, s) /\ joined' = joined \cup {s} /\ published' = published
  BY DEF Subscribe
<1>3. s \notin open /\ open' = open \cup {s}
  BY SubscribeEffect
<1>4. topic' \in Seq(Subs) /\ TopicListsOpen'
  <2> DEFINE n == Len(topic)
             longer == Append(topic, s)
  <2>1. n \in Nat /\ DOMAIN topic = 1..n
    BY <1>1
  <2>2. /\ longer \in Seq(Subs) /\ DOMAIN longer = 1..(n + 1) /\ longer[n + 1] = s
        /\ \A i \in 1..n : longer[i] = topic[i]
    BY <1>1
  <2> HIDE DEF n, longer
  <2>3. ASSUME NEW i \in DOMAIN longer, NEW j \in DOMAIN longer, longer[i] = longer[j] PROVE i = j
    <3>1. \A k \in 1..n : topic[k] # s
      BY <1>1, <1>3, <2>1 DEF ToSet
    <3>2. (i \in 1..n \/ i = n + 1) /\ (j \in 1..n \/ j = n + 1)
      BY <2>1, <2>2
    <3>3. i \in 1..n /\ j \in 1..n => topic[i] = topic[j]
      BY <2>2, <2>3
    <3> QED
      BY <1>1, <2>1, <2>2, <2>3, <3>1, <3>2, <3>3 DEF IsInjective
  <2>4. ASSUME NEW x PROVE x \in ToSet(longer) <=> x \in ToSet(topic) \/ x = s
    BY <2>1, <2>2 DEF ToSet
  <2> QED
    BY <1>1, <1>2, <1>3, <2>2, <2>3, <2>4 DEF TopicListsOpen, IsInjective, longer
<1>5. ASSUME NEW x \in Subs
      PROVE  (x \in open' <=> cap'[x] # 0) /\ Ring(cap'[x], head'[x], size'[x], queue'[x])
  <2>1. CASE x = s
    <3>1. Ring(Capacity(c), 0, 0, [i \in Slots(Capacity(c)) |-> Zero])
      BY SubscribeEffect, RingFresh
    <3>2. /\ cap'[x] = Capacity(c) /\ head'[x] = 0 /\ size'[x] = 0
          /\ queue'[x] = [i \in Slots(Capacity(c)) |-> Zero] /\ Capacity(c) # 0
      BY <2>1, SubscribeEffect
    <3> QED
      BY <1>3, <2>1, <3>1, <3>2
  <2>2. CASE x # s
    <3>1. cap'[x] = cap[x] /\ head'[x] = head[x] /\ size'[x] = size[x] /\ queue'[x] = queue[x]
      BY <2>2, SubscribeEffect
    <3> QED
      BY <1>3, <2>2, <3>1, RingFacts
  <2> QED
    BY <2>1, <2>2
<1> QED
  BY <1>1, <1>2, <1>3, <1>4, <1>5, SubscribeEffect DEF IInv

LEMMA PublishEffect ==
  ASSUME IInv, NEW e \in EventValues, Publish(e)
  PROVE  /\ queue' = [s \in Subs |-> queue'[s]] /\ size' = [s \in Subs |-> size'[s]]
         /\ cap' = cap /\ head' = head /\ open' = open
         /\ \A s \in Subs : s \in open =>
              /\ size[s] # cap[s] /\ size'[s] = size[s] + 1
              /\ queue'[s] = [queue[s] EXCEPT ![(head[s] + size[s]) % cap[s]] = e]
         /\ \A s \in Subs : s \notin open => size'[s] = size[s] /\ queue'[s] = queue[s]
<1>1. ToSet(topic) = open /\ open \subseteq Subs
  BY DEF IInv, TopicListsOpen
<1>2. /\ \A s \in open : size[s] # cap[s]
      /\ queue' = [s \in Subs |->
                     IF s \in open
                     THEN [queue[s] EXCEPT ![(head[s] + size[s]) % cap[s]] = e]
                     ELSE queue[s]]
      /\ size' = [s \in Subs |-> IF s \in open THEN size[s] + 1 ELSE size[s]]
      /\ cap' = cap /\ head' = head /\ open' = open
  BY <1>1 DEF Publish, Full
<1> QED
  BY <1>2, Zenon

LEMMA PublishKeeps ==
  ASSUME IInv, NEW e \in EventValues, Publish(e) PROVE IInv'
<1>1. ASSUME NEW s \in Subs
      PROVE  /\ s \in open' <=> cap'[s] # 0
             /\ Ring(cap'[s], head'[s], size'[s], queue'[s])
             /\ size'[s] \in Nat
  <2>1. CASE s \in open
    <3>1. Ring(cap[s], head[s], size[s], queue[s]) /\ cap[s] # 0 /\ size[s] # cap[s]
      BY <2>1, RingFacts, PublishEffect
    <3>2. Ring(cap[s], head[s], size[s] + 1, [queue[s] EXCEPT ![(head[s] + size[s]) % cap[s]] = e])
      BY ONLY <3>1, e \in EventValues, RingPublish, ZenonT(30)
    <3>3. Ring(cap'[s], head'[s], size'[s], queue'[s])
      BY <2>1, <3>2, PublishEffect, Zenon
    <3>4. size'[s] \in Nat
      BY <3>3, RingTypes
    <3> QED
      BY <2>1, <3>1, <3>3, <3>4, PublishEffect
  <2>2. CASE s \notin open
    BY <2>2, RingFacts, PublishEffect
  <2> QED
    BY <2>1, <2>2
<1>2. /\ topic' = topic /\ joined' = joined /\ open' = open /\ cap' = cap /\ head' = head
      /\ published' = published + 1 /\ published < MaxPublished
  BY DEF Publish
<1>3. size' \in [Subs -> Nat] /\ queue' = [s \in Subs |-> queue'[s]]
  BY <1>1, PublishEffect
<1>4. published' \in 0..MaxPublished
  BY <1>2, EventsAssumption DEF IInv
<1>5. TopicListsOpen'
  BY <1>2 DEF IInv, TopicListsOpen
<1> QED
  BY <1>1, <1>2, <1>3, <1>4, <1>5 DEF IInv

LEMMA NextEffect ==
  ASSUME IInv, NEW s \in Subs, Next(s)
  PROVE  /\ cap' = cap /\ open' = open
         /\ queue' = [x \in Subs |-> queue'[x]] /\ size[s] # 0
         /\ queue'[s] = [queue[s] EXCEPT ![head[s]] = Zero]
         /\ head'[s] = (head[s] + 1) % cap[s] /\ size'[s] = size[s] - 1
         /\ \A x \in Subs : x # s => queue'[x] = queue[x] /\ head'[x] = head[x] /\ size'[x] = size[x]
         /\ head' = [x \in Subs |-> head'[x]] /\ size' = [x \in Subs |-> size'[x]]
<1>1. /\ head \in [Subs -> Nat] /\ size \in [Subs -> Nat] /\ queue = [x \in Subs |-> queue[x]]
  BY DEF IInv
<1>2. /\ queue' = [queue EXCEPT ![s] = [queue[s] EXCEPT ![head[s]] = Zero]]
      /\ head' = [head EXCEPT ![s] = (head[s] + 1) % cap[s]]
      /\ size' = [size EXCEPT ![s] = size[s] - 1]
      /\ size[s] # 0 /\ cap' = cap /\ open' = open
  BY DEF Next
<1>3. /\ queue' = [x \in Subs |-> queue'[x]] /\ queue'[s] = [queue[s] EXCEPT ![head[s]] = Zero]
      /\ \A x \in Subs : x # s => queue'[x] = queue[x]
  BY <1>1, <1>2, Zenon
<1>4. /\ head' = [x \in Subs |-> head'[x]] /\ head'[s] = (head[s] + 1) % cap[s]
      /\ \A x \in Subs : x # s => head'[x] = head[x]
  BY <1>1, <1>2
<1>5. /\ size' = [x \in Subs |-> size'[x]] /\ size'[s] = size[s] - 1
      /\ \A x \in Subs : x # s => size'[x] = size[x]
  BY <1>1, <1>2
<1> QED
  BY <1>2, <1>3, <1>4, <1>5

LEMMA NextKeeps ==
  ASSUME IInv, NEW s \in Subs, Next(s) PROVE IInv'
<1>1. ASSUME NEW x \in Subs
      PROVE  /\ x \in open' <=> cap'[x] # 0
             /\ Ring(cap'[x], head'[x], size'[x], queue'[x])
             /\ head'[x] \in Nat /\ size'[x] \in Nat
  <2>1. Ring(cap'[x], head'[x], size'[x], queue'[x])
    <3>1. CASE x = s
      <4>1. Ring(cap[s], head[s], size[s], queue[s]) /\ size[s] # 0
        BY RingFacts, NextEffect
      <4>2. Ring(cap[s], (head[s] + 1) % cap[s], size[s] - 1, [queue[s] EXCEPT ![head[s]] = Zero])
        BY ONLY <4>1, RingNext
      <4> QED
        BY <3>1, <4>2, NextEffect, Zenon
    <3>2. CASE x # s
      BY <3>2, RingFacts, NextEffect
    <3> QED
      BY <3>1, <3>2
  <2>2. head'[x] \in Nat /\ size'[x] \in Nat
    BY <2>1, RingTypes
  <2>3. cap' = cap /\ open' = open
    BY NextEffect
  <2> QED
    BY <2>1, <2>2, <2>3, RingFacts
<1>2. topic' = topic /\ joined' = joined /\ open' = open /\ cap' = cap /\ published' = published
  BY DEF Next
<1>3. head' \in [Subs -> Nat] /\ size' \in [Subs -> Nat] /\ queue' = [x \in Subs |-> queue'[x]]
  BY <1>1, NextEffect
<1>4. TopicListsOpen'
  BY <1>2 DEF IInv, TopicListsOpen
<1> QED
  BY <1>1, <1>2, <1>3, <1>4 DEF IInv

LEMMA CloseEffect ==
  ASSUME IInv, NEW s \in Subs, Close(s)
  PROVE  /\ s \in open /\ open' = open \ {s}
         /\ cap' = [x \in Subs |-> cap'[x]] /\ queue' = [x \in Subs |-> queue'[x]]
         /\ head' = [x \in Subs |-> head'[x]] /\ size' = [x \in Subs |-> size'[x]]
         /\ cap'[s] = 0 /\ head'[s] = 0 /\ size'[s] = 0 /\ queue'[s] = NoQueue
         /\ \A x \in Subs : x # s => /\ cap'[x] = cap[x] /\ head'[x] = head[x]
                                    /\ size'[x] = size[x] /\ queue'[x] = queue[x]
<1>1. /\ cap \in [Subs -> Nat] /\ head \in [Subs -> Nat] /\ size \in [Subs -> Nat]
      /\ queue = [x \in Subs |-> queue[x]]
  BY DEF IInv
<1>2. /\ cap' = [cap EXCEPT ![s] = 0] /\ head' = [head EXCEPT ![s] = 0] /\ size' = [size EXCEPT ![s] = 0]
      /\ queue' = [queue EXCEPT ![s] = NoQueue] /\ s \in open /\ open' = open \ {s}
  BY DEF Close
<1>3. queue' = [x \in Subs |-> queue'[x]] /\ queue'[s] = NoQueue /\ \A x \in Subs : x # s => queue'[x] = queue[x]
  BY <1>1, <1>2, Zenon
<1>4. /\ cap' = [x \in Subs |-> cap'[x]] /\ head' = [x \in Subs |-> head'[x]] /\ size' = [x \in Subs |-> size'[x]]
      /\ cap'[s] = 0 /\ head'[s] = 0 /\ size'[s] = 0
      /\ \A x \in Subs : x # s => cap'[x] = cap[x] /\ head'[x] = head[x] /\ size'[x] = size[x]
  BY <1>1, <1>2
<1> QED
  BY <1>2, <1>3, <1>4

LEMMA CloseKeeps ==
  ASSUME IInv, NEW s \in Subs, Close(s) PROVE IInv'
<1>1. ASSUME NEW x \in Subs
      PROVE  /\ x \in open' <=> cap'[x] # 0
             /\ Ring(cap'[x], head'[x], size'[x], queue'[x])
             /\ cap'[x] \in Nat /\ head'[x] \in Nat /\ size'[x] \in Nat
  <2>1. Ring(cap'[x], head'[x], size'[x], queue'[x])
    <3>1. CASE x = s
      BY <3>1, RingClosed, CloseEffect
    <3>2. CASE x # s
      BY <3>2, RingFacts, CloseEffect
    <3> QED
      BY <3>1, <3>2
  <2>2. cap'[x] \in Nat /\ head'[x] \in Nat /\ size'[x] \in Nat
    BY <2>1, RingTypes
  <2>3. x \in open' <=> cap'[x] # 0
    BY RingFacts, CloseEffect
  <2> QED
    BY <2>1, <2>2, <2>3
<1>2. /\ cap' \in [Subs -> Nat] /\ head' \in [Subs -> Nat] /\ size' \in [Subs -> Nat]
      /\ queue' = [x \in Subs |-> queue'[x]]
  BY <1>1, CloseEffect
<1>3. /\ topic \in Seq(Subs) /\ IsInjective(topic) /\ ToSet(topic) = open
      /\ joined \subseteq Subs /\ open \subseteq joined /\ published \in 0..MaxPublished
  BY DEF IInv, TopicListsOpen
<1>4. topic' \in Seq(Subs) /\ TopicListsOpen'
  <2> DEFINE i == CHOOSE i \in DOMAIN topic : topic[i] = s
  <2>1. s \in ToSet(topic)
    BY <1>3, CloseEffect
  <2>2. i \in DOMAIN topic /\ topic[i] = s
    BY <2>1 DEF ToSet
  <2>3. topic' = SwapRemoved(topic, i)
    BY <2>1 DEF Close
  <2> HIDE DEF i
  <2>4. topic' \in Seq(Subs) /\ IsInjective(topic') /\ ToSet(topic') = ToSet(topic) \ {s}
    BY <1>3, <2>2, <2>3, SwapRemovedSound
  <2> QED
    BY <1>3, <2>4, CloseEffect DEF TopicListsOpen
<1>5. joined' = joined /\ published' = published /\ open' = open \ {s}
  BY DEF Close
<1> QED
  BY <1>1, <1>2, <1>3, <1>4, <1>5 DEF IInv

LEMMA StutterKeeps ==
  ASSUME IInv, UNCHANGED eventVars PROVE IInv'
BY DEF IInv, eventVars, TopicListsOpen

\* The inductive invariant: each ring is in order, and the topic lists the open
\* ones (Subscribe, Publish, Next, Close).
THEOREM EventsInvariant == EventsSpec => []IInv
<1>1. ASSUME IInv, [EventsNext]_eventVars PROVE IInv'
  BY <1>1, SubscribeKeeps, PublishKeeps, NextKeeps, CloseKeeps, StutterKeeps DEF EventsNext
<1> QED
  BY <1>1, InitIInv, PTL DEF EventsSpec

\* The topic lists exactly the open subscriptions, each once, after any order of
\* Subscribe and Close: no closed one is left to make Publish fail for ever.
THEOREM EventsTopicExact == EventsSpec => []TopicListsOpen
<1>1. IInv => TopicListsOpen
  BY DEF IInv
<1> QED
  BY <1>1, EventsInvariant, PTL

\* A slot outside the window of events keeps no reference (Next, Close).
THEOREM EventsReleaseSlots == EventsSpec => []ReleasedSlotsAreZero
<1>1. ASSUME IInv PROVE ReleasedSlotsAreZero
  <2>1. ASSUME NEW s \in Subs, NEW i \in DOMAIN queue[s], queue[s][i] # Zero
        PROVE  \E k \in 0..(size[s] - 1) : i = (head[s] + k) % cap[s]
    <3>1. Ring(cap[s], head[s], size[s], queue[s])
      BY <1>1, RingFacts
    <3>2. DOMAIN queue[s] = Slots(cap[s])
      BY <3>1, RingTypes
    <3> QED
      BY <2>1, <3>1, <3>2 DEF Ring
  <2> QED
    BY <2>1 DEF ReleasedSlotsAreZero
<1> QED
  BY <1>1, EventsInvariant, PTL

-----------------------------------------------------------------------------
(* The rings implement Broadcast *)

\* The abstract variables, as the refinement mapping gives them.
Receivers == [s \in open |-> cap[s]]
Inbox == [s \in Subs |-> Unread(s)]

LEMMA UnreadIsWindow ==
  \A s \in Subs : Inbox[s] = Window(cap[s], head[s], size[s], queue[s])
BY DEF Inbox, Unread, Window

LEMMA UnreadIsWindowNext ==
  \A s \in Subs : Inbox'[s] = Window(cap'[s], head'[s], size'[s], queue'[s])
BY DEF Inbox, Unread, Window

LEMMA InboxIsFunction ==
  Inbox = [s \in Subs |-> Inbox[s]] /\ Inbox' = [s \in Subs |-> Inbox'[s]]
BY DEF Inbox

LEMMA EmptyWindow ==
  ASSUME NEW c, NEW h, NEW q PROVE Window(c, h, 0, q) = <<>>
<1>1. 1..0 = {}
  OBVIOUS
<1> QED
  BY <1>1 DEF Window

LEMMA WindowLen ==
  ASSUME NEW c, NEW h, NEW n \in Nat, NEW q PROVE Len(Window(c, h, n, q)) = n
<1>1. DOMAIN Window(c, h, n, q) = 1..n
  BY DEF Window
<1> QED
  BY <1>1

LEMMA InitRefines ==
  ASSUME EventsInit PROVE Abstract!Init
<1>1. open = {} /\ \A s \in Subs : size[s] = 0
  BY DEF EventsInit
<1>2. \A s \in Subs : Inbox[s] = <<>>
  BY <1>1, UnreadIsWindow, EmptyWindow
<1>3. Inbox = [s \in Subs |-> <<>>]
  BY <1>2, InboxIsFunction
<1>4. Receivers = [s \in {} |-> 0]
  BY <1>1 DEF Receivers
<1> QED
  BY <1>3, <1>4 DEF Abstract!Init, Inbox, Receivers

LEMMA SubscribeRefines ==
  ASSUME IInv, NEW s \in Subs, NEW c \in Offered, Subscribe(s, c) PROVE Abstract!Subscribe(s)
<1> DEFINE n == Capacity(c)
<1>1. n \in {Capacity(o) : o \in {a \in Offered : a >= 0}}
  BY SubscribeEffect
<1>2. s \notin DOMAIN Receivers /\ DOMAIN Receivers = open
  BY SubscribeEffect DEF Receivers
<1>3. Receivers' = [x \in DOMAIN Receivers \cup {s} |-> IF x = s THEN n ELSE Receivers[x]]
  <2>1. open \subseteq Subs
    BY DEF IInv
  <2>2. open' = open \cup {s} /\ cap'[s] = n /\ \A x \in Subs : x # s => cap'[x] = cap[x]
    BY SubscribeEffect
  <2> HIDE DEF n
  <2> QED
    BY <1>2, <2>1, <2>2 DEF Receivers
<1>4. Inbox' = Inbox
  <2>1. ASSUME NEW x \in Subs PROVE Inbox'[x] = Inbox[x]
    <3>1. CASE x = s
      <4>1. size[x] = 0 /\ size'[x] = 0
        BY <3>1, SubscribeEffect
      <4> QED
        BY <4>1, EmptyWindow, UnreadIsWindow, UnreadIsWindowNext
    <3>2. CASE x # s
      BY <3>2, SubscribeEffect, UnreadIsWindow, UnreadIsWindowNext
    <3> QED
      BY <3>1, <3>2
  <2> QED
    BY <2>1, InboxIsFunction
<1> QED
  BY <1>1, <1>2, <1>3, <1>4 DEF Abstract!Subscribe, Inbox, Receivers

LEMMA PublishRefines ==
  ASSUME IInv, NEW e \in EventValues, Publish(e) PROVE Abstract!Publish(e)
<1>1. DOMAIN Receivers = open /\ open \subseteq Subs /\ \A s \in open : Receivers[s] = cap[s]
  BY DEF Receivers, IInv
<1>2. Receivers' = Receivers
  BY PublishEffect DEF Receivers
<1>3. ASSUME NEW s \in open PROVE Len(Inbox[s]) < Receivers[s] /\ Inbox'[s] = Append(Inbox[s], e)
  <2>1. s \in Subs
    BY <1>1
  <2>2. /\ Ring(cap[s], head[s], size[s], queue[s]) /\ cap[s] # 0 /\ size[s] # cap[s]
        /\ cap[s] \in Nat /\ size[s] \in 0..cap[s]
    BY <2>1, RingFacts, PublishEffect
  <2>3. Window(cap[s], head[s], size[s] + 1, [queue[s] EXCEPT ![(head[s] + size[s]) % cap[s]] = e])
          = With(Window(cap[s], head[s], size[s], queue[s]), e)
    BY ONLY <2>2, e \in EventValues, RingPublish
  <2>4. Inbox'[s] = With(Inbox[s], e)
    BY <2>1, <2>3, PublishEffect, UnreadIsWindow, UnreadIsWindowNext, Zenon
  <2>5. Len(Inbox[s]) = size[s]
    BY <2>1, <2>2, UnreadIsWindow, WindowLen
  <2> QED
    BY <1>1, <2>2, <2>4, <2>5 DEF With
<1>4. ASSUME NEW s \in Subs, s \notin open PROVE Inbox'[s] = Inbox[s]
  BY <1>4, PublishEffect, UnreadIsWindow, UnreadIsWindowNext
<1>5. Inbox' = [s \in Subs |-> IF s \in open THEN Append(Inbox[s], e) ELSE Inbox[s]]
  BY <1>3, <1>4, InboxIsFunction
<1> QED
  BY <1>1, <1>2, <1>3, <1>5 DEF Abstract!Publish, Inbox, Receivers

LEMMA NextRefines ==
  ASSUME IInv, NEW s \in Subs, Next(s) PROVE Abstract!Next(s)
<1>1. Ring(cap[s], head[s], size[s], queue[s]) /\ size[s] # 0
  BY RingFacts, NextEffect
<1>2. Window(cap[s], (head[s] + 1) % cap[s], size[s] - 1, [queue[s] EXCEPT ![head[s]] = Zero])
        = Rest(Window(cap[s], head[s], size[s], queue[s]))
  <2>1. Shrunk(cap[s], head[s], size[s], queue[s]) = Rest(Window(cap[s], head[s], size[s], queue[s]))
    BY ONLY <1>1, RingNext
  <2> QED
    BY <2>1 DEF Shrunk
<1>3. Inbox[s] # <<>>
  <2>1. Len(Inbox[s]) = size[s]
    BY UnreadIsWindow, WindowLen, RingFacts
  <2> QED
    BY <1>1, <2>1
<1>8. Inbox'[s] = Rest(Inbox[s])
  BY <1>2, NextEffect, UnreadIsWindow, UnreadIsWindowNext, Zenon
<1>4. ASSUME NEW x \in Subs, x # s PROVE Inbox'[x] = Inbox[x]
  BY <1>4, NextEffect, UnreadIsWindow, UnreadIsWindowNext
<1>5. Inbox' = [Inbox EXCEPT ![s] = Rest(Inbox[s])]
  BY <1>4, <1>8, InboxIsFunction
<1>6. Receivers' = Receivers
  BY NextEffect DEF Receivers
<1> QED
  BY <1>3, <1>5, <1>6 DEF Abstract!Next, Rest, Inbox, Receivers

LEMMA CloseRefines ==
  ASSUME IInv, NEW s \in Subs, Close(s) PROVE Abstract!Close(s)
<1>1. DOMAIN Receivers = open /\ open \subseteq Subs
  BY DEF Receivers, IInv
<1>2. Receivers' = [x \in DOMAIN Receivers \ {s} |-> Receivers[x]]
  BY <1>1, CloseEffect DEF Receivers
<1>3. Inbox'[s] = <<>>
  BY CloseEffect, EmptyWindow, UnreadIsWindowNext
<1>4. ASSUME NEW x \in Subs, x # s PROVE Inbox'[x] = Inbox[x]
  BY <1>4, CloseEffect, UnreadIsWindow, UnreadIsWindowNext
<1>5. Inbox' = [Inbox EXCEPT ![s] = <<>>]
  BY <1>3, <1>4, InboxIsFunction
<1>6. s \in DOMAIN Receivers
  BY <1>1, CloseEffect
<1> QED
  BY <1>2, <1>5, <1>6 DEF Abstract!Close, Inbox, Receivers

\* The ring buffers and the topic's list implement the bounded broadcast: every
\* event goes to every open subscription or to none, and each reads them in order.
THEOREM EventsImplementBroadcast == EventsSpec => ImplementsBroadcast
<1>1. EventsInit => Abstract!Init
  BY InitRefines
<1>2. ASSUME IInv, [EventsNext]_eventVars PROVE [Abstract!Step]_(Abstract!vars)
  <2>1. CASE UNCHANGED eventVars
    <3>1. UNCHANGED <<open, cap, queue, head, size>>
      BY <2>1 DEF eventVars
    <3> QED
      BY <3>1 DEF Abstract!vars, Unread
  <2>2. CASE EventsNext
    BY <1>2, <2>2, SubscribeRefines, PublishRefines, NextRefines, CloseRefines DEF EventsNext, Abstract!Step
  <2> QED
    BY <1>2, <2>1, <2>2
<1> QED
  BY <1>1, <1>2, EventsInvariant, PTL DEF EventsSpec, ImplementsBroadcast, Abstract!Spec
=============================================================================
