----------------------------- MODULE WorldProofs -----------------------------
(***************************************************************************)
(* Proofs about what a world holds, World.tla, Query.tla, Resources.tla,   *)
(* for any number of slots, generations, component types, values, queries  *)
(* and cells: the invariants of the entities and the stores (IInv), that a *)
(* World implements EntityMap, what traversals reach and lend out (QInv),  *)
(* and what pointers to resources lead to (ResourcesInv).                  *)
(***************************************************************************)
EXTENDS Query, Resources, SequenceTheorems, FiniteSetTheorems, WellFoundedInduction, TLAPS

-----------------------------------------------------------------------------
(* Sequences *)

\* The last element and the rest of a nonempty sequence (the free stack's pop
\* and the truncation of swap-removal).
LEMMA FrontLast ==
  ASSUME NEW S, NEW s \in Seq(S), s # <<>>
  PROVE  /\ Len(s) \in Nat \ {0}
         /\ Last(s) \in S
         /\ Front(s) \in Seq(S)
         /\ Len(Front(s)) = Len(s) - 1
         /\ \A i \in 1..(Len(s) - 1) : Front(s)[i] = s[i]
<1>1. Len(s) \in Nat \ {0}
  BY EmptySeq
<1>2. \A i \in 1..Len(s) : s[i] \in S
  BY ElementOfSeq
<1>3. \A i \in 1..(Len(s) - 1) : s[i] \in S
  BY <1>1, <1>2
<1>4. /\ SubSeq(s, 1, Len(s) - 1) \in Seq(S)
      /\ Len(SubSeq(s, 1, Len(s) - 1)) = IF 1 <= Len(s) - 1 THEN Len(s) - 1 - 1 + 1 ELSE 0
      /\ \A i \in 1..(Len(s) - 1 - 1 + 1) : SubSeq(s, 1, Len(s) - 1)[i] = s[1 + i - 1]
  BY <1>1, <1>3, SubSeqProperties
<1>5. \A i \in 1..(Len(s) - 1) : SubSeq(s, 1, Len(s) - 1)[i] = s[i]
  BY <1>1, <1>4
<1>6. s[Len(s)] \in S
  BY <1>1, <1>2
<1>7. Len(SubSeq(s, 1, Len(s) - 1)) = Len(s) - 1
  <2>1. CASE Len(s) = 1
    BY <2>1, <1>4
  <2>2. CASE Len(s) # 1
    <3>1. 1 <= Len(s) - 1 /\ Len(s) - 1 - 1 + 1 = Len(s) - 1
      BY <2>2, <1>1
    <3> QED
      BY <3>1, <1>4
  <2> QED
    BY <2>1, <2>2
<1>8. Front(s) = SubSeq(s, 1, Len(s) - 1) /\ Last(s) = s[Len(s)]
  BY DEF Front, Last
<1> QED
  BY <1>1, <1>4, <1>5, <1>6, <1>7, <1>8

\* Growing a sparse sequence keeps it a sequence of naturals and pads with 0.
LEMMA GrownProps ==
  ASSUME NEW s \in Seq(Nat), NEW n \in Nat \ {0}
  PROVE  /\ Grown(s, n) \in Seq(Nat)
         /\ n \in DOMAIN Grown(s, n)
         /\ DOMAIN s \subseteq DOMAIN Grown(s, n)
         /\ \A i \in DOMAIN Grown(s, n) :
              Grown(s, n)[i] = IF i \in DOMAIN s THEN s[i] ELSE 0
<1> DEFINE m == IF n > Len(s) THEN n ELSE Len(s)
           g == [i \in 1..m |-> IF i <= Len(s) THEN s[i] ELSE 0]
<1>1. /\ Len(s) \in Nat
      /\ DOMAIN s = 1..Len(s)
      /\ \A i \in 1..Len(s) : s[i] \in Nat
  BY LenProperties, ElementOfSeq
<1>2. m \in Nat
  BY <1>1
<1>3. g \in [1..m -> Nat]
  BY <1>1
<1>4. g \in Seq(Nat)
  BY <1>2, <1>3, SeqDef
<1>5. DOMAIN g = 1..m
  OBVIOUS
<1>6. n \in 1..m /\ 1..Len(s) \subseteq 1..m
  BY <1>1
<1>7. \A i \in 1..m : g[i] = IF i \in DOMAIN s THEN s[i] ELSE 0
  BY <1>1
<1>8. Grown(s, n) = g
  BY DEF Grown
<1> HIDE DEF g, m
<1> QED
  BY <1>1, <1>4, <1>5, <1>6, <1>7, <1>8

-----------------------------------------------------------------------------
(* component.go *)

\* A well-typed and coherent storage.
Sound(s) == s \in Storage /\ Coherent(s)

\* What index finds in a sound storage: the entity's one dense position.
LEMMA IndexProps ==
  ASSUME NEW s, Sound(s), NEW e \in Handle
  PROVE  /\ Index(s, e) \in 0..Len(s.entities)
         /\ Index(s, e) # 0 => s.entities[Index(s, e)] = e
         /\ \A i \in DOMAIN s.entities : s.entities[i] = e => Index(s, e) = i
<1>1. /\ DOMAIN s.sparse = 1..Len(s.sparse) /\ Len(s.sparse) \in Nat
      /\ DOMAIN s.entities = 1..Len(s.entities) /\ Len(s.entities) \in Nat
  BY LenProperties DEF Sound, Storage
<1>2. e.index \in Nat \ {0}
  BY WorldAssumption DEF Handle
<1>3. \A x \in DOMAIN s.sparse : s.sparse[x] \in Nat
  BY <1>1, ElementOfSeq DEF Sound, Storage
<1> QED
  BY <1>1, <1>2, <1>3 DEF Sound, Coherent, Index

\* Swap-removal of a stored entity keeps the storage sound, removes exactly
\* that entity and keeps every other one with its value.
LEMMA RemoveSound ==
  ASSUME NEW s, Sound(s), NEW e \in Handle, Holds(s, e)
  PROVE  LET r == RemoveFrom(s, e)
         IN  /\ Sound(r)
             /\ \A i \in DOMAIN r.entities : r.entities[i] # e
             /\ \A i \in DOMAIN r.entities : \E j \in DOMAIN s.entities :
                  r.entities[i] = s.entities[j] /\ r.values[i] = s.values[j]
             /\ \A j \in DOMAIN s.entities : s.entities[j] # e => \E i \in DOMAIN r.entities :
                  r.entities[i] = s.entities[j] /\ r.values[i] = s.values[j]
<1> DEFINE i == Index(s, e)
           last == Len(s.entities)
           moved == s.entities[last]
           ents == [s.entities EXCEPT ![i] = moved]
           vals == [s.values EXCEPT ![i] = s.values[last]]
           spar == [s.sparse EXCEPT ![moved.index] = i, ![e.index] = 0]
           r == [entities |-> Front(ents), values |-> Front(vals), sparse |-> spar]
<1>1. /\ s.entities \in Seq(Handle) /\ s.values \in Seq(Values) /\ s.sparse \in Seq(Nat)
      /\ DOMAIN s.entities = 1..last /\ DOMAIN s.values = 1..last
      /\ Len(s.values) = last
      /\ last \in Nat
      /\ DOMAIN s.sparse = 1..Len(s.sparse)
  BY LenProperties DEF Sound, Storage, Coherent
<1>2. i \in 1..last /\ s.entities[i] = e
  BY IndexProps, <1>1 DEF Holds
<1>3. /\ \A k \in 1..last : s.entities[k] \in Handle
      /\ \A k \in 1..last : s.values[k] \in Values
  BY <1>1, ElementOfSeq
<1>4. last \in 1..last
  BY <1>1, <1>2
<1>5. /\ moved \in Handle
      /\ s.values[last] \in Values
  BY <1>3, <1>4
<1>6. /\ ents \in Seq(Handle) /\ Len(ents) = last
      /\ \A k \in 1..last : ents[k] = IF k = i THEN moved ELSE s.entities[k]
  BY <1>1, <1>2, <1>5, ExceptSeq
<1>7. /\ vals \in Seq(Values) /\ Len(vals) = last
      /\ \A k \in 1..last : vals[k] = IF k = i THEN s.values[last] ELSE s.values[k]
  BY <1>1, <1>2, <1>5, ExceptSeq
<1>8. ents # <<>> /\ vals # <<>>
  BY <1>4, <1>6, <1>7, EmptySeq
<1>13. RemoveFrom(s, e) = r
  BY <1>2, <1>1 DEF RemoveFrom
<1> HIDE DEF ents, vals
<1>9. /\ Front(ents) \in Seq(Handle) /\ Len(Front(ents)) = last - 1
      /\ \A k \in 1..(last - 1) : Front(ents)[k] = ents[k]
  BY <1>6, <1>8, FrontLast
<1>10. /\ Front(vals) \in Seq(Values) /\ Len(Front(vals)) = last - 1
       /\ \A k \in 1..(last - 1) : Front(vals)[k] = vals[k]
  BY <1>7, <1>8, FrontLast
<1>11. /\ e.index \in DOMAIN s.sparse /\ s.sparse[e.index] = i
       /\ moved.index \in DOMAIN s.sparse /\ s.sparse[moved.index] = last
  BY <1>1, <1>2, <1>4 DEF Sound, Coherent
<1>19. moved = s.entities[last]
  OBVIOUS
<1>16. r.entities = Front(ents) /\ r.values = Front(vals) /\ r.sparse = spar
  OBVIOUS
<1> HIDE DEF moved, last, i
<1>12. /\ spar \in Seq(Nat)
       /\ DOMAIN spar = DOMAIN s.sparse
       /\ \A x \in DOMAIN spar :
            spar[x] = IF x = e.index THEN 0
                      ELSE IF x = moved.index THEN i ELSE s.sparse[x]
  <2>1. \A x \in DOMAIN s.sparse : s.sparse[x] \in Nat
    BY <1>1, ElementOfSeq
  <2>5. s.sparse \in [1..Len(s.sparse) -> Nat] /\ i \in Nat
    BY <1>1, <1>2, LenProperties
  <2>6. [s.sparse EXCEPT ![moved.index] = i] \in [1..Len(s.sparse) -> Nat]
    BY <2>5
  <2>2. spar \in [1..Len(s.sparse) -> Nat]
    BY <2>6
  <2>3. Len(s.sparse) \in Nat
    BY <1>1, LenProperties
  <2>4. spar \in Seq(Nat)
    BY <2>2, <2>3, SeqDef
  <2> QED
    BY <2>2, <2>4, <1>1, <1>11
<1>14. /\ DOMAIN Front(ents) = 1..(last - 1)
       /\ DOMAIN Front(vals) = 1..(last - 1)
  BY <1>9, <1>10, LenProperties
<1>15. /\ \A k \in 1..last : s.entities[k].index \in DOMAIN s.sparse
                             /\ s.sparse[s.entities[k].index] = k
       /\ \A x \in DOMAIN s.sparse : s.sparse[x] # 0 =>
            s.sparse[x] \in 1..last /\ s.entities[s.sparse[x]].index = x
  BY <1>1 DEF Sound, Coherent
<1> HIDE DEF spar
<1>17. r \in Storage
  BY <1>9, <1>10, <1>12 DEF Storage
<1> HIDE DEF r
<1>18. \A k \in 1..(last - 1) :
         Front(ents)[k] = IF k = i THEN moved ELSE s.entities[k]
  BY <1>6, <1>9, <1>1
<1>20. \A k \in 1..(last - 1) :
         /\ Front(ents)[k].index \in DOMAIN spar
         /\ spar[Front(ents)[k].index] = k
  <2> TAKE k \in 1..(last - 1)
  <2>1. CASE k = i
    <3>1. Front(ents)[k] = moved /\ k # last
      BY <2>1, <1>1, <1>18
    <3>2. moved.index # e.index
      BY <3>1, <2>1, <1>11
    <3> QED
      BY <3>1, <3>2, <2>1, <1>11, <1>12
  <2>2. CASE k # i
    <3>1. Front(ents)[k] = s.entities[k]
      BY <2>2, <1>18
    <3>2. s.sparse[s.entities[k].index] = k /\ k # last /\ k \in 1..last
      BY <1>15, <1>1
    <3>3. s.entities[k].index # e.index /\ s.entities[k].index # moved.index
      BY <3>2, <2>2, <1>11
    <3> QED
      BY <3>1, <3>2, <3>3, <1>12, <1>15
  <2> QED
    BY <2>1, <2>2
<1>21. \A x \in DOMAIN spar : spar[x] # 0 =>
         /\ spar[x] \in 1..(last - 1)
         /\ Front(ents)[spar[x]].index = x
  <2> SUFFICES ASSUME NEW x \in DOMAIN spar, spar[x] # 0
               PROVE  spar[x] \in 1..(last - 1) /\ Front(ents)[spar[x]].index = x
    OBVIOUS
  <2>1. x # e.index
    BY <1>12
  <2>2. CASE x = moved.index
    <3>1. spar[x] = i
      BY <2>1, <2>2, <1>12
    <3>2. i # last
      BY <2>1, <2>2, <1>2, <1>19
    <3> QED
      BY <3>1, <3>2, <2>2, <1>1, <1>2, <1>18
  <2>3. CASE x # moved.index
    <3>1. spar[x] = s.sparse[x] /\ s.sparse[x] \in 1..last /\ s.entities[s.sparse[x]].index = x
      BY <2>1, <2>3, <1>12, <1>15
    <3>2. s.sparse[x] # last /\ s.sparse[x] # i
      BY <3>1, <2>1, <2>3, <1>2, <1>19
    <3> QED
      BY <3>1, <3>2, <1>1, <1>18
  <2> QED
    BY <2>2, <2>3
<1>22. Coherent(r)
  BY <1>9, <1>10, <1>14, <1>16, <1>20, <1>21 DEF Coherent
<1>23. \A k \in 1..(last - 1) : Front(ents)[k] # e
  <2> SUFFICES ASSUME NEW k \in 1..(last - 1), Front(ents)[k] = e
               PROVE  FALSE
    OBVIOUS
  <2>1. e.index \in DOMAIN spar /\ spar[e.index] = k
    BY <1>20
  <2> QED
    BY <2>1, <1>1, <1>12
<1>24. \A k \in 1..(last - 1) : \E j \in 1..last :
         Front(ents)[k] = s.entities[j] /\ Front(vals)[k] = s.values[j]
  <2> TAKE k \in 1..(last - 1)
  <2>1. k \in 1..last /\ Front(vals)[k] = vals[k]
    BY <1>1, <1>10
  <2>2. CASE k = i
    BY <2>1, <2>2, <1>4, <1>7, <1>18, <1>19
  <2>3. CASE k # i
    BY <2>1, <2>3, <1>7, <1>18
  <2> QED
    BY <2>2, <2>3
<1>26. Sound(r)
  BY <1>17, <1>22 DEF Sound
<1>27. \A k \in DOMAIN r.entities : r.entities[k] # e
  BY <1>14, <1>16, <1>23
<1>28. \A k \in DOMAIN r.entities : \E j \in DOMAIN s.entities :
         r.entities[k] = s.entities[j] /\ r.values[k] = s.values[j]
  <2> TAKE k \in DOMAIN r.entities
  <2>1. k \in 1..(last - 1)
    BY <1>14, <1>16
  <2>2. PICK j \in 1..last : Front(ents)[k] = s.entities[j] /\ Front(vals)[k] = s.values[j]
    BY <2>1, <1>24
  <2>3. j \in DOMAIN s.entities
    BY <1>1
  <2> QED
    BY <2>2, <2>3, <1>16
<1>29. \A j \in DOMAIN s.entities : s.entities[j] # e => \E k \in DOMAIN r.entities :
         r.entities[k] = s.entities[j] /\ r.values[k] = s.values[j]
  <2> SUFFICES ASSUME NEW j \in 1..last, s.entities[j] # e
               PROVE  \E k \in 1..(last - 1) :
                        Front(ents)[k] = s.entities[j] /\ Front(vals)[k] = s.values[j]
    BY <1>1, <1>14, <1>16
  <2>1. j # i
    BY <1>2
  <2>2. CASE j = last
    <3>1. i \in 1..(last - 1)
      BY <1>1, <1>2, <2>1, <2>2
    <3>2. Front(ents)[i] = s.entities[j] /\ Front(vals)[i] = s.values[j]
      BY <1>2, <1>7, <1>10, <1>18, <1>19, <2>2, <3>1
    <3> QED
      BY <3>1, <3>2
  <2>3. CASE j # last
    <3>1. j \in 1..(last - 1)
      BY <1>1, <2>3
    <3>2. Front(ents)[j] = s.entities[j] /\ Front(vals)[j] = s.values[j]
      BY <1>7, <1>10, <1>18, <2>1, <3>1
    <3> QED
      BY <3>1, <3>2
  <2> QED
    BY <2>2, <2>3
<1> QED
  BY <1>13, <1>26, <1>27, <1>28, <1>29

\* Adding an absent entity keeps the storage sound and puts exactly that entity
\* behind the others.
LEMMA AddSound ==
  ASSUME NEW s, Sound(s), NEW e \in Handle, ~Holds(s, e), NEW v \in Values,
         \A i \in DOMAIN s.entities : s.entities[i].index = e.index => s.entities[i] = e
  PROVE  LET r == AddTo(s, e, v)
         IN  /\ Sound(r)
             /\ \A i \in DOMAIN r.entities :
                  r.entities[i] = e \/ \E j \in DOMAIN s.entities : r.entities[i] = s.entities[j]
             /\ DOMAIN r.entities = DOMAIN s.entities \cup {Len(s.entities) + 1}
             /\ r.entities[Len(s.entities) + 1] = e /\ r.values[Len(s.entities) + 1] = v
             /\ \A j \in DOMAIN s.entities : r.entities[j] = s.entities[j] /\ r.values[j] = s.values[j]
<1> DEFINE ents == Append(s.entities, e)
           vals == Append(s.values, v)
           g == Grown(s.sparse, e.index)
           n == Len(s.entities) + 1
           spar == [g EXCEPT ![e.index] = n]
           r == AddTo(s, e, v)
<1>1. /\ s.entities \in Seq(Handle) /\ s.values \in Seq(Values) /\ s.sparse \in Seq(Nat)
      /\ DOMAIN s.entities = 1..(n - 1) /\ Len(s.values) = n - 1 /\ n \in Nat \ {0}
      /\ Len(s.entities) = n - 1
      /\ DOMAIN s.sparse = 1..Len(s.sparse)
  BY LenProperties DEF Sound, Storage, Coherent
<1>2. /\ ents \in Seq(Handle) /\ Len(ents) = n /\ DOMAIN ents = 1..n
      /\ \A k \in 1..(n - 1) : ents[k] = s.entities[k]
      /\ ents[n] = e
  BY <1>1, AppendProperties, LenProperties
<1>3. /\ vals \in Seq(Values) /\ Len(vals) = n
      /\ \A k \in 1..(n - 1) : vals[k] = s.values[k]
      /\ vals[n] = v
  BY <1>1, AppendProperties
<1>4. e.index \in Nat \ {0}
  BY WorldAssumption DEF Handle
<1>5. /\ g \in Seq(Nat) /\ e.index \in DOMAIN g /\ DOMAIN s.sparse \subseteq DOMAIN g
      /\ \A x \in DOMAIN g : g[x] = IF x \in DOMAIN s.sparse THEN s.sparse[x] ELSE 0
  BY <1>1, <1>4, GrownProps
<1> HIDE DEF g
<1>6. g \in [1..Len(g) -> Nat] /\ Len(g) \in Nat /\ DOMAIN g = 1..Len(g)
  BY <1>5, LenProperties
<1>7. /\ spar \in Seq(Nat) /\ DOMAIN spar = DOMAIN g
      /\ \A x \in DOMAIN g : spar[x] = IF x = e.index THEN n ELSE g[x]
  BY <1>1, <1>5, <1>6, ExceptSeq, LenProperties
<1>8. r.entities = ents /\ r.values = vals /\ r.sparse = spar
      /\ r = [entities |-> ents, values |-> vals, sparse |-> spar]
  BY DEF AddTo, g
<1>9. \A i \in DOMAIN s.entities :
        /\ s.entities[i].index \in DOMAIN s.sparse /\ s.sparse[s.entities[i].index] = i
  BY DEF Sound, Coherent
<1>10. \A x \in DOMAIN s.sparse : s.sparse[x] # 0 =>
         s.sparse[x] \in DOMAIN s.entities /\ s.entities[s.sparse[x]].index = x
  BY DEF Sound, Coherent
<1>11. \A i \in DOMAIN s.entities : s.entities[i] # e
  BY IndexProps, <1>1 DEF Holds
<1>12. \A i \in DOMAIN s.entities : s.entities[i].index # e.index
  BY <1>11
<1> HIDE DEF ents, vals, spar, n, r
<1>13. r \in Storage
  BY <1>2, <1>3, <1>7, <1>8 DEF Storage
<1>14. \A k \in 1..n : ents[k].index \in DOMAIN spar /\ spar[ents[k].index] = k
  <2> TAKE k \in 1..n
  <2>1. CASE k = n
    BY <2>1, <1>2, <1>5, <1>7
  <2>2. CASE k # n
    <3>1. k \in DOMAIN s.entities /\ ents[k] = s.entities[k]
      BY <2>2, <1>1, <1>2
    <3>2. s.entities[k].index \in DOMAIN s.sparse /\ s.sparse[s.entities[k].index] = k
          /\ s.entities[k].index # e.index
      BY <3>1, <1>9, <1>12
    <3> QED
      BY <3>1, <3>2, <1>5, <1>7
  <2> QED
    BY <2>1, <2>2
<1>15. \A x \in DOMAIN spar : spar[x] # 0 => spar[x] \in 1..n /\ ents[spar[x]].index = x
  <2> SUFFICES ASSUME NEW x \in DOMAIN spar, spar[x] # 0
               PROVE  spar[x] \in 1..n /\ ents[spar[x]].index = x
    OBVIOUS
  <2>1. CASE x = e.index
    BY <2>1, <1>1, <1>2, <1>7
  <2>2. CASE x # e.index
    <3>1. x \in DOMAIN s.sparse /\ spar[x] = s.sparse[x]
      BY <2>2, <1>5, <1>7
    <3>2. s.sparse[x] \in 1..(n - 1) /\ s.entities[s.sparse[x]].index = x
      BY <3>1, <1>1, <1>10
    <3> QED
      BY <3>1, <3>2, <1>1, <1>2
  <2> QED
    BY <2>1, <2>2
<1>16. Sound(r)
  BY <1>2, <1>3, <1>8, <1>13, <1>14, <1>15 DEF Sound, Coherent
<1>17. \A i \in DOMAIN r.entities :
         r.entities[i] = e \/ \E j \in DOMAIN s.entities : r.entities[i] = s.entities[j]
  BY <1>1, <1>2, <1>8
<1>18. /\ DOMAIN r.entities = DOMAIN s.entities \cup {n}
       /\ r.entities[n] = e /\ r.values[n] = v
       /\ \A j \in DOMAIN s.entities : r.entities[j] = s.entities[j] /\ r.values[j] = s.values[j]
  BY <1>1, <1>2, <1>3, <1>8
<1>19. n = Len(s.entities) + 1
  BY DEF n
<1> QED
  BY <1>16, <1>17, <1>18, <1>19 DEF r

\* Replacing a value in place moves nothing.
LEMMA ReplaceSound ==
  ASSUME NEW s, Sound(s), NEW e \in Handle, Holds(s, e), NEW v \in Values
  PROVE  LET r == ReplaceIn(s, e, v)
         IN  /\ Sound(r) /\ r.entities = s.entities
             /\ \A j \in DOMAIN s.entities : r.values[j] = IF s.entities[j] = e THEN v ELSE s.values[j]
<1>1. /\ s.entities \in Seq(Handle) /\ s.values \in Seq(Values) /\ s.sparse \in Seq(Nat)
      /\ Len(s.values) = Len(s.entities)
  BY DEF Sound, Storage, Coherent
<1>2. Index(s, e) \in 1..Len(s.values)
  BY <1>1, IndexProps, LenProperties DEF Holds
<1>3. /\ [s.values EXCEPT ![Index(s, e)] = v] \in Seq(Values)
      /\ Len([s.values EXCEPT ![Index(s, e)] = v]) = Len(s.values)
      /\ \A j \in 1..Len(s.values) :
           [s.values EXCEPT ![Index(s, e)] = v][j] = IF j = Index(s, e) THEN v ELSE s.values[j]
  BY <1>1, <1>2, ExceptSeq
<1>4. ReplaceIn(s, e, v) = [entities |-> s.entities,
                            values |-> [s.values EXCEPT ![Index(s, e)] = v],
                            sparse |-> s.sparse]
  <2>1. s \in Storage
    BY DEF Sound
  <2>2. ReplaceIn(s, e, v) = [s EXCEPT !.values = [s.values EXCEPT ![Index(s, e)] = v]]
    BY DEF ReplaceIn
  <2> QED
    BY <2>1, <2>2 DEF Storage
<1> DEFINE r == ReplaceIn(s, e, v)
<1>5. /\ r.entities = s.entities /\ r.sparse = s.sparse
      /\ r.values \in Seq(Values) /\ Len(r.values) = Len(s.entities)
      /\ \A j \in 1..Len(s.values) : r.values[j] = IF j = Index(s, e) THEN v ELSE s.values[j]
  BY <1>1, <1>3, <1>4
<1>6. r \in Storage
  BY <1>1, <1>3, <1>4 DEF Storage
<1> HIDE DEF r
<1>7. Coherent(r)
  BY <1>5 DEF Sound, Coherent
<1>8. \A j \in DOMAIN s.entities : r.values[j] = IF s.entities[j] = e THEN v ELSE s.values[j]
  <2>1. \A j \in DOMAIN s.entities : s.entities[j] = e <=> j = Index(s, e)
    BY IndexProps DEF Holds
  <2>2. DOMAIN s.entities = 1..Len(s.values)
    BY <1>1, LenProperties
  <2> QED
    BY <1>5, <2>1, <2>2
<1> QED
  BY <1>5, <1>6, <1>7, <1>8 DEF Sound, r

-----------------------------------------------------------------------------
(* The inductive invariant *)

IInv ==
  /\ TypeOK
  /\ FreeListExact
  /\ IssuedBounded
  /\ StorageCoherent
  /\ IsFiniteSet(issued)
  /\ CountIsLive

\* A live entity is determined by its index: storages filed by index cannot
\* mix two of them up.
LEMMA AliveUnique ==
  ASSUME NEW a \in Handle, NEW b \in Handle, Alive(a), Alive(b), a.index = b.index
  PROVE  a = b
BY DEF Handle, Alive

\* What the typing of the variables gives for their elements.
LEMMA Typed ==
  ASSUME TypeOK
  PROVE  /\ Len(slots) \in Nat /\ DOMAIN slots = 1..Len(slots)
         /\ \A i \in DOMAIN slots : slots[i] \in Slot /\ i \in 1..MaxSlots
         /\ Len(free) \in Nat /\ DOMAIN free = 1..Len(free)
         /\ \A k \in DOMAIN free : free[k] \in 1..MaxSlots
         /\ \A t \in Types : store[t] \in Storage
<1>1. Len(slots) \in Nat /\ DOMAIN slots = 1..Len(slots)
  BY LenProperties DEF TypeOK
<1>2. Len(free) \in Nat /\ DOMAIN free = 1..Len(free)
  BY LenProperties DEF TypeOK
<1>3. \A i \in DOMAIN slots : slots[i] \in Slot
  BY <1>1, ElementOfSeq DEF TypeOK
<1>4. \A k \in DOMAIN free : free[k] \in 1..MaxSlots
  BY <1>2, ElementOfSeq DEF TypeOK
<1>5. \A i \in DOMAIN slots : i \in 1..MaxSlots
  BY <1>1, WorldAssumption DEF TypeOK
<1> QED
  BY <1>1, <1>2, <1>3, <1>4, <1>5 DEF TypeOK

\* Storages are untouched and every stored entity stays alive.
LEMMA StoresStayCoherent ==
  ASSUME StorageCoherent, UNCHANGED storeVars, TypeOK,
         \A e \in Handle : Alive(e) => Alive(e)'
  PROVE  StorageCoherent'
<1>1. ensured' = ensured /\ store' = store
  BY DEF storeVars
<1>2. \A t \in Types : \A i \in DOMAIN store[t].entities : store[t].entities[i] \in Handle
  BY Typed, ElementOfSeq, LenProperties DEF Storage
<1>3. \A t \in Types : \A i \in DOMAIN store[t].entities : Alive(store[t].entities[i])'
  BY <1>1, <1>2 DEF StorageCoherent
<1> QED
  BY <1>1, <1>3 DEF StorageCoherent

LEMMA InitInv == WorldInit => IInv
<1> SUFFICES ASSUME WorldInit PROVE IInv
  OBVIOUS
<1> USE DEF WorldInit
<1>1. EmptyStorage \in Storage
  BY EmptySeq DEF EmptyStorage, Storage
<1>2. TypeOK
  BY <1>1, EmptySeq, WorldAssumption DEF TypeOK
<1>3. FreeListExact
  BY DEF FreeListExact, IsInjective, ToSet
<1>4. IssuedBounded
  BY DEF IssuedBounded
<1>5. Coherent(EmptyStorage) /\ EmptyStorage.entities = <<>>
  BY DEF Coherent, EmptyStorage
<1>6. StorageCoherent
  BY <1>5 DEF StorageCoherent
<1>7. IsFiniteSet(issued) /\ CountIsLive
  BY FS_EmptySet DEF CountIsLive, Live
<1> QED
  BY <1>2, <1>3, <1>4, <1>6, <1>7 DEF IInv

\* NewEntity taking a free slot: what it does to the slots, and the handle it gives out.
LEMMA ReuseProps ==
  ASSUME IInv, NewEntityReuse
  PROVE  LET i == Last(free)
             h == HandleOf(i, slots[i].generation)
         IN  /\ DOMAIN free = 1..Len(free) /\ Len(free) \in Nat \ {0}
             /\ i = free[Len(free)] /\ i \in ToSet(free) /\ i \in DOMAIN slots
             /\ ~slots[i].alive /\ h \notin issued /\ h \in Handle /\ issued' = issued \cup {h}
             /\ slots' \in Seq(Slot) /\ Len(slots') = Len(slots) /\ DOMAIN slots' = DOMAIN slots
             /\ \A j \in DOMAIN slots : slots'[j].generation = slots[j].generation
             /\ \A j \in DOMAIN slots : slots'[j].alive = (j = i \/ slots[j].alive)
             /\ \A e : Alive(e)' <=> Alive(e) \/ (e.world = WorldId /\ e.index = i
                                                  /\ e.generation = slots[i].generation)
<1> DEFINE i == Last(free)
           h == HandleOf(i, slots[i].generation)
<1> USE DEF IInv
<1>1. /\ free \in Seq(1..MaxSlots) /\ free # <<>>
      /\ Len(free) \in Nat \ {0} /\ DOMAIN free = 1..Len(free)
      /\ i = free[Len(free)] /\ i \in 1..MaxSlots
  BY FrontLast, LenProperties DEF TypeOK, NewEntityReuse, Last
<1>2. i \in ToSet(free)
  BY <1>1 DEF ToSet
<1>3. i \in DOMAIN slots /\ ~slots[i].alive /\ h \notin issued
  BY <1>2 DEF FreeListExact
<1>4. /\ slots' \in Seq(Slot) /\ Len(slots') = Len(slots)
      /\ DOMAIN slots' = DOMAIN slots
      /\ \A j \in DOMAIN slots : slots'[j].generation = slots[j].generation
      /\ \A j \in DOMAIN slots : slots'[j].alive = (j = i \/ slots[j].alive)
  <2> DEFINE new == [slots[i] EXCEPT !.alive = TRUE]
  <2>1. slots[i] \in Slot
    BY <1>3, Typed
  <2>2. new \in Slot /\ new.generation = slots[i].generation /\ new.alive = TRUE
    BY <2>1 DEF Slot
  <2>3. slots' = [slots EXCEPT ![i] = new]
    BY DEF NewEntityReuse
  <2> HIDE DEF new
  <2>4. slots' \in Seq(Slot) /\ Len(slots') = Len(slots)
    BY <1>3, <2>2, <2>3, Typed, ExceptSeq DEF TypeOK
  <2> QED
    BY <2>2, <2>3, <2>4, Typed, <1>3 DEF Slot
<1>5. issued' = issued \cup {h} /\ h \in Handle
  <2>1. slots[i].generation \in 1..MaxGen
    BY <1>3, Typed DEF Slot
  <2> QED
    BY <2>1, <1>1 DEF NewEntityReuse, HandleOf, Handle
<1>6. \A e : Alive(e)' <=> (Alive(e) \/ (e.world = WorldId /\ e.index = i /\ e.generation = slots[i].generation))
  BY <1>3, <1>4 DEF Alive
<1> QED
  BY <1>1, <1>2, <1>3, <1>4, <1>5, <1>6

LEMMA ReuseInv ==
  ASSUME IInv, NewEntityReuse
  PROVE  IInv'
<1> DEFINE i == Last(free)
           h == HandleOf(i, slots[i].generation)
<1> USE DEF IInv
<1>1. /\ DOMAIN free = 1..Len(free) /\ Len(free) \in Nat \ {0} /\ i = free[Len(free)]
      /\ i \in DOMAIN slots /\ ~slots[i].alive
      /\ h \notin issued /\ h \in Handle /\ issued' = issued \cup {h}
  BY ReuseProps
<1>2. /\ slots' \in Seq(Slot) /\ Len(slots') = Len(slots) /\ DOMAIN slots' = DOMAIN slots
      /\ \A j \in DOMAIN slots : slots'[j].generation = slots[j].generation
      /\ \A j \in DOMAIN slots : slots'[j].alive = (j = i \/ slots[j].alive)
      /\ \A e : Alive(e)' <=> Alive(e) \/ (e.world = WorldId /\ e.index = i
                                           /\ e.generation = slots[i].generation)
  BY ReuseProps
<1>3. /\ free' \in Seq(1..MaxSlots) /\ DOMAIN free' = 1..(Len(free) - 1)
      /\ \A k \in 1..(Len(free) - 1) : free'[k] = free[k]
  BY FrontLast, LenProperties DEF TypeOK, NewEntityReuse
<1>4. ToSet(free') = ToSet(free) \ {i}
  <2>1. \A k \in 1..(Len(free) - 1) : free[k] # free[Len(free)]
    BY <1>1 DEF FreeListExact, IsInjective
  <2> QED
    BY <2>1, <1>1, <1>3 DEF ToSet
<1>5. IsInjective(free')
  BY <1>1, <1>3 DEF FreeListExact, IsInjective
<1>6. h.world = WorldId /\ h.index = i /\ h.generation = slots[i].generation
  BY DEF HandleOf
<1> HIDE DEF h, i
<1>7. TypeOK'
  BY <1>1, <1>2, <1>3 DEF TypeOK, NewEntityReuse, storeVars
<1>8. FreeListExact'
  BY <1>1, <1>2, <1>4, <1>5 DEF FreeListExact, HandleOf, h
<1>9. IssuedBounded'
  BY <1>1, <1>2, <1>6, Typed DEF IssuedBounded, Slot
<1>10. StorageCoherent'
  BY <1>2, StoresStayCoherent DEF NewEntityReuse
<1>11. IsFiniteSet(issued)'
  BY <1>1, FS_AddElement
<1>12. CountIsLive'
  <2>1. Live' = Live \cup {h}
    <3>1. \A e \in Handle : Alive(e)' <=> Alive(e) \/ e = h
      BY <1>1, <1>2, <1>6 DEF Handle
    <3> QED
      BY <3>1, <1>1 DEF Live, TypeOK
  <2>2. h \notin Live /\ IsFiniteSet(Live)
    BY <1>1, FS_Subset DEF Live
  <2> QED
    BY <2>1, <2>2, FS_AddElement DEF CountIsLive, NewEntityReuse
<1> QED
  BY <1>7, <1>8, <1>9, <1>10, <1>11, <1>12

\* NewEntity appending a slot.
LEMMA GrowSlots ==
  ASSUME IInv, NewEntityGrow
  PROVE  LET n == Len(slots) + 1
             h == HandleOf(n, 1)
         IN  /\ slots' \in Seq(Slot) /\ Len(slots') = n /\ DOMAIN slots' = DOMAIN slots \cup {n}
             /\ n \notin DOMAIN slots /\ n \in 1..MaxSlots
             /\ \A j \in DOMAIN slots : slots'[j] = slots[j]
             /\ slots'[n] = [generation |-> 1, alive |-> TRUE]
             /\ h.index = n /\ h.generation = 1 /\ h.world = WorldId
             /\ h \in Handle /\ h \notin issued /\ issued' = issued \cup {h}
             /\ \A e : Alive(e)' <=> Alive(e) \/ (e.world = WorldId /\ e.index = n /\ e.generation = 1)
<1> DEFINE n == Len(slots) + 1
           h == HandleOf(n, 1)
<1> USE DEF IInv
<1>1. slots \in Seq(Slot) /\ n \in 1..MaxSlots /\ 1 \in 1..MaxGen
  BY Typed, WorldAssumption DEF NewEntityGrow, TypeOK
<1>2. /\ slots' \in Seq(Slot) /\ Len(slots') = n /\ DOMAIN slots' = 1..n
      /\ DOMAIN slots = 1..(n - 1)
      /\ \A j \in DOMAIN slots : slots'[j] = slots[j]
      /\ slots'[n] = [generation |-> 1, alive |-> TRUE]
  <2>1. [generation |-> 1, alive |-> TRUE] \in Slot
    BY <1>1 DEF Slot
  <2> QED
    BY <2>1, <1>1, AppendProperties, LenProperties DEF NewEntityGrow
<1>3. issued' = issued \cup {h} /\ h \in Handle /\ h.index = n /\ h.generation = 1 /\ h.world = WorldId
  BY <1>1 DEF NewEntityGrow, HandleOf, Handle
<1>4. h \notin issued
  BY <1>2, <1>3 DEF IssuedBounded
<1>5. \A e : Alive(e)' <=> (Alive(e) \/ (e.world = WorldId /\ e.index = n /\ e.generation = 1))
  BY <1>2 DEF Alive
<1>6. n \notin DOMAIN slots /\ DOMAIN slots' = DOMAIN slots \cup {n}
  BY <1>1, <1>2
<1> QED
  BY <1>1, <1>2, <1>3, <1>4, <1>5, <1>6

LEMMA GrowInv ==
  ASSUME IInv, NewEntityGrow
  PROVE  IInv'
<1> DEFINE n == Len(slots) + 1
           h == HandleOf(n, 1)
<1> USE DEF IInv
<1>1. /\ slots' \in Seq(Slot) /\ Len(slots') = n /\ DOMAIN slots' = DOMAIN slots \cup {n}
      /\ n \notin DOMAIN slots /\ n \in 1..MaxSlots
      /\ \A j \in DOMAIN slots : slots'[j] = slots[j]
      /\ slots'[n] = [generation |-> 1, alive |-> TRUE]
      /\ \A e : Alive(e)' <=> Alive(e) \/ (e.world = WorldId /\ e.index = n /\ e.generation = 1)
  BY GrowSlots
<1>2. /\ h.index = n /\ h.generation = 1 /\ h.world = WorldId
      /\ h \in Handle /\ h \notin issued /\ issued' = issued \cup {h}
  BY GrowSlots
<1>3. free' = free /\ free = <<>> /\ ToSet(free) = {}
  BY DEF NewEntityGrow, ToSet
<1> HIDE DEF h, n
<1>7. TypeOK'
  BY <1>1, <1>2, <1>3 DEF TypeOK, NewEntityGrow, storeVars
<1>8. FreeListExact'
  <2>1. IsInjective(free') /\ ToSet(free') = {}
    BY <1>3 DEF FreeListExact
  <2>2. slots'[n].alive /\ HandleOf(n, slots'[n].generation) = h
    BY <1>1 DEF h
  <2>3. \A j \in DOMAIN slots :
          /\ HandleOf(j, slots[j].generation) \in issued
          /\ ~slots[j].alive => slots[j].generation = MaxGen
    BY <1>3 DEF FreeListExact
  <2> QED
    BY <2>1, <2>2, <2>3, <1>1, <1>2 DEF FreeListExact
<1>9. IssuedBounded'
  <2>1. \A e \in issued : e.index \in DOMAIN slots' /\ e.generation <= slots'[e.index].generation
    BY <1>1 DEF IssuedBounded
  <2>2. h.index \in DOMAIN slots' /\ h.generation <= slots'[h.index].generation
    BY <1>1, <1>2
  <2> QED
    BY <2>1, <2>2, <1>2 DEF IssuedBounded
<1>10. StorageCoherent'
  BY <1>1, StoresStayCoherent DEF NewEntityGrow
<1>11. IsFiniteSet(issued)'
  BY <1>2, FS_AddElement
<1>12. CountIsLive'
  <2>1. Live' = Live \cup {h}
    BY <1>1, <1>2 DEF Live, TypeOK, Handle
  <2>2. h \notin Live /\ IsFiniteSet(Live)
    BY <1>2, FS_Subset DEF Live
  <2> QED
    BY <2>1, <2>2, FS_AddElement DEF CountIsLive, NewEntityGrow
<1> QED
  BY <1>7, <1>8, <1>9, <1>10, <1>11, <1>12

\* A handle of another world is never alive here: inputs that pass Alive are
\* handles this world issued.
LEMMA AliveInput ==
  ASSUME TypeOK, NEW e \in Inputs, Alive(e)
  PROVE  e \in issued /\ e \in Handle
BY WorldAssumption DEF Inputs, Foreign, Alive, TypeOK

\* What Vacate does to the slots and the free list.
LEMMA VacateProps ==
  ASSUME TypeOK, NEW i \in DOMAIN slots, Vacate(i)
  PROVE  /\ slots' \in Seq(Slot) /\ Len(slots') = Len(slots) /\ DOMAIN slots' = DOMAIN slots
         /\ \A j \in DOMAIN slots : j # i => slots'[j] = slots[j]
         /\ slots'[i].alive = FALSE
         /\ free' \in Seq(1..MaxSlots)
         /\ \/ /\ slots[i].generation < MaxGen
               /\ slots'[i].generation = slots[i].generation + 1
               /\ free' = Append(free, i)
            \/ /\ slots[i].generation = MaxGen
               /\ slots'[i].generation = MaxGen
               /\ free' = free
<1>1. slots[i] \in Slot /\ i \in 1..MaxSlots /\ DOMAIN slots = 1..Len(slots)
  BY Typed
<1>2. slots[i].generation \in 1..MaxGen /\ MaxGen \in Nat
  BY <1>1, WorldAssumption DEF Slot
<1>3. CASE slots[i].generation < MaxGen
  <2> DEFINE new == [generation |-> slots[i].generation + 1, alive |-> FALSE]
  <2>1. new \in Slot
    BY <1>2, <1>3 DEF Slot
  <2>2. slots' = [slots EXCEPT ![i] = new] /\ free' = Append(free, i)
    BY <1>3 DEF Vacate
  <2>3. new.alive = FALSE /\ new.generation = slots[i].generation + 1
    OBVIOUS
  <2> HIDE DEF new
  <2>4. /\ slots' \in Seq(Slot) /\ Len(slots') = Len(slots)
        /\ \A j \in 1..Len(slots) : slots'[j] = IF j = i THEN new ELSE slots[j]
    BY <1>1, <2>1, <2>2, ExceptSeq DEF TypeOK
  <2>5. DOMAIN slots' = DOMAIN slots
    BY <1>1, <2>4, LenProperties
  <2>6. free' \in Seq(1..MaxSlots)
    BY <1>1, <2>2, AppendProperties DEF TypeOK
  <2> QED
    BY <1>1, <1>3, <2>2, <2>3, <2>4, <2>5, <2>6
<1>4. CASE ~(slots[i].generation < MaxGen)
  <2> DEFINE new == [slots[i] EXCEPT !.alive = FALSE]
  <2>1. new \in Slot /\ new.alive = FALSE /\ new.generation = slots[i].generation
    BY <1>1 DEF Slot
  <2>2. slots' = [slots EXCEPT ![i] = new] /\ free' = free
    BY <1>4 DEF Vacate
  <2> HIDE DEF new
  <2>3. /\ slots' \in Seq(Slot) /\ Len(slots') = Len(slots)
        /\ \A j \in 1..Len(slots) : slots'[j] = IF j = i THEN new ELSE slots[j]
    BY <1>1, <2>1, <2>2, ExceptSeq DEF TypeOK
  <2>4. DOMAIN slots' = DOMAIN slots
    BY <1>1, <2>3, LenProperties
  <2>5. slots[i].generation = MaxGen
    BY <1>2, <1>4
  <2> QED
    BY <1>1, <2>1, <2>2, <2>3, <2>4, <2>5 DEF TypeOK
<1> QED
  BY <1>3, <1>4

\* Destroy: the entity leaves every store and its slot is freed or retired.
LEMMA DestroyInv ==
  ASSUME IInv, NEW e \in Inputs, Destroy(e)
  PROVE  IInv'
<1> USE DEF IInv
<1> DEFINE i == e.index
<1>1. /\ Alive(e) /\ e \in issued /\ e \in Handle
      /\ i \in DOMAIN slots /\ slots[i].alive /\ slots[i].generation = e.generation
      /\ e = HandleOf(i, slots[i].generation)
  BY AliveInput DEF Destroy, Alive, Handle, HandleOf
<1>2. Vacate(i)
  BY DEF Destroy
<1>3. /\ slots' \in Seq(Slot) /\ Len(slots') = Len(slots) /\ DOMAIN slots' = DOMAIN slots
      /\ \A j \in DOMAIN slots : j # i => slots'[j] = slots[j]
      /\ slots'[i].alive = FALSE
      /\ free' \in Seq(1..MaxSlots)
      /\ \/ /\ slots[i].generation < MaxGen
            /\ slots'[i].generation = slots[i].generation + 1
            /\ free' = Append(free, i)
         \/ /\ slots[i].generation = MaxGen
            /\ slots'[i].generation = MaxGen
            /\ free' = free
  BY <1>1, <1>2, VacateProps
<1>4. issued' = issued /\ ensured' = ensured /\ queryDepth' = queryDepth /\ count' = count - 1
  BY DEF Destroy
<1>5. slots[i].generation \in 1..MaxGen
  BY <1>1, Typed DEF Slot
<1>6. i \notin ToSet(free)
  BY <1>1 DEF FreeListExact
<1>7. \A h \in Handle : Alive(h)' <=> Alive(h) /\ h # e
  BY <1>1, <1>3 DEF Alive, Handle
<1> HIDE DEF i
<1>8. \A t \in Types :
        /\ Sound(store'[t])
        /\ \A k \in DOMAIN store'[t].entities :
             store'[t].entities[k] # e /\ store'[t].entities[k] \in Handle /\ Alive(store'[t].entities[k])
        /\ t \notin ensured => store'[t] = EmptyStorage
  <2> TAKE t \in Types
  <2> DEFINE s == store[t]
  <2>1. Sound(s) /\ (t \notin ensured => s = EmptyStorage)
    BY Typed DEF StorageCoherent, Sound
  <2>2. \A k \in DOMAIN s.entities : s.entities[k] \in Handle /\ Alive(s.entities[k])
    BY Typed, ElementOfSeq, LenProperties DEF StorageCoherent, Storage
  <2>3. store'[t] = IF t \in ensured THEN RemoveFrom(s, e) ELSE s
    BY DEF Destroy
  <2>4. CASE t \in ensured /\ Holds(s, e)
    <3> DEFINE r == RemoveFrom(s, e)
    <3>1. /\ Sound(r)
          /\ \A k \in DOMAIN r.entities : r.entities[k] # e
          /\ \A k \in DOMAIN r.entities : \E j \in DOMAIN s.entities : r.entities[k] = s.entities[j]
      BY <1>1, <2>1, <2>4, RemoveSound
    <3> QED
      BY <2>2, <2>3, <2>4, <3>1
  <2>5. CASE t \notin ensured \/ ~Holds(s, e)
    <3>1. store'[t] = s
      BY <2>3, <2>5 DEF RemoveFrom, Holds
    <3>2. \A k \in DOMAIN s.entities : s.entities[k] # e
      <4>1. CASE Holds(s, e)
        BY <2>1, <2>5, <4>1 DEF EmptyStorage
      <4>2. CASE ~Holds(s, e)
        <5>1. Index(s, e) = 0
          BY <4>2 DEF Holds
        <5>2. \A k \in DOMAIN s.entities : s.entities[k] = e => k = 0
          BY <5>1, <1>1, <2>1, IndexProps
        <5>3. DOMAIN s.entities = 1..Len(s.entities)
          BY <2>1, LenProperties DEF Sound, Storage
        <5> QED
          BY <5>2, <5>3
      <4> QED
        BY <4>1, <4>2
    <3> QED
      BY <2>1, <2>2, <3>1, <3>2
  <2> QED
    BY <2>4, <2>5
<1>9. TypeOK'
  <2>1. store' \in [Types -> Storage]
    BY <1>8 DEF Destroy, Sound
  <2> QED
    BY <2>1, <1>3, <1>4 DEF TypeOK
<1>10. StorageCoherent'
  BY <1>4, <1>7, <1>8 DEF StorageCoherent, Sound
<1>11. FreeListExact'
  <2>1. CASE free' = free /\ slots[i].generation = MaxGen /\ slots'[i].generation = MaxGen
    BY <2>1, <1>1, <1>3, <1>4, <1>6 DEF FreeListExact, HandleOf
  <2>2. CASE free' = Append(free, i) /\ slots'[i].generation = slots[i].generation + 1
    <3>1. /\ Len(free) \in Nat /\ DOMAIN free = 1..Len(free)
          /\ DOMAIN free' = 1..(Len(free) + 1)
          /\ \A k \in 1..Len(free) : free'[k] = free[k]
          /\ free'[Len(free) + 1] = i
      BY <2>2, <1>3, AppendProperties, LenProperties, Typed, <1>1 DEF TypeOK
    <3>2. ToSet(free') = ToSet(free) \cup {i}
      BY <3>1 DEF ToSet
    <3>3. \A k \in 1..Len(free) : free[k] # i
      BY <3>1, <1>6 DEF ToSet
    <3>4. IsInjective(free')
      BY <3>1, <3>3 DEF FreeListExact, IsInjective
    <3>5. HandleOf(i, slots'[i].generation) \notin issued
      <4>1. \A h \in issued : h.index = i => h.generation <= slots[i].generation /\ h.generation \in Nat
        BY <1>5 DEF IssuedBounded, TypeOK, Handle
      <4> QED
        BY <4>1, <2>2, <1>5 DEF HandleOf
    <3> QED
      BY <3>2, <3>4, <3>5, <1>1, <1>3, <1>4 DEF FreeListExact
  <2> QED
    BY <1>3, <2>1, <2>2
<1>12. IssuedBounded'
  <2> SUFFICES ASSUME NEW h \in issued
               PROVE  h.index \in DOMAIN slots' /\ h.generation <= slots'[h.index].generation
    BY <1>4 DEF IssuedBounded
  <2>1. h.index \in DOMAIN slots /\ h.generation <= slots[h.index].generation /\ h.generation \in Nat
    BY DEF IssuedBounded, TypeOK, Handle
  <2> QED
    BY <2>1, <1>3, <1>5
<1>13. CountIsLive'
  <2>1. Live' = Live \ {e}
    BY <1>4, <1>7 DEF Live, TypeOK
  <2>2. e \in Live /\ IsFiniteSet(Live)
    BY <1>1, FS_Subset DEF Live
  <2> QED
    BY <2>1, <2>2, <1>4, FS_RemoveElement DEF CountIsLive
<1> QED
  BY <1>4, <1>9, <1>10, <1>11, <1>12, <1>13

\* An operation that leaves the entities alone and turns one type's storage
\* into another sound one, holding live entities only.
LEMMA StoreStepInv ==
  ASSUME IInv, UNCHANGED <<entityVars, queryDepth>>,
         NEW t \in Types, NEW r,
         store' = [store EXCEPT ![t] = r],
         ensured' = ensured \cup {t},
         Sound(r),
         \A k \in DOMAIN r.entities : Alive(r.entities[k])
  PROVE  IInv'
<1> USE DEF IInv
<1>1. slots' = slots /\ free' = free /\ count' = count /\ issued' = issued /\ queryDepth' = queryDepth
  BY DEF entityVars
<1>2. \A e : Alive(e)' <=> Alive(e)
  BY <1>1 DEF Alive
<1>3. \A u \in Types : store'[u] = IF u = t THEN r ELSE store[u]
  BY DEF TypeOK
<1>4. TypeOK'
  BY <1>1 DEF TypeOK, Sound
<1>5. FreeListExact' /\ IssuedBounded' /\ IsFiniteSet(issued)'
  BY <1>1 DEF FreeListExact, IssuedBounded
<1>6. CountIsLive'
  <2>1. Live' = Live
    BY <1>1, <1>2 DEF Live
  <2> QED
    BY <1>1, <2>1 DEF CountIsLive
<1>7. StorageCoherent'
  <2> SUFFICES ASSUME NEW u \in Types
               PROVE  /\ Coherent(store'[u])
                      /\ \A k \in DOMAIN store'[u].entities : Alive(store'[u].entities[k])
                      /\ u \notin ensured' => store'[u] = EmptyStorage
    BY <1>2 DEF StorageCoherent
  <2>1. CASE u = t
    BY <2>1, <1>3 DEF Sound
  <2>2. CASE u # t
    BY <2>2, <1>3 DEF StorageCoherent
  <2> QED
    BY <2>1, <2>2
<1> QED
  BY <1>4, <1>5, <1>6, <1>7

\* The storage of a type, as the store lemmas need it.
LEMMA SoundStore ==
  ASSUME IInv, NEW t \in Types
  PROVE  /\ Sound(store[t])
         /\ \A k \in DOMAIN store[t].entities :
              store[t].entities[k] \in Handle /\ Alive(store[t].entities[k])
BY Typed, ElementOfSeq, LenProperties DEF IInv, StorageCoherent, Sound, Storage

LEMMA SetInv ==
  ASSUME IInv, NEW e \in Inputs, NEW t \in Types, NEW v \in Values, Set(e, t, v)
  PROVE  IInv'
<1>1. TypeOK
  BY DEF IInv
<1>2. Sound(store[t]) /\ \A k \in DOMAIN store[t].entities :
        store[t].entities[k] \in Handle /\ Alive(store[t].entities[k])
  BY SoundStore
<1>3. CASE SetReplace(e, t, v)
  <2> DEFINE r == ReplaceIn(store[t], e, v)
  <2>1. Alive(e) /\ Holds(store[t], e) /\ e \in Handle
    BY <1>1, <1>3, AliveInput DEF SetReplace
  <2>2. Sound(r) /\ r.entities = store[t].entities
    BY <1>2, <2>1, ReplaceSound
  <2>3. /\ store' = [store EXCEPT ![t] = r]
        /\ ensured' = ensured \cup {t}
        /\ UNCHANGED <<entityVars, queryDepth>>
    BY <1>3 DEF SetReplace
  <2> HIDE DEF r
  <2> QED
    BY <1>2, <2>2, <2>3, StoreStepInv
<1>4. CASE SetAdd(e, t, v)
  <2> DEFINE r == AddTo(store[t], e, v)
  <2>1. Alive(e) /\ ~Holds(store[t], e) /\ e \in Handle
    BY <1>1, <1>4, AliveInput DEF SetAdd
  <2>2. \A k \in DOMAIN store[t].entities :
          store[t].entities[k].index = e.index => store[t].entities[k] = e
    BY <1>2, <2>1, AliveUnique
  <2>3. /\ Sound(r)
        /\ \A k \in DOMAIN r.entities :
             r.entities[k] = e \/ \E j \in DOMAIN store[t].entities : r.entities[k] = store[t].entities[j]
    BY <1>2, <2>1, <2>2, AddSound
  <2>4. /\ store' = [store EXCEPT ![t] = r]
        /\ ensured' = ensured \cup {t}
        /\ UNCHANGED <<entityVars, queryDepth>>
    BY <1>4 DEF SetAdd
  <2> HIDE DEF r
  <2>5. \A k \in DOMAIN r.entities : Alive(r.entities[k])
    BY <1>2, <2>1, <2>3
  <2> QED
    BY <2>3, <2>4, <2>5, StoreStepInv
<1> QED
  BY <1>3, <1>4 DEF Set

LEMMA RemoveInv ==
  ASSUME IInv, NEW e \in Inputs, NEW t \in Types, RemoveComponent(e, t)
  PROVE  IInv'
<1> DEFINE r == RemoveFrom(store[t], e)
<1>1. Sound(store[t]) /\ \A k \in DOMAIN store[t].entities :
        store[t].entities[k] \in Handle /\ Alive(store[t].entities[k])
  BY SoundStore
<1>2. Alive(e) /\ Holds(store[t], e) /\ e \in Handle
  BY AliveInput DEF RemoveComponent, IInv
<1>3. /\ Sound(r)
      /\ \A k \in DOMAIN r.entities : \E j \in DOMAIN store[t].entities :
           r.entities[k] = store[t].entities[j]
  BY <1>1, <1>2, RemoveSound
<1>4. /\ store' = [store EXCEPT ![t] = r]
      /\ ensured' = ensured \cup {t}
      /\ UNCHANGED <<entityVars, queryDepth>>
  BY DEF RemoveComponent
<1> HIDE DEF r
<1> QED
  BY <1>1, <1>3, <1>4, StoreStepInv

\* A query constructor, and entering or leaving a traversal, change neither
\* entities nor stored components.
LEMMA QuietInv ==
  ASSUME IInv, UNCHANGED <<entityVars, store>>,
         ensured \subseteq ensured', ensured' \subseteq Types, queryDepth' \in Nat
  PROVE  IInv'
<1> USE DEF IInv
<1>1. slots' = slots /\ free' = free /\ count' = count /\ issued' = issued /\ store' = store
  BY DEF entityVars
<1>2. \A e : Alive(e)' <=> Alive(e)
  BY <1>1 DEF Alive
<1>3. TypeOK'
  BY <1>1 DEF TypeOK
<1>4. FreeListExact' /\ IssuedBounded' /\ IsFiniteSet(issued)'
  BY <1>1 DEF FreeListExact, IssuedBounded
<1>5. StorageCoherent'
  BY <1>1, <1>2 DEF StorageCoherent
<1>6. CountIsLive'
  <2>1. Live' = Live
    BY <1>1, <1>2 DEF Live
  <2> QED
    BY <1>1, <2>1 DEF CountIsLive
<1> QED
  BY <1>3, <1>4, <1>5, <1>6

LEMMA NextInv == IInv /\ [WorldNext]_worldVars => IInv'
<1> SUFFICES ASSUME IInv, [WorldNext]_worldVars
             PROVE  IInv'
  OBVIOUS
<1>1. CASE NewEntityReuse
  BY <1>1, ReuseInv
<1>2. CASE NewEntityGrow
  BY <1>2, GrowInv
<1>3. ASSUME NEW e \in Inputs, Destroy(e)
      PROVE  IInv'
  BY <1>3, DestroyInv
<1>4. ASSUME NEW e \in Inputs, NEW t \in Types, NEW v \in Values, Set(e, t, v)
      PROVE  IInv'
  BY <1>4, SetInv
<1>5. ASSUME NEW e \in Inputs, NEW t \in Types, RemoveComponent(e, t)
      PROVE  IInv'
  BY <1>5, RemoveInv
<1>6. ASSUME NEW t \in Types, EnsureStorage({t})
      PROVE  IInv'
  BY <1>6, QuietInv DEF EnsureStorage, IInv, TypeOK
<1>7. CASE EnterQuery
  BY <1>7, QuietInv DEF EnterQuery, IInv, TypeOK, storeVars
<1>8. CASE LeaveQuery
  BY <1>8, QuietInv DEF LeaveQuery, IInv, TypeOK, storeVars
<1>9. CASE UNCHANGED worldVars
  BY <1>9, QuietInv DEF worldVars, entityVars, IInv, TypeOK
<1> QED
  BY <1>1, <1>2, <1>3, <1>4, <1>5, <1>6, <1>7, <1>8, <1>9 DEF WorldNext, NewEntity

-----------------------------------------------------------------------------
(* Theorems *)

\* Every reachable state satisfies the inductive invariant.
THEOREM WorldInvariant == WorldSpec => []IInv
  BY InitInv, NextInv, PTL DEF WorldSpec

\* Types are preserved: no index leaves 1..MaxSlots and no generation wraps.
THEOREM WorldTypeOK == WorldSpec => []TypeOK
<1>1. IInv => TypeOK
  BY DEF IInv
<1> QED
  BY <1>1, WorldInvariant, PTL

\* Slots are neither leaked nor handed out twice (Destroy, NewEntity).
THEOREM WorldFreeList == WorldSpec => []FreeListExact
<1>1. IInv => FreeListExact
  BY DEF IInv
<1> QED
  BY <1>1, WorldInvariant, PTL

\* The sparse and dense sides of every store agree, and a store holds only
\* live entities, after any sequence of operations.
THEOREM WorldStorage == WorldSpec => []StorageCoherent
<1>1. IInv => StorageCoherent
  BY DEF IInv
<1> QED
  BY <1>1, WorldInvariant, PTL

\* World.Len is the number of live entities.
THEOREM WorldCount == WorldSpec => []CountIsLive
<1>1. IInv => CountIsLive
  BY DEF IInv
<1> QED
  BY <1>1, WorldInvariant, PTL

\* One step never revives a dead handle, nor makes a foreign one alive.
LEMMA NoRevival ==
  ASSUME IInv, [WorldNext]_worldVars
  PROVE  /\ \A e \in issued : ~Alive(e) => ~Alive(e)'
         /\ \A e \in Foreign : ~Alive(e)'
<1>1. \A e \in Foreign : ~Alive(e)'
  BY WorldAssumption DEF Foreign, Alive
<1>2. SUFFICES ASSUME NEW e \in issued, ~Alive(e), Alive(e)'
               PROVE  FALSE
  BY <1>1
<1>3. /\ e \in Handle /\ e.index \in DOMAIN slots
      /\ e = HandleOf(e.index, e.generation)
  BY DEF IInv, TypeOK, IssuedBounded, Handle, HandleOf
<1>4. slots' # slots
  BY <1>2 DEF Alive
<1>5. CASE NewEntityReuse
  <2> DEFINE i == Last(free)
  <2>1. free # <<>> /\ slots' = [slots EXCEPT ![i].alive = TRUE]
    BY <1>5 DEF NewEntityReuse
  <2>2. i \in ToSet(free)
    <3>1. free \in Seq(1..MaxSlots) /\ DOMAIN free = 1..Len(free)
      BY LenProperties DEF IInv, TypeOK
    <3>2. Len(free) \in DOMAIN free
      BY <2>1, <3>1, EmptySeq
    <3> QED
      BY <3>2 DEF ToSet, Last
  <2>3. i \in DOMAIN slots /\ HandleOf(i, slots[i].generation) \notin issued
    BY <2>2 DEF IInv, FreeListExact
  <2> HIDE DEF i
  <2>4. CASE e.index = i
    <3>1. slots[i] \in Slot
      BY <2>3, Typed DEF IInv
    <3>2. slots'[i].generation = slots[i].generation
      BY <2>1, <2>3, <3>1 DEF Slot
    <3>3. e.generation = slots[i].generation
      BY <1>2, <2>4, <3>2 DEF Alive
    <3> QED
      BY <2>3, <2>4, <3>3, <1>3
  <2>5. CASE e.index # i
    BY <1>2, <2>1, <2>5, <1>3 DEF Alive
  <2> QED
    BY <2>4, <2>5
<1>6. CASE NewEntityGrow
  <2>1. \A j \in DOMAIN slots : slots'[j] = slots[j]
    <3>1. slots \in Seq(Slot) /\ [generation |-> 1, alive |-> TRUE] \in Slot
      BY WorldAssumption DEF IInv, TypeOK, Slot
    <3> QED
      BY <3>1, <1>6, AppendProperties, LenProperties DEF NewEntityGrow
  <2> QED
    BY <1>2, <2>1, <1>3 DEF Alive
<1>7. ASSUME NEW d \in Inputs, Destroy(d)
      PROVE  FALSE
  <2>1. /\ d.index \in DOMAIN slots
        /\ \A j \in DOMAIN slots : j # d.index => slots'[j] = slots[j]
        /\ slots'[d.index].alive = FALSE
    BY <1>7, VacateProps DEF Destroy, Alive, IInv
  <2> QED
    BY <1>2, <2>1, <1>3 DEF Alive
<1> QED
  BY <1>4, <1>5, <1>6, <1>7
     DEF WorldNext, NewEntity, Set, SetReplace, SetAdd, RemoveComponent, EnsureStorage,
         EnterQuery, LeaveQuery, entityVars, worldVars

\* No handle this world handed out and destroyed ever becomes alive again and
\* no foreign handle ever is alive, for every number of slots and generations.
THEOREM WorldHandlesNeverRevive == WorldSpec => HandlesNeverRevive
<1>1. IInv /\ [WorldNext]_worldVars =>
        [/\ \A e \in issued : ~Alive(e) => ~Alive(e)'
         /\ \A e \in Foreign : ~Alive(e)']_worldVars
  BY NoRevival
<1> QED
  BY <1>1, WorldInvariant, PTL DEF WorldSpec, HandlesNeverRevive

-----------------------------------------------------------------------------
(* A World is an entity map *)

\* What a storage reports of an entity.
Value(s, e) == s.values[Index(s, e)]

LEMMA Lookup ==
  ASSUME NEW s, Sound(s), NEW e \in Handle
  PROVE  /\ \A k \in DOMAIN s.entities : s.entities[k] = e => Holds(s, e) /\ Value(s, e) = s.values[k]
         /\ Holds(s, e) => \E k \in DOMAIN s.entities : s.entities[k] = e
<1>1. DOMAIN s.entities = 1..Len(s.entities) /\ Len(s.entities) \in Nat
  BY LenProperties DEF Sound, Storage
<1>2. \A k \in DOMAIN s.entities : s.entities[k] = e => Index(s, e) = k
  BY IndexProps
<1>3. Index(s, e) \in 0..Len(s.entities) /\ (Index(s, e) # 0 => s.entities[Index(s, e)] = e)
  BY IndexProps
<1> QED
  BY <1>1, <1>2, <1>3 DEF Holds, Value

\* What changes for one entity changes for no other.
LEMMA RemoveLookup ==
  ASSUME NEW s, Sound(s), NEW e \in Handle, Holds(s, e), NEW h \in Handle
  PROVE  LET r == RemoveFrom(s, e)
         IN  /\ ~Holds(r, e)
             /\ h # e => (Holds(r, h) <=> Holds(s, h)) /\ (Holds(s, h) => Value(r, h) = Value(s, h))
<1> DEFINE r == RemoveFrom(s, e)
<1>1. /\ Sound(r)
      /\ \A i \in DOMAIN r.entities : r.entities[i] # e
      /\ \A i \in DOMAIN r.entities : \E j \in DOMAIN s.entities :
           r.entities[i] = s.entities[j] /\ r.values[i] = s.values[j]
      /\ \A j \in DOMAIN s.entities : s.entities[j] # e => \E i \in DOMAIN r.entities :
           r.entities[i] = s.entities[j] /\ r.values[i] = s.values[j]
  BY RemoveSound
<1> HIDE DEF r
<1>2. ~Holds(r, e)
  BY <1>1, Lookup
<1>3. ASSUME h # e, Holds(s, h)
      PROVE  Holds(r, h) /\ Value(r, h) = Value(s, h)
  <2>1. PICK j \in DOMAIN s.entities : s.entities[j] = h
    BY <1>3, Lookup
  <2>2. PICK i \in DOMAIN r.entities : r.entities[i] = h /\ r.values[i] = s.values[j]
    BY <1>1, <1>3, <2>1
  <2>3. Holds(r, h) /\ Value(r, h) = r.values[i]
    BY <1>1, <2>2, Lookup
  <2>4. Value(s, h) = s.values[j]
    BY <2>1, Lookup
  <2> QED
    BY <2>2, <2>3, <2>4
<1>4. ASSUME h # e, Holds(r, h) PROVE Holds(s, h)
  <2>1. PICK i \in DOMAIN r.entities : r.entities[i] = h
    BY <1>1, <1>4, Lookup
  <2>2. PICK j \in DOMAIN s.entities : s.entities[j] = h
    BY <1>1, <2>1
  <2> QED
    BY <2>2, Lookup
<1> QED
  BY <1>2, <1>3, <1>4 DEF r

LEMMA AddLookup ==
  ASSUME NEW s, Sound(s), NEW e \in Handle, ~Holds(s, e), NEW v \in Values, NEW h \in Handle,
         \A i \in DOMAIN s.entities : s.entities[i].index = e.index => s.entities[i] = e
  PROVE  LET r == AddTo(s, e, v)
         IN  /\ Holds(r, e) /\ Value(r, e) = v
             /\ h # e => (Holds(r, h) <=> Holds(s, h)) /\ (Holds(s, h) => Value(r, h) = Value(s, h))
<1> DEFINE r == AddTo(s, e, v)
           n == Len(s.entities) + 1
<1>1. /\ Sound(r)
      /\ DOMAIN r.entities = DOMAIN s.entities \cup {n}
      /\ r.entities[n] = e /\ r.values[n] = v
      /\ \A j \in DOMAIN s.entities : r.entities[j] = s.entities[j] /\ r.values[j] = s.values[j]
  BY AddSound
<1> HIDE DEF r, n
<1>2. Holds(r, e) /\ Value(r, e) = v
  BY <1>1, Lookup
<1>3. ASSUME h # e, Holds(s, h)
      PROVE  Holds(r, h) /\ Value(r, h) = Value(s, h)
  <2>1. PICK j \in DOMAIN s.entities : s.entities[j] = h
    BY <1>3, Lookup
  <2>2. Value(s, h) = s.values[j]
    BY <2>1, Lookup
  <2>3. Holds(r, h) /\ Value(r, h) = r.values[j]
    BY <1>1, <2>1, Lookup
  <2> QED
    BY <1>1, <2>1, <2>2, <2>3
<1>4. ASSUME h # e, Holds(r, h) PROVE Holds(s, h)
  <2>1. PICK i \in DOMAIN r.entities : r.entities[i] = h
    BY <1>1, <1>4, Lookup
  <2>2. i \in DOMAIN s.entities /\ s.entities[i] = h
    BY <1>1, <1>4, <2>1
  <2> QED
    BY <2>2, Lookup
<1> QED
  BY <1>2, <1>3, <1>4 DEF r

LEMMA ReplaceLookup ==
  ASSUME NEW s, Sound(s), NEW e \in Handle, Holds(s, e), NEW v \in Values, NEW h \in Handle
  PROVE  LET r == ReplaceIn(s, e, v)
         IN  /\ Holds(r, e) /\ Value(r, e) = v
             /\ h # e => (Holds(r, h) <=> Holds(s, h)) /\ (Holds(s, h) => Value(r, h) = Value(s, h))
<1> DEFINE r == ReplaceIn(s, e, v)
<1>1. /\ Sound(r) /\ r.entities = s.entities
      /\ \A j \in DOMAIN s.entities : r.values[j] = IF s.entities[j] = e THEN v ELSE s.values[j]
  BY ReplaceSound
<1> HIDE DEF r
<1>2. ASSUME NEW d \in Handle
      PROVE  Holds(r, d) <=> Holds(s, d)
  BY <1>1, Lookup
<1>3. ASSUME NEW d \in Handle, Holds(s, d)
      PROVE  Value(r, d) = IF d = e THEN v ELSE Value(s, d)
  <2>1. PICK j \in DOMAIN s.entities : s.entities[j] = d
    BY <1>3, Lookup
  <2>2. Value(s, d) = s.values[j] /\ Value(r, d) = r.values[j]
    BY <1>1, <2>1, Lookup
  <2> QED
    BY <1>1, <2>1, <2>2
<1> QED
  BY <1>2, <1>3 DEF r

\* Two entities with the same stores and values there report the same.
LEMMA SameComponents ==
  ASSUME NEW e, \A t \in Types :
           /\ Holds(store'[t], e) <=> Holds(store[t], e)
           /\ Holds(store[t], e) => Value(store'[t], e) = Value(store[t], e)
  PROVE  ComponentsOf(e)' = ComponentsOf(e)
<1>1. {t \in Types : Holds(store'[t], e)} = {t \in Types : Holds(store[t], e)}
  OBVIOUS
<1>2. \A t \in {u \in Types : Holds(store[u], e)} :
        store'[t].values[Index(store'[t], e)] = store[t].values[Index(store[t], e)]
  BY DEF Value
<1> QED
  BY <1>1, <1>2 DEF ComponentsOf

\* NewEntity gives out a handle that nobody has seen and no store holds.
LEMMA Created ==
  ASSUME IInv, NewEntity
  PROVE  \E h \in Handle :
           /\ h \notin issued /\ ~Alive(h)
           /\ issued' = issued \cup {h} /\ Live' = Live \cup {h} /\ store' = store
<1> USE DEF IInv
<1>1. CASE NewEntityReuse
  <2> DEFINE i == Last(free)
             h == HandleOf(i, slots[i].generation)
  <2>1. /\ i \in DOMAIN slots /\ ~slots[i].alive
        /\ h \notin issued /\ h \in Handle /\ issued' = issued \cup {h}
        /\ \A e : Alive(e)' <=> Alive(e) \/ (e.world = WorldId /\ e.index = i
                                             /\ e.generation = slots[i].generation)
    BY <1>1, ReuseProps
  <2>2. h.world = WorldId /\ h.index = i /\ h.generation = slots[i].generation
    BY DEF HandleOf
  <2>3. store' = store
    BY <1>1 DEF NewEntityReuse, storeVars
  <2> HIDE DEF h, i
  <2>4. ~Alive(h)
    BY <2>1, <2>2 DEF Alive
  <2>5. Live' = Live \cup {h}
    BY <2>1, <2>2 DEF Live, TypeOK, Handle
  <2> QED
    BY <2>1, <2>3, <2>4, <2>5
<1>2. CASE NewEntityGrow
  <2> DEFINE n == Len(slots) + 1
             h == HandleOf(n, 1)
  <2>1. /\ n \notin DOMAIN slots
        /\ h.index = n /\ h.generation = 1 /\ h.world = WorldId
        /\ h \in Handle /\ h \notin issued /\ issued' = issued \cup {h}
        /\ \A e : Alive(e)' <=> Alive(e) \/ (e.world = WorldId /\ e.index = n /\ e.generation = 1)
    BY <1>2, GrowSlots
  <2>2. store' = store
    BY <1>2 DEF NewEntityGrow, storeVars
  <2> HIDE DEF h, n
  <2>3. ~Alive(h)
    BY <2>1 DEF Alive
  <2>4. Live' = Live \cup {h}
    BY <2>1 DEF Live, TypeOK, Handle
  <2> QED
    BY <2>1, <2>2, <2>3, <2>4
<1> QED
  BY <1>1, <1>2 DEF NewEntity

LEMMA CreateStep ==
  ASSUME IInv, NewEntity
  PROVE  Map!Create
<1>1. PICK h \in Handle : /\ h \notin issued /\ ~Alive(h)
                          /\ issued' = issued \cup {h} /\ Live' = Live \cup {h} /\ store' = store
  BY Created
<1>2. h \in Handle \ (Live \cup (issued \ Live))
  BY <1>1 DEF Live
<1>3. (issued \ Live)' = issued \ Live
  BY <1>1
<1>4. \A e \in Live : ComponentsOf(e)' = ComponentsOf(e)
  BY <1>1 DEF ComponentsOf
<1>5. ComponentsOf(h)' = [t \in {} |-> {}]
  <2>1. \A t \in Types : ~Holds(store[t], h)
    BY <1>1, SoundStore, Lookup
  <2> QED
    BY <1>1, <2>1 DEF ComponentsOf
<1>6. Components' = [e \in Live \cup {h} |-> IF e = h THEN [t \in {} |-> {}] ELSE Components[e]]
  BY <1>1, <1>4, <1>5 DEF Components
<1> QED
  BY <1>1, <1>2, <1>3, <1>6 DEF Map!Create

\* Destroy: the entity leaves, with all its components and no other's.
LEMMA KillStep ==
  ASSUME IInv, NEW e \in Inputs, Destroy(e)
  PROVE  e \in Live /\ Map!Kill(e)
<1>1. TypeOK /\ Alive(e) /\ e \in issued /\ e \in Handle /\ e.index \in DOMAIN slots
  BY AliveInput DEF Destroy, IInv, Alive
<1>2. /\ DOMAIN slots' = DOMAIN slots
      /\ \A j \in DOMAIN slots : j # e.index => slots'[j] = slots[j]
      /\ slots'[e.index].alive = FALSE
      /\ issued' = issued
  BY <1>1, VacateProps DEF Destroy
<1>3. \A h \in Handle : Alive(h)' <=> Alive(h) /\ h # e
  BY <1>1, <1>2 DEF Alive, Handle
<1>4. e \in Live /\ Live' = Live \ {e} /\ Live \subseteq Handle
  BY <1>1, <1>2, <1>3 DEF Live, TypeOK
<1>5. (issued \ Live)' = (issued \ Live) \cup {e}
  BY <1>2, <1>4 DEF Live
<1>6. ASSUME NEW h \in Live, h # e
      PROVE  ComponentsOf(h)' = ComponentsOf(h)
  <2>1. ASSUME NEW t \in Types
        PROVE  /\ Holds(store'[t], h) <=> Holds(store[t], h)
               /\ Holds(store[t], h) => Value(store'[t], h) = Value(store[t], h)
    <3>1. store'[t] = IF t \in ensured THEN RemoveFrom(store[t], e) ELSE store[t]
      BY DEF Destroy
    <3>2. CASE t \in ensured /\ Holds(store[t], e)
      BY <1>1, <1>4, <1>6, <3>1, <3>2, SoundStore, RemoveLookup
    <3>3. CASE ~(t \in ensured /\ Holds(store[t], e))
      <4>1. store'[t] = store[t]
        BY <3>1, <3>3 DEF RemoveFrom, Holds
      <4> QED
        BY <4>1
    <3> QED
      BY <3>2, <3>3
  <2> QED
    BY <2>1, SameComponents
<1>7. Components' = [h \in Live \ {e} |-> Components[h]]
  BY <1>4, <1>6 DEF Components
<1> QED
  BY <1>4, <1>5, <1>7 DEF Map!Kill

\* One store and no entity changes: every other entity reports what it did.
LEMMA OneStore ==
  ASSUME IInv, UNCHANGED entityVars, NEW t \in Types, NEW r, store' = [store EXCEPT ![t] = r],
         NEW e \in Live,
         \A h \in Handle : h # e => /\ Holds(r, h) <=> Holds(store[t], h)
                                    /\ Holds(store[t], h) => Value(r, h) = Value(store[t], h)
  PROVE  /\ Live' = Live /\ issued' = issued
         /\ \A u \in Types : store'[u] = IF u = t THEN r ELSE store[u]
         /\ \A h \in Live : h # e => ComponentsOf(h)' = ComponentsOf(h)
<1>1. Live' = Live /\ issued' = issued /\ Live \subseteq Handle
  BY DEF entityVars, Live, Alive, IInv, TypeOK
<1>2. \A u \in Types : store'[u] = IF u = t THEN r ELSE store[u]
  BY DEF IInv, TypeOK
<1>3. ASSUME NEW h \in Live, h # e PROVE ComponentsOf(h)' = ComponentsOf(h)
  <2>1. ASSUME NEW u \in Types
        PROVE  /\ Holds(store'[u], h) <=> Holds(store[u], h)
               /\ Holds(store[u], h) => Value(store'[u], h) = Value(store[u], h)
    BY <1>1, <1>2, <1>3
  <2> QED
    BY <2>1, SameComponents
<1> QED
  BY <1>1, <1>2, <1>3

\* Set, in both its forms.
LEMMA PutStep ==
  ASSUME IInv, NEW e \in Inputs, NEW t \in Types, NEW v \in Values, Set(e, t, v)
  PROVE  e \in Live /\ Map!Put(e, t, v)
<1>1. Alive(e) /\ e \in Handle /\ e \in Live
  BY AliveInput DEF Set, SetReplace, SetAdd, IInv, Live
<1>2. Sound(store[t]) /\ \A k \in DOMAIN store[t].entities :
        store[t].entities[k].index = e.index => store[t].entities[k] = e
  BY <1>1, SoundStore, AliveUnique
<1>3. PICK r : /\ store' = [store EXCEPT ![t] = r] /\ UNCHANGED entityVars
               /\ Holds(r, e) /\ Value(r, e) = v
               /\ \A h \in Handle : h # e => /\ Holds(r, h) <=> Holds(store[t], h)
                                             /\ Holds(store[t], h) => Value(r, h) = Value(store[t], h)
  <2>1. CASE SetReplace(e, t, v)
    <3> DEFINE r == ReplaceIn(store[t], e, v)
    <3>1. Holds(store[t], e) /\ store' = [store EXCEPT ![t] = r] /\ UNCHANGED entityVars
      BY <2>1 DEF SetReplace
    <3>2. \A h \in Handle :
            /\ Holds(r, e) /\ Value(r, e) = v
            /\ h # e => (Holds(r, h) <=> Holds(store[t], h)) /\ (Holds(store[t], h) => Value(r, h) = Value(store[t], h))
      BY <1>1, <1>2, <3>1, ReplaceLookup
    <3> HIDE DEF r
    <3> QED
      BY <1>1, <3>1, <3>2
  <2>2. CASE SetAdd(e, t, v)
    <3> DEFINE r == AddTo(store[t], e, v)
    <3>1. ~Holds(store[t], e) /\ store' = [store EXCEPT ![t] = r] /\ UNCHANGED entityVars
      BY <2>2 DEF SetAdd
    <3>2. \A h \in Handle :
            /\ Holds(r, e) /\ Value(r, e) = v
            /\ h # e => (Holds(r, h) <=> Holds(store[t], h)) /\ (Holds(store[t], h) => Value(r, h) = Value(store[t], h))
      BY <1>1, <1>2, <3>1, AddLookup
    <3> HIDE DEF r
    <3> QED
      BY <1>1, <3>1, <3>2
  <2> QED
    BY <2>1, <2>2 DEF Set
<1>4. /\ Live' = Live /\ issued' = issued
      /\ \A u \in Types : store'[u] = IF u = t THEN r ELSE store[u]
      /\ \A h \in Live : h # e => ComponentsOf(h)' = ComponentsOf(h)
  BY <1>1, <1>3, OneStore
<1>5. {u \in Types : Holds(store'[u], e)} = {u \in Types : Holds(store[u], e)} \cup {t}
  BY <1>3, <1>4
<1>6. ComponentsOf(e)' = [u \in DOMAIN ComponentsOf(e) \cup {t} |->
                            IF u = t THEN v ELSE ComponentsOf(e)[u]]
  BY <1>3, <1>4, <1>5 DEF ComponentsOf, Value
<1>7. Components' = [Components EXCEPT ![e] = [u \in DOMAIN @ \cup {t} |-> IF u = t THEN v ELSE @[u]]]
  BY <1>1, <1>4, <1>6 DEF Components
<1> QED
  BY <1>1, <1>4, <1>7 DEF Map!Put

LEMMA DropStep ==
  ASSUME IInv, NEW e \in Inputs, NEW t \in Types, RemoveComponent(e, t)
  PROVE  e \in Live /\ Map!Drop(e, t)
<1> DEFINE r == RemoveFrom(store[t], e)
<1>1. Alive(e) /\ e \in Handle /\ e \in Live /\ Holds(store[t], e)
  BY AliveInput DEF RemoveComponent, IInv, Live
<1>2. store' = [store EXCEPT ![t] = r] /\ UNCHANGED entityVars
  BY DEF RemoveComponent
<1>3. \A h \in Handle :
        /\ ~Holds(r, e)
        /\ h # e => (Holds(r, h) <=> Holds(store[t], h)) /\ (Holds(store[t], h) => Value(r, h) = Value(store[t], h))
  BY <1>1, SoundStore, RemoveLookup
<1> HIDE DEF r
<1>4. /\ Live' = Live /\ issued' = issued
      /\ \A u \in Types : store'[u] = IF u = t THEN r ELSE store[u]
      /\ \A h \in Live : h # e => ComponentsOf(h)' = ComponentsOf(h)
  BY <1>1, <1>2, <1>3, OneStore
<1>5. {u \in Types : Holds(store'[u], e)} = {u \in Types : Holds(store[u], e)} \ {t}
  BY <1>1, <1>3, <1>4
<1>6. ComponentsOf(e)' = [u \in DOMAIN ComponentsOf(e) \ {t} |-> ComponentsOf(e)[u]]
  BY <1>4, <1>5 DEF ComponentsOf
<1>7. Components' = [Components EXCEPT ![e] = [u \in DOMAIN @ \ {t} |-> @[u]]]
  BY <1>1, <1>4, <1>6 DEF Components
<1>8. t \in DOMAIN Components[e]
  BY <1>1 DEF Components, ComponentsOf
<1> QED
  BY <1>1, <1>4, <1>7, <1>8 DEF Map!Drop

\* Queries and their constructors change nothing a caller sees.
LEMMA QuietStep ==
  ASSUME UNCHANGED <<entityVars, store>>
  PROVE  UNCHANGED Map!vars
<1>1. Live' = Live /\ issued' = issued /\ store' = store
  BY DEF entityVars, Live, Alive
<1>2. Components' = Components
  BY <1>1 DEF Components, ComponentsOf
<1> QED
  BY <1>1, <1>2 DEF Map!vars

LEMMA MapInit == WorldInit => Map!Init
<1> SUFFICES ASSUME WorldInit PROVE Map!Init
  OBVIOUS
<1>1. issued = {} /\ Live = {}
  BY DEF WorldInit, Live
<1>2. Components = [e \in {} |-> [t \in {} |-> {}]]
  BY <1>1 DEF Components
<1> QED
  BY <1>1, <1>2 DEF Map!Init

LEMMA MapStep == IInv /\ [WorldNext]_worldVars => [Map!Next]_(Map!vars)
<1> SUFFICES ASSUME IInv, [WorldNext]_worldVars
             PROVE  Map!Next \/ UNCHANGED Map!vars
  OBVIOUS
<1>1. CASE NewEntity
  BY <1>1, CreateStep DEF Map!Next
<1>2. ASSUME NEW e \in Inputs, Destroy(e) PROVE Map!Next
  BY <1>2, KillStep DEF Map!Next
<1>3. ASSUME NEW e \in Inputs, NEW t \in Types, NEW v \in Values, Set(e, t, v) PROVE Map!Next
  BY <1>3, PutStep DEF Map!Next
<1>4. ASSUME NEW e \in Inputs, NEW t \in Types, RemoveComponent(e, t) PROVE Map!Next
  BY <1>4, DropStep DEF Map!Next
<1>5. ASSUME NEW t \in Types, EnsureStorage({t}) PROVE UNCHANGED Map!vars
  BY <1>5, QuietStep DEF EnsureStorage
<1>6. CASE EnterQuery \/ LeaveQuery \/ UNCHANGED worldVars
  BY <1>6, QuietStep DEF EnterQuery, LeaveQuery, worldVars, entityVars, storeVars
<1> QED
  BY <1>1, <1>2, <1>3, <1>4, <1>5, <1>6 DEF WorldNext

\* A World is a map from live entities to partial maps of components, and each
\* operation changes in it exactly what it names: for any number of slots and
\* generations, whatever slots are reused and however stores are compacted
\* (world.go, component.go).
THEOREM WorldImplementsEntityMap == WorldSpec => ImplementsEntityMap
  BY MapInit, MapStep, WorldInvariant, PTL DEF WorldSpec, ImplementsEntityMap, Map!Spec

\* And it changes the entity and the component that the caller named, not
\* another one: not the slot's later owner, and not the entity that
\* swap-removal moved (Destroy, Set, Remove).
THEOREM WorldCallsDoWhatTheyName == WorldSpec => CallsDoWhatTheyName
<1> DEFINE Named ==
      \A e \in Live :
        /\ Destroy(e) => Map!Kill(e)
        /\ \A t \in Types :
             /\ RemoveComponent(e, t) => Map!Drop(e, t)
             /\ \A v \in Values : Set(e, t, v) => Map!Put(e, t, v)
<1>1. IInv => Named
  <2> SUFFICES ASSUME IInv, NEW e \in Live
               PROVE  /\ Destroy(e) => Map!Kill(e)
                      /\ \A t \in Types :
                           /\ RemoveComponent(e, t) => Map!Drop(e, t)
                           /\ \A v \in Values : Set(e, t, v) => Map!Put(e, t, v)
    OBVIOUS
  <2>1. e \in Inputs
    BY DEF Live, Inputs
  <2> QED
    BY <2>1, KillStep, DropStep, PutStep
<1>2. IInv /\ [WorldNext]_worldVars => [Named]_worldVars
  BY <1>1
<1> QED
  BY <1>2, WorldInvariant, PTL DEF WorldSpec, CallsDoWhatTheyName

-----------------------------------------------------------------------------
(* Traversals *)

\* The types whose stores drive or filter a query positively.
Needed(v) == ToSet(v.required) \cup ToSet(v.with)

\* The driver positions of a traversal's callbacks so far.
Called(f) == {i \in 1..f.pos : Matches(f.view, store[f.driver].entities[i])}

\* A suspended traversal: it is in the callback for an entity of its driver,
\* has called back each match up to it once, and lent out that entity's own
\* components.
Intact(f) ==
  /\ f.driver \in Needed(f.view) /\ Needed(f.view) \subseteq ensured
  /\ f.pos \in 1..Size(f.driver)
  /\ f.visited # <<>> /\ Last(f.visited) = store[f.driver].entities[f.pos]
  /\ IsInjective(f.visited)
  /\ ToSet(f.visited) = {store[f.driver].entities[i] : i \in Called(f)}
  /\ \A t \in DOMAIN f.borrowed :
       /\ f.borrowed[t] \in DOMAIN store[t].entities
       /\ store[t].entities[f.borrowed[t]] = Last(f.visited)

QInv ==
  /\ IInv
  /\ frames \in Seq(Frame)
  /\ queryDepth = Len(frames)
  /\ \A f \in ToSet(frames) : Intact(f)

-----------------------------------------------------------------------------
(* Stores and queries *)

\* The least-number principle, for the smallest store and the next match.
LEMMA LeastNat ==
  ASSUME NEW S \in SUBSET Nat, S # {}
  PROVE  \E m \in S : \A n \in S : m <= n
<1> DEFINE R == OpToRel(<, Nat)
<1>1. \A m, n \in Nat : m < n => <<m, n>> \in R
  BY DEF OpToRel
<1>2. IsWellFoundedOn(R, Nat)
  BY NatLessThanWellFounded
<1> HIDE DEF R
<1>3. PICK m \in S : \A n \in S : ~(<<n, m>> \in R)
  BY <1>2, WFMin
<1>4. ASSUME NEW n \in S PROVE m <= n
  <2>1. ~(<<n, m>> \in R) /\ n \in Nat /\ m \in Nat
    BY <1>3
  <2>2. ~(n < m)
    BY <1>1, <2>1
  <2> QED
    BY <2>1, <2>2
<1> QED
  BY <1>4

LEMMA ViewTypes ==
  ASSUME NEW v \in Views
  PROVE  /\ v.required \in Seq(Types) /\ v.required # <<>> /\ v.with \in Seq(Types)
         /\ Needed(v) \subseteq Types /\ v.without \subseteq Types
         /\ ToSet(v.required) \subseteq Types /\ ToSet(v.with) \subseteq Types
<1>1. v.required \in Seq(Types) /\ v.required # <<>> /\ v.with \in Seq(Types) /\ v.without \subseteq Types
  BY QueryAssumption
<1>2. ToSet(v.required) \subseteq Types /\ ToSet(v.with) \subseteq Types
  BY <1>1, ElementOfSeq, LenProperties DEF ToSet
<1> QED
  BY <1>1, <1>2 DEF Needed

LEMMA StoreFacts ==
  ASSUME IInv, NEW t \in Types
  PROVE  /\ Sound(store[t])
         /\ Size(t) \in Nat /\ DOMAIN store[t].entities = 1..Size(t)
         /\ \A i \in 1..Size(t) : store[t].entities[i] \in Handle /\ Alive(store[t].entities[i])
         /\ t \notin ensured => store[t] = EmptyStorage
<1>1. store[t].entities \in Seq(Handle)
  BY SoundStore DEF Sound, Storage
<1>2. Size(t) \in Nat /\ DOMAIN store[t].entities = 1..Size(t)
  BY <1>1, LenProperties DEF Size
<1> QED
  BY <1>2, SoundStore DEF IInv, StorageCoherent

\* What Index looks up is where the entity is.
LEMMA HoldsMeans ==
  ASSUME IInv, NEW t \in Types, NEW e \in Handle
  PROVE  /\ Holds(store[t], e) <=> e \in ToSet(store[t].entities)
         /\ Holds(store[t], e) => /\ Index(store[t], e) \in 1..Size(t)
                                  /\ store[t].entities[Index(store[t], e)] = e
<1>1. Sound(store[t]) /\ Size(t) \in Nat /\ DOMAIN store[t].entities = 1..Size(t)
  BY StoreFacts
<1>2. /\ Index(store[t], e) \in 0..Size(t)
      /\ Index(store[t], e) # 0 => store[t].entities[Index(store[t], e)] = e
      /\ \A i \in 1..Size(t) : store[t].entities[i] = e => Index(store[t], e) = i
  BY <1>1, IndexProps DEF Size
<1> QED
  BY <1>1, <1>2 DEF Holds, ToSet

LEMMA MatchesMeans ==
  ASSUME IInv, NEW v \in Views, Needed(v) \subseteq ensured, NEW e \in Handle
  PROVE  Matches(v, e) <=> /\ \A t \in Needed(v) : e \in ToSet(store[t].entities)
                           /\ \A t \in v.without : e \notin ToSet(store[t].entities)
<1>1. \A t \in Types : Holds(store[t], e) <=> e \in ToSet(store[t].entities)
  BY HoldsMeans
<1>2. \A t \in Types \ ensured : e \notin ToSet(store[t].entities)
  BY StoreFacts DEF EmptyStorage, ToSet
<1> QED
  BY <1>1, <1>2, ViewTypes DEF Matches, Needed

\* No entity is stored twice.
LEMMA Distinct ==
  ASSUME IInv, NEW t \in Types, NEW i \in 1..Size(t), NEW j \in 1..Size(t),
         store[t].entities[i] = store[t].entities[j]
  PROVE  i = j
BY StoreFacts DEF Sound, Coherent

LEMMA AliveIsIssued ==
  ASSUME IInv, NEW e \in Handle, Alive(e)
  PROVE  e \in Live
<1>1. e.index \in DOMAIN slots /\ slots[e.index].alive /\ e = HandleOf(e.index, slots[e.index].generation)
  BY DEF Alive, Handle, HandleOf
<1>2. e.index \notin ToSet(free)
  BY <1>1 DEF IInv, FreeListExact
<1> QED
  BY <1>1, <1>2 DEF IInv, FreeListExact, Live

\* A scan of any store that the query needs finds what it selects.
LEMMA Scan ==
  ASSUME IInv, NEW v \in Views, Needed(v) \subseteq ensured, NEW d \in Needed(v)
  PROVE  Selected(v) = {store[d].entities[i] :
                          i \in {i \in 1..Size(d) : Matches(v, store[d].entities[i])}}
<1>1. d \in Types
  BY ViewTypes
<1>2. DOMAIN store[d].entities = 1..Size(d)
      /\ \A i \in 1..Size(d) : store[d].entities[i] \in Handle /\ Alive(store[d].entities[i])
  BY <1>1, StoreFacts
<1>3. \A e \in Selected(v) : e \in Handle /\ e \in ToSet(store[d].entities)
  BY DEF Selected, Live, IInv, TypeOK, Needed
<1>4. \A e \in Handle : (e \in Selected(v)) <=> (Alive(e) /\ Matches(v, e))
  BY MatchesMeans, AliveIsIssued DEF Selected, Live, Needed
<1> QED
  BY <1>2, <1>3, <1>4 DEF ToSet

LEMMA Lengths ==
  ASSUME NEW m \in Nat \ {0}, NEW n \in Nat, NEW k, k = m + n
  PROVE  /\ k \in Nat \ {0}
         /\ \A i \in 1..k : ~(i <= m) => i - m \in 1..n
OBVIOUS

\* The driver is one of the stores a query needs.
LEMMA DriverNeeded ==
  ASSUME IInv, NEW v \in Views
  PROVE  Driver(v) \in Needed(v)
<1> DEFINE cands == v.required \o v.with
<1>1. v.required \in Seq(Types) /\ v.required # <<>> /\ v.with \in Seq(Types)
  BY ViewTypes
<1>2. Len(v.required) \in Nat \ {0} /\ Len(v.with) \in Nat
      /\ DOMAIN v.required = 1..Len(v.required) /\ DOMAIN v.with = 1..Len(v.with)
  BY <1>1, EmptySeq, LenProperties
<1>3. /\ cands \in Seq(Types) /\ Len(cands) = Len(v.required) + Len(v.with)
      /\ \A i \in 1..(Len(v.required) + Len(v.with)) :
           cands[i] = IF i <= Len(v.required) THEN v.required[i] ELSE v.with[i - Len(v.required)]
  BY <1>1, ConcatProperties
<1> HIDE DEF cands
<1>4. /\ Len(cands) \in Nat \ {0}
      /\ \A i \in 1..Len(cands) : ~(i <= Len(v.required)) => i - Len(v.required) \in 1..Len(v.with)
  BY <1>2, <1>3, Lengths
<1>5. ASSUME NEW i \in 1..Len(cands) PROVE cands[i] \in Needed(v)
  <2>1. cands[i] = IF i <= Len(v.required) THEN v.required[i] ELSE v.with[i - Len(v.required)]
    BY <1>3
  <2>2. CASE i <= Len(v.required)
    <3>1. i \in DOMAIN v.required /\ cands[i] = v.required[i]
      BY <1>2, <1>4, <2>1, <2>2
    <3> QED
      BY <3>1 DEF Needed, ToSet
  <2>3. CASE ~(i <= Len(v.required))
    <3>1. cands[i] = v.with[i - Len(v.required)]
      BY <2>1, <2>3
    <3>2. i - Len(v.required) \in 1..Len(v.with)
      BY <1>4, <2>3
    <3> QED
      BY <1>2, <3>1, <3>2 DEF Needed, ToSet
  <2> QED
    BY <2>2, <2>3
<1>6. DOMAIN cands = 1..Len(cands) /\ \A i \in 1..Len(cands) : cands[i] \in Types
  BY <1>3, LenProperties, ElementOfSeq
<1> DEFINE Best(i) == /\ \A j \in DOMAIN cands : Size(cands[i]) <= Size(cands[j])
                      /\ \A j \in 1..(i - 1) : Size(cands[i]) < Size(cands[j])
<1>7. \A i \in 1..Len(cands) : Size(cands[i]) \in Nat
  BY <1>6, StoreFacts
<1> DEFINE sizes == {Size(cands[i]) : i \in 1..Len(cands)}
<1>8. PICK n \in sizes : \A m \in sizes : n <= m
  <2>1. sizes \in SUBSET Nat
    BY <1>7
  <2>2. 1 \in 1..Len(cands)
    BY <1>4
  <2>3. Size(cands[1]) \in sizes
    BY <2>2
  <2> HIDE DEF sizes
  <2> QED
    BY <2>1, <2>3, LeastNat
<1> DEFINE smallest == {k \in 1..Len(cands) : Size(cands[k]) = n}
<1>9. PICK i \in smallest : \A j \in smallest : i <= j
  <2>1. smallest \in SUBSET Nat /\ smallest # {}
    BY <1>8
  <2> HIDE DEF smallest
  <2> QED
    BY <2>1, LeastNat
<1>10. i \in DOMAIN cands /\ Best(i)
  <2>1. \A j \in 1..Len(cands) : n <= Size(cands[j])
    BY <1>8
  <2>2. ASSUME NEW j \in 1..(i - 1) PROVE j \in 1..Len(cands) /\ Size(cands[j]) # n
    <3>1. Len(cands) \in Nat /\ i \in 1..Len(cands)
      BY <1>4, <1>9
    <3>2. j \in 1..Len(cands) /\ ~(i <= j)
      BY <3>1
    <3>3. j \notin smallest
      BY <1>9, <3>2
    <3> QED
      BY <3>2, <3>3
  <2>3. \A j \in 1..(i - 1) : Size(cands[i]) < Size(cands[j])
    BY <1>7, <1>9, <2>1, <2>2
  <2> QED
    BY <1>6, <1>9, <2>1, <2>3
<1> DEFINE best == CHOOSE k \in DOMAIN cands : Best(k)
<1>11. best \in DOMAIN cands
  BY <1>10
<1>12. Driver(v) = cands[best]
  BY DEF Driver, cands
<1> QED
  BY <1>5, <1>6, <1>11, <1>12

-----------------------------------------------------------------------------
(* Traversals *)

\* The sides of the stores that traversals read stay as they are.
Frozen ==
  /\ ensured \subseteq ensured'
  /\ \A t \in Types : store'[t].entities = store[t].entities /\ store'[t].sparse = store[t].sparse

LEMMA FrozenMatches ==
  ASSUME IInv, Frozen, NEW v \in Views, Needed(v) \subseteq ensured, NEW e \in Handle
  PROVE  Matches(v, e)' <=> Matches(v, e)
<1>1. \A t \in Types : Holds(store[t], e)' <=> Holds(store[t], e)
  BY DEF Frozen, Holds, Index
<1>2. \A t \in Types \ ensured : ~Holds(store[t], e)
  BY HoldsMeans, StoreFacts DEF EmptyStorage, ToSet
<1> QED
  BY <1>1, <1>2, ViewTypes DEF Matches, Frozen, Needed

\* Nothing that happens while stores are frozen disturbs a suspended traversal.
LEMMA FrozenIntact ==
  ASSUME IInv, Frozen, NEW f \in Frame, Intact(f)
  PROVE  Intact(f)'
<1>1. f.view \in Views /\ f.driver \in Types /\ DOMAIN f.borrowed \subseteq Types
  BY DEF Frame
<1>2. f.pos \in 1..Size(f.driver) /\ Size(f.driver) \in Nat
  BY <1>1, StoreFacts DEF Intact
<1>3. \A t \in Types : store'[t].entities = store[t].entities
  BY DEF Frozen
<1>4. Size(f.driver)' = Size(f.driver)
  BY <1>1, <1>3 DEF Size
<1>5. \A i \in 1..f.pos : store[f.driver].entities[i] \in Handle
  BY <1>1, <1>2, StoreFacts
<1>6. Called(f)' = Called(f)
  BY <1>1, <1>3, <1>5, FrozenMatches DEF Called, Intact
<1>7. ensured \subseteq ensured'
  BY DEF Frozen
<1> QED
  BY <1>1, <1>3, <1>4, <1>6, <1>7 DEF Intact

\* A sequence without repetitions and one element more.
LEMMA Extended ==
  ASSUME NEW X, NEW s \in Seq(X), NEW e \in X
  PROVE  /\ Append(s, e) \in Seq(X) /\ Append(s, e) # <<>> /\ Last(Append(s, e)) = e
         /\ ToSet(Append(s, e)) = ToSet(s) \cup {e}
         /\ IsInjective(s) /\ e \notin ToSet(s) => IsInjective(Append(s, e))
<1> DEFINE r == Append(s, e)
<1>1. /\ r \in Seq(X) /\ r # <<>> /\ Len(r) = Len(s) + 1
      /\ \A k \in 1..Len(s) : r[k] = s[k]
      /\ r[Len(s) + 1] = e
  BY AppendProperties
<1>2. Len(s) \in Nat /\ DOMAIN s = 1..Len(s)
  BY LenProperties
<1>3. DOMAIN r = 1..(Len(s) + 1)
  BY <1>1, LenProperties
<1> HIDE DEF r
<1>4. 1..(Len(s) + 1) = 1..Len(s) \cup {Len(s) + 1}
  BY <1>2
<1>5. ToSet(r) = ToSet(s) \cup {e}
  BY <1>1, <1>2, <1>3, <1>4 DEF ToSet
<1>6. ASSUME IsInjective(s), e \notin ToSet(s) PROVE IsInjective(r)
  <2>1. \A k \in 1..Len(s) : s[k] # e
    BY <1>2, <1>6 DEF ToSet
  <2> SUFFICES ASSUME NEW a \in 1..(Len(s) + 1), NEW b \in 1..(Len(s) + 1), r[a] = r[b]
               PROVE  a = b
    BY <1>3 DEF IsInjective
  <2>2. CASE a = Len(s) + 1
    BY <1>1, <1>4, <2>1, <2>2
  <2>3. CASE b = Len(s) + 1
    BY <1>1, <1>4, <2>1, <2>3
  <2>4. CASE a \in 1..Len(s) /\ b \in 1..Len(s)
    BY <1>1, <1>2, <1>6, <2>4 DEF IsInjective
  <2> QED
    BY <1>4, <2>2, <2>3, <2>4
<1>7. Last(r) = e
  BY <1>1 DEF Last
<1> QED
  BY <1>1, <1>5, <1>6, <1>7 DEF r

\* The next match after the positions 1..p is called back, and the traversal
\* is intact again.
LEMMA CalledBack ==
  ASSUME IInv, NEW B,
         NEW f \in [view : Views, driver : Types, pos : Nat, visited : Seq(Handle), borrowed : B],
         f.driver \in Needed(f.view), Needed(f.view) \subseteq ensured,
         NEW p \in 0..Size(f.driver),
         IsInjective(f.visited),
         ToSet(f.visited) = {store[f.driver].entities[i] :
                               i \in {i \in 1..p : Matches(f.view, store[f.driver].entities[i])}},
         MatchesAfter(f.view, f.driver, p) # {}
  PROVE  LET g == At(f, Min(MatchesAfter(f.view, f.driver, p)))
         IN  g \in Frame /\ Intact(g)
<1> DEFINE S == MatchesAfter(f.view, f.driver, p)
           i == Min(S)
           d == f.driver
           e == store[d].entities[i]
           g == At(f, i)
<1>1. /\ f.view \in Views /\ d \in Types /\ f.visited \in Seq(Handle)
      /\ Size(d) \in Nat /\ p \in Nat /\ DOMAIN store[d].entities = 1..Size(d)
      /\ \A j \in 1..Size(d) : store[d].entities[j] \in Handle
  BY StoreFacts
<1>2. S \in SUBSET Nat /\ \A j \in S : j \in 1..Size(d) /\ p < j /\ Matches(f.view, store[d].entities[j])
  BY <1>1 DEF MatchesAfter
<1>3. i \in S /\ \A j \in S : i <= j
  <2>1. \E m \in S : \A n \in S : m <= n
    BY <1>2, LeastNat
  <2> HIDE DEF S
  <2> QED
    BY <2>1 DEF Min
<1>4. i \in 1..Size(d) /\ p < i /\ Matches(f.view, e) /\ e \in Handle
  BY <1>1, <1>2, <1>3
<1>5. \A j \in 1..i : Matches(f.view, store[d].entities[j]) <=>
        j = i \/ (j \in 1..p /\ Matches(f.view, store[d].entities[j]))
  <2> SUFFICES ASSUME NEW j \in 1..i, j # i, ~(j \in 1..p), Matches(f.view, store[d].entities[j])
               PROVE  FALSE
    BY <1>1, <1>4
  <2>1. j \in (p + 1)..Size(d) /\ ~(i <= j)
    BY <1>1, <1>4
  <2>2. j \in S
    BY <2>1 DEF MatchesAfter
  <2> QED
    BY <1>3, <2>1, <2>2
<1> HIDE DEF S, i
<1>6. ToSet(f.view.required) \subseteq Types
  BY <1>1, ViewTypes
<1>7. \A t \in ToSet(f.view.required) :
        Index(store[t], e) \in 1..Size(t) /\ store[t].entities[Index(store[t], e)] = e
  BY <1>4, <1>6, HoldsMeans DEF Matches
<1> DEFINE addresses == [t \in ToSet(f.view.required) |-> Index(store[t], e)]
           seen == Append(f.visited, e)
<1>8. g = [view |-> f.view, driver |-> d, pos |-> i, visited |-> seen, borrowed |-> addresses]
  <2>1. g = [f EXCEPT !.pos = i, !.visited = seen, !.borrowed = addresses]
    BY DEF At
  <2> HIDE DEF addresses, seen
  <2> QED
    BY <2>1
<1>9. e \notin ToSet(f.visited)
  BY <1>1, <1>4, Distinct
<1>10. /\ Append(f.visited, e) \in Seq(Handle) /\ Append(f.visited, e) # <<>>
       /\ Last(Append(f.visited, e)) = e
       /\ ToSet(Append(f.visited, e)) = ToSet(f.visited) \cup {e}
       /\ IsInjective(Append(f.visited, e))
  BY <1>1, <1>4, <1>9, Extended
<1>11. \A t \in ToSet(f.view.required) : Index(store[t], e) \in Nat
  BY <1>6, <1>7, StoreFacts
<1>12. [t \in ToSet(f.view.required) |-> Index(store[t], e)] \in [ToSet(f.view.required) -> Nat]
  BY <1>11
<1>13. i \in Nat \ {0}
  BY <1>1, <1>4
<1>14. g \in Frame
  BY <1>1, <1>6, <1>8, <1>10, <1>12, <1>13 DEF Frame
<1>15. Called(g) = {j \in 1..p : Matches(f.view, store[d].entities[j])} \cup {i}
  <2>1. Called(g) = {j \in 1..i : Matches(f.view, store[d].entities[j])}
    BY <1>8 DEF Called
  <2>2. i \in 1..i /\ \A j \in 1..p : j \in 1..i
    BY <1>1, <1>4
  <2> QED
    BY <1>5, <2>1, <2>2
<1>16. ToSet(g.visited) = {store[d].entities[j] : j \in Called(g)}
  <2>1. ToSet(g.visited) = ToSet(f.visited) \cup {e}
    BY <1>8, <1>10
  <2> QED
    BY <1>15, <2>1
<1>17. \A t \in DOMAIN g.borrowed : /\ g.borrowed[t] \in DOMAIN store[t].entities
                                   /\ store[t].entities[g.borrowed[t]] = e
  BY <1>6, <1>7, <1>8, StoreFacts
<1>18. Intact(g)
  <2>1. g.view = f.view /\ g.driver = d /\ g.pos = i /\ g.visited = seen
    BY <1>8
  <2>2. g.visited # <<>> /\ Last(g.visited) = e /\ IsInjective(g.visited)
    BY <1>10, <2>1
  <2> HIDE DEF g, seen, addresses
  <2> QED
    BY <1>4, <1>16, <1>17, <2>1, <2>2 DEF Intact
<1> QED
  BY <1>14, <1>18 DEF S, i

-----------------------------------------------------------------------------
(* The invariant *)

LEMMA FrameFacts ==
  ASSUME QInv
  PROVE  /\ Len(frames) \in Nat /\ DOMAIN frames = 1..Len(frames)
         /\ \A n \in 1..Len(frames) : frames[n] \in Frame /\ frames[n] \in ToSet(frames) /\ Intact(frames[n])
         /\ frames # <<>> => Len(frames) \in Nat \ {0} /\ Last(frames) = frames[Len(frames)]
<1>1. frames \in Seq(Frame)
  BY DEF QInv
<1>2. Len(frames) \in Nat /\ DOMAIN frames = 1..Len(frames)
  BY <1>1, LenProperties
<1>3. \A n \in 1..Len(frames) : frames[n] \in Frame /\ frames[n] \in ToSet(frames)
  BY <1>1, <1>2, ElementOfSeq DEF ToSet
<1>4. frames # <<>> => Len(frames) \in Nat \ {0}
  BY <1>1, EmptySeq
<1> QED
  BY <1>2, <1>3, <1>4 DEF QInv, Last

\* The outermost traversals.
LEMMA Outer ==
  ASSUME QInv, NEW m \in 0..Len(frames)
  PROVE  /\ SubSeq(frames, 1, m) \in Seq(Frame) /\ Len(SubSeq(frames, 1, m)) = m
         /\ ToSet(SubSeq(frames, 1, m)) \subseteq ToSet(frames)
<1> DEFINE r == SubSeq(frames, 1, m)
<1>1. Len(frames) \in Nat /\ m \in Nat /\ \A i \in 1..m : i \in 1..Len(frames) /\ frames[i] \in Frame
  BY FrameFacts
<1>2. /\ r \in Seq(Frame) /\ Len(r) = IF 1 <= m THEN m - 1 + 1 ELSE 0
      /\ \A i \in 1..(m - 1 + 1) : r[i] = frames[1 + i - 1]
  BY <1>1, SubSeqProperties
<1>3. DOMAIN r = 1..Len(r)
  BY <1>2, LenProperties
<1> HIDE DEF r
<1>4. Len(r) = m
  BY <1>1, <1>2
<1>5. \A i \in 1..m : r[i] = frames[i]
  BY <1>1, <1>2
<1>6. ToSet(r) \subseteq ToSet(frames)
  BY <1>1, <1>3, <1>4, <1>5, FrameFacts DEF ToSet
<1> QED
  BY <1>2, <1>4, <1>6 DEF r

\* Traversals end, or none does.
LEMMA CutFrames ==
  ASSUME QInv, IInv', Frozen, NEW m \in 0..Len(frames),
         frames' = SubSeq(frames, 1, m), queryDepth' = m
  PROVE  QInv'
<1>1. frames' \in Seq(Frame) /\ Len(frames') = m /\ ToSet(frames') \subseteq ToSet(frames)
  BY Outer
<1>2. \A f \in ToSet(frames) : f \in Frame
  BY FrameFacts DEF ToSet
<1>3. \A f \in ToSet(frames') : Intact(f)'
  BY <1>1, <1>2, FrozenIntact DEF QInv
<1> QED
  BY <1>1, <1>3 DEF QInv

\* A traversal calls back, above the m outermost ones.
LEMMA PushFrame ==
  ASSUME QInv, IInv', Frozen, NEW m \in 0..Len(frames), NEW g \in Frame, Intact(g),
         frames' = Append(SubSeq(frames, 1, m), g), queryDepth' = m + 1
  PROVE  QInv'
<1>1. SubSeq(frames, 1, m) \in Seq(Frame) /\ Len(SubSeq(frames, 1, m)) = m
      /\ ToSet(SubSeq(frames, 1, m)) \subseteq ToSet(frames)
  BY Outer
<1>2. frames' \in Seq(Frame) /\ Len(frames') = m + 1
      /\ ToSet(frames') = ToSet(SubSeq(frames, 1, m)) \cup {g}
  <2> DEFINE r == SubSeq(frames, 1, m)
  <2>1. r \in Seq(Frame) /\ Len(r) = m /\ frames' = Append(r, g)
    BY <1>1
  <2> HIDE DEF r
  <2>2. /\ Append(r, g) \in Seq(Frame) /\ Len(Append(r, g)) = m + 1
        /\ ToSet(Append(r, g)) = ToSet(r) \cup {g}
    BY <2>1, AppendProperties, Extended
  <2> QED
    BY <2>1, <2>2 DEF r
<1>3. \A f \in ToSet(frames) : f \in Frame
  BY FrameFacts DEF ToSet
<1>4. \A f \in ToSet(frames') : Intact(f)'
  BY <1>1, <1>2, <1>3, FrozenIntact DEF QInv
<1> QED
  BY <1>2, <1>4 DEF QInv

\* Nothing ends and nothing begins.
LEMMA KeepFrames ==
  ASSUME QInv, IInv', Frozen, frames' = frames, queryDepth' = queryDepth
  PROVE  QInv'
<1>1. SubSeq(frames, 1, Len(frames)) = frames
  BY SubSeqFull DEF QInv
<1>2. Len(frames) \in 0..Len(frames) /\ queryDepth' = Len(frames)
  BY FrameFacts DEF QInv
<1> QED
  BY <1>1, <1>2, CutFrames

LEMMA QInitInv == QueryInit => QInv
<1> SUFFICES ASSUME QueryInit PROVE QInv
  OBVIOUS
<1>1. IInv /\ frames = <<>> /\ queryDepth = 0
  BY InitInv DEF QueryInit, WorldInit
<1>2. <<>> \in Seq(Frame) /\ Len(<<>>) = 0 /\ ToSet(<<>>) = {}
  BY EmptySeq DEF ToSet
<1> QED
  BY <1>1, <1>2 DEF QInv

\* Operations in a callback can replace components only; between traversals
\* there is nothing to disturb.
LEMMA MutateInv ==
  ASSUME QInv, Mutate
  PROVE  QInv'
<1>1. frames' = frames
  BY DEF Mutate
<1>2. IInv'
  BY ReuseInv, GrowInv, DestroyInv, SetInv, RemoveInv DEF Mutate, NewEntity, QInv
<1>3. queryDepth' = queryDepth
  BY DEF Mutate, NewEntity, NewEntityReuse, NewEntityGrow, Destroy, Set, SetReplace, SetAdd, RemoveComponent
<1>4. CASE frames = <<>>
  <2>1. ToSet(<<>>) = {} /\ Len(<<>>) = 0 /\ <<>> \in Seq(Frame)
    BY EmptySeq DEF ToSet
  <2> QED
    BY <1>1, <1>2, <1>3, <1>4, <2>1 DEF QInv
<1>5. CASE frames # <<>>
  <2>1. queryDepth # 0
    BY <1>5, FrameFacts DEF QInv
  <2>2. PICK e \in Inputs, t \in Types, v \in Values : SetReplace(e, t, v)
    BY <2>1 DEF Mutate, NewEntity, NewEntityReuse, NewEntityGrow, Destroy, Set, SetAdd, RemoveComponent
  <2>3. ensured' = ensured /\ store' = [store EXCEPT ![t] = ReplaceIn(store[t], e, v)]
    BY <2>2 DEF SetReplace
  <2>4. store[t] \in Storage /\ store \in [Types -> Storage]
    BY DEF QInv, IInv, TypeOK
  <2>5. ReplaceIn(store[t], e, v).entities = store[t].entities
        /\ ReplaceIn(store[t], e, v).sparse = store[t].sparse
    BY <2>4 DEF ReplaceIn, Storage
  <2>6. Frozen
    BY <2>3, <2>4, <2>5 DEF Frozen
  <2> QED
    BY <1>1, <1>2, <1>3, <2>6, KeepFrames
<1> QED
  BY <1>4, <1>5

LEMMA ConstructInv ==
  ASSUME QInv, NEW v \in Views, Construct(v)
  PROVE  QInv'
<1>1. ensured' = ensured \cup ToSet(v.required) /\ UNCHANGED <<entityVars, queryDepth, store, frames>>
  BY DEF Construct, EnsureStorage
<1>2. IInv'
  BY <1>1, ViewTypes, QuietInv DEF QInv, IInv, TypeOK
<1>3. Frozen
  BY <1>1 DEF Frozen
<1> QED
  BY <1>1, <1>2, <1>3, KeepFrames

LEMMA BeginInv ==
  ASSUME QInv, NEW v \in Views, Begin(v)
  PROVE  QInv'
<1> DEFINE d == Driver(v)
           f == [view |-> v, driver |-> d, pos |-> 1, visited |-> <<>>, borrowed |-> <<>>]
           g == At(f, Min(MatchesAfter(v, d, 0)))
<1>1. /\ ToSet(v.required) \subseteq ensured /\ ToSet(v.with) \subseteq ensured
      /\ MatchesAfter(v, d, 0) # {} /\ EnterQuery /\ frames' = Append(frames, g)
  BY DEF Begin, Runnable
<1>2. queryDepth' = queryDepth + 1 /\ UNCHANGED <<entityVars, storeVars>>
  BY <1>1 DEF EnterQuery
<1>3. IInv' /\ Frozen
  BY <1>2, QuietInv DEF QInv, IInv, TypeOK, storeVars, Frozen
<1>4. d \in Needed(v) /\ d \in Types /\ Needed(v) \subseteq ensured
  BY <1>1, DriverNeeded, ViewTypes DEF QInv, Needed
<1>5. g \in Frame /\ Intact(g)
  <2> DEFINE r == [view : Views, driver : Types, pos : Nat, visited : Seq(Handle), borrowed : {<<>>}]
  <2>1. <<>> \in Seq(Handle) /\ ToSet(<<>>) = {} /\ IsInjective(<<>>)
    BY EmptySeq DEF ToSet, IsInjective
  <2>2. f \in r /\ f.view = v /\ f.driver = d /\ f.visited = <<>>
    BY <1>4, <2>1
  <2>3. 0 \in 0..Size(d)
    BY <1>4, StoreFacts DEF QInv
  <2>4. {store[d].entities[i] : i \in {i \in 1..0 : Matches(v, store[d].entities[i])}} = {}
    OBVIOUS
  <2> HIDE DEF f, d, r
  <2> QED
    BY <1>1, <1>4, <2>1, <2>2, <2>3, <2>4, CalledBack DEF QInv, r
<1>6. SubSeq(frames, 1, Len(frames)) = frames /\ Len(frames) \in 0..Len(frames)
  BY SubSeqFull, FrameFacts DEF QInv
<1> HIDE DEF g
<1> QED
  BY <1>1, <1>2, <1>3, <1>5, <1>6, PushFrame DEF QInv

LEMMA ContinueInv ==
  ASSUME QInv, Continue
  PROVE  QInv'
<1> DEFINE f == Last(frames)
           g == At(f, Min(Rest(f)))
           m == Len(frames) - 1
<1>1. frames # <<>> /\ Rest(f) # {} /\ frames' = Append(Front(frames), g) /\ UNCHANGED worldVars
  BY DEF Continue
<1>2. IInv' /\ Frozen /\ queryDepth' = queryDepth
  BY <1>1, NextInv DEF QInv, worldVars, Frozen
<1>3. Len(frames) \in Nat \ {0} /\ f = frames[Len(frames)]
  BY <1>1, FrameFacts
<1>4. f \in Frame /\ Intact(f)
  BY <1>3, FrameFacts
<1>5. g \in Frame /\ Intact(g)
  <2>1. f.driver \in Needed(f.view) /\ Needed(f.view) \subseteq ensured /\ f.pos \in 1..Size(f.driver)
        /\ IsInjective(f.visited)
        /\ ToSet(f.visited) = {store[f.driver].entities[i] : i \in Called(f)}
    BY <1>4 DEF Intact
  <2>2. f.driver \in Types
    BY <1>4 DEF Frame
  <2>3. f.pos \in 0..Size(f.driver)
    BY <2>1, <2>2, StoreFacts DEF QInv
  <2>4. f \in [view : Views, driver : Types, pos : Nat, visited : Seq(Handle),
               borrowed : UNION {[ts -> Nat] : ts \in SUBSET Types}]
    BY <1>4 DEF Frame
  <2> HIDE DEF f
  <2> QED
    BY <1>1, <2>1, <2>3, <2>4, CalledBack DEF QInv, Rest, Called
<1>6. Front(frames) = SubSeq(frames, 1, m) /\ m \in 0..Len(frames) /\ queryDepth' = m + 1
  BY <1>2, <1>3 DEF Front, QInv
<1> HIDE DEF g, m
<1> QED
  BY <1>1, <1>2, <1>5, <1>6, PushFrame

\* k traversals end: by completion, by a callback's false, or by a panic.
LEMMA EndsInv ==
  ASSUME QInv, NEW k \in 1..Len(frames), frames' = SubSeq(frames, 1, Len(frames) - k),
         queryDepth' = queryDepth - k, UNCHANGED <<entityVars, storeVars>>
  PROVE  QInv'
<1>1. Len(frames) - k \in 0..Len(frames) /\ queryDepth' = Len(frames) - k
  BY FrameFacts DEF QInv
<1>2. IInv'
  BY <1>1, QuietInv DEF QInv, IInv, TypeOK, storeVars
<1>3. Frozen
  BY DEF Frozen, storeVars
<1> QED
  BY <1>1, <1>2, <1>3, CutFrames

LEMMA LeaveInv ==
  ASSUME QInv, frames # <<>>, frames' = Front(frames), LeaveQuery
  PROVE  QInv'
<1>1. 1 \in 1..Len(frames) /\ frames' = SubSeq(frames, 1, Len(frames) - 1)
  BY FrameFacts DEF Front
<1>2. queryDepth' = queryDepth - 1 /\ UNCHANGED <<entityVars, storeVars>>
  BY DEF LeaveQuery
<1> QED
  BY <1>1, <1>2, EndsInv

LEMMA QNextInv == QInv /\ [QueryNext]_queryVars => QInv'
<1> SUFFICES ASSUME QInv, [QueryNext]_queryVars PROVE QInv'
  OBVIOUS
<1>1. CASE Mutate
  BY <1>1, MutateInv
<1>2. ASSUME NEW v \in Views, Construct(v) PROVE QInv'
  BY <1>2, ConstructInv
<1>3. ASSUME NEW v \in Views, Begin(v) PROVE QInv'
  BY <1>3, BeginInv
<1>4. CASE Continue
  BY <1>4, ContinueInv
<1>5. CASE Complete
  BY <1>5, LeaveInv DEF Complete
<1>6. CASE Stop
  BY <1>6, LeaveInv DEF Stop
<1>7. ASSUME NEW k \in 1..MaxDepth, Unwind(k) PROVE QInv'
  <2>1. k \in 1..Len(frames)
    BY <1>7, WorldAssumption, FrameFacts DEF Unwind
  <2> QED
    BY <1>7, <2>1, EndsInv DEF Unwind
<1>8. CASE UNCHANGED queryVars
  <2>1. UNCHANGED worldVars /\ frames' = frames
    BY <1>8 DEF queryVars
  <2>2. IInv'
    BY <2>1, NextInv DEF QInv
  <2>3. Frozen /\ queryDepth' = queryDepth
    BY <2>1 DEF worldVars, Frozen
  <2> QED
    BY <2>1, <2>2, <2>3, KeepFrames
<1> QED
  BY <1>1, <1>2, <1>3, <1>4, <1>5, <1>6, <1>7, <1>8 DEF QueryNext

-----------------------------------------------------------------------------
(* The theorems *)

\* Entities and stores stay coherent while queries run over them, the depth is
\* the number of traversals, and each of them is intact.
THEOREM QueryInvariant == QuerySpec => []QInv
<1> QED
  BY QInitInv, QNextInv, PTL DEF QuerySpec

\* The pointers a callback was given stay its entity's, whatever it and the
\* callbacks nested in it do (View.Each, Set, requireStructural).
THEOREM QueryBorrowsValid == QuerySpec => []BorrowsValid
<1>1. QInv => BorrowsValid
  BY FrameFacts DEF BorrowsValid, Intact
<1> QED
  BY <1>1, QueryInvariant, PTL

\* Each query reaches what it selects, whichever store drives it (each).
THEOREM QueryDriverReaches == QuerySpec => []DriverReachesSelected
<1>1. QInv => DriverReachesSelected
  <2> SUFFICES ASSUME QInv, NEW v \in Views, ToSet(v.required) \subseteq ensured
               PROVE  Selected(v) = IF Runnable(v)
                        THEN {store[Driver(v)].entities[i] : i \in MatchesAfter(v, Driver(v), 0)}
                        ELSE {}
    BY DEF DriverReachesSelected
  <2>1. CASE Runnable(v)
    <3>1. Needed(v) \subseteq ensured /\ Driver(v) \in Needed(v)
      BY <2>1, DriverNeeded DEF Runnable, Needed, QInv
    <3>2. MatchesAfter(v, Driver(v), 0) =
            {i \in 1..Size(Driver(v)) : Matches(v, store[Driver(v)].entities[i])}
      BY DEF MatchesAfter
    <3> QED
      BY <2>1, <3>1, <3>2, Scan DEF QInv
  <2>2. CASE ~Runnable(v)
    <3>1. PICK t \in ToSet(v.with) : t \notin ensured
      BY <2>2 DEF Runnable
    <3>2. store[t] = EmptyStorage
      BY <3>1, ViewTypes, StoreFacts DEF QInv
    <3>3. ToSet(store[t].entities) = {}
      BY <3>2 DEF EmptyStorage, ToSet
    <3> QED
      BY <2>2, <3>1, <3>3 DEF Selected
  <2> QED
    BY <2>1, <2>2
<1> QED
  BY <1>1, QueryInvariant, PTL

\* A traversal that runs to its end called back each selected entity once.
THEOREM QueryVisitsEachOnce == QuerySpec => CompleteVisitsEachOnce
<1> DEFINE Once == Complete => LET f == Last(frames)
                               IN  IsInjective(f.visited) /\ ToSet(f.visited) = Selected(f.view)
<1>1. QInv /\ [QueryNext]_queryVars => [Once]_queryVars
  <2> SUFFICES ASSUME QInv, Complete
               PROVE  LET f == Last(frames)
                      IN  IsInjective(f.visited) /\ ToSet(f.visited) = Selected(f.view)
    OBVIOUS
  <2> DEFINE f == Last(frames)
  <2>1. f \in Frame /\ Intact(f) /\ Rest(f) = {}
    BY FrameFacts DEF Complete
  <2> HIDE DEF f
  <2>2. f.driver \in Needed(f.view) /\ Needed(f.view) \subseteq ensured /\ f.pos \in 1..Size(f.driver)
        /\ IsInjective(f.visited)
        /\ ToSet(f.visited) = {store[f.driver].entities[i] : i \in Called(f)}
    BY <2>1 DEF Intact
  <2>3. f.view \in Views /\ Size(f.driver) \in Nat
    BY <2>1, StoreFacts DEF Frame, QInv
  <2>4. \A i \in 1..Size(f.driver) : Matches(f.view, store[f.driver].entities[i]) => i \in 1..f.pos
    BY <2>1, <2>2, <2>3 DEF Rest, MatchesAfter
  <2>5. Called(f) = {i \in 1..Size(f.driver) : Matches(f.view, store[f.driver].entities[i])}
    BY <2>2, <2>3, <2>4 DEF Called
  <2>6. Selected(f.view) = {store[f.driver].entities[i] : i \in Called(f)}
    BY <2>2, <2>3, <2>5, Scan DEF QInv
  <2> QED
    BY <2>2, <2>6 DEF f
<1> QED
  BY <1>1, QueryInvariant, PTL DEF QuerySpec, CompleteVisitsEachOnce

\* To the entities and their components a step inside or around traversals is
\* a step of the World, or none: panics and nested traversals only move depths.
LEMMA QueryWorldStep ==
  ASSUME [QueryNext]_queryVars
  PROVE  [WorldNext]_worldVars \/ UNCHANGED <<entityVars, store>>
<1>1. CASE UNCHANGED queryVars
  BY <1>1 DEF queryVars
<1>2. CASE Mutate
  BY <1>2 DEF Mutate, WorldNext
<1>3. ASSUME NEW v \in Views, Construct(v) \/ Begin(v) PROVE UNCHANGED <<entityVars, store>>
  BY <1>3 DEF Construct, EnsureStorage, Begin, EnterQuery, storeVars
<1>4. CASE Continue \/ Complete \/ Stop
  BY <1>4 DEF Continue, Complete, Stop, LeaveQuery, storeVars, worldVars, entityVars
<1>5. ASSUME NEW k \in 1..MaxDepth, Unwind(k) PROVE UNCHANGED <<entityVars, store>>
  BY <1>5 DEF Unwind, storeVars
<1> QED
  BY <1>1, <1>2, <1>3, <1>4, <1>5 DEF QueryNext

\* A World stays an entity map when traversals nest, stop and panic, and their
\* callbacks replace components (each).
THEOREM QueryImplementsEntityMap == QuerySpec => ImplementsEntityMap
<1>1. QueryInit => Map!Init
  BY MapInit DEF QueryInit
<1>2. QInv /\ [QueryNext]_queryVars => [Map!Next]_(Map!vars)
  BY QueryWorldStep, MapStep, QuietStep DEF QInv
<1> QED
  BY <1>1, <1>2, QueryInvariant, PTL DEF QuerySpec, ImplementsEntityMap, Map!Spec

-----------------------------------------------------------------------------
(* Resources *)

\* The cells of the types present are different, and a pointer that was kept
\* leads into such a cell only if this installation lent it.
Apart ==
  /\ \A s, t \in Present : s # t => resources[s] # resources[t]
  /\ \A t \in Present : lent[t] \subseteq {resources[t]} /\ (resources[t] \in held => resources[t] \in lent[t])
  /\ \A t \in ResourceTypes \ Present : lent[t] = {}

ResourcesTyped ==
  /\ Present \subseteq ResourceTypes /\ resources \in [Present -> Cells]
  /\ heap \in [Cells -> ResourceValues]
  /\ latest \in [Present -> ResourceValues]
  /\ lent \in [ResourceTypes -> SUBSET Cells] /\ held \subseteq Cells

ResourcesInv == ResourcesTyped /\ Apart /\ ReadersSeeLatest

\* new(T) finds a cell when there is one.
LEMMA FreshCell ==
  ASSUME Unaddressed # {}
  PROVE  Fresh \in Cells /\ Fresh \notin held /\ \A t \in Present : resources[t] # Fresh
<1>1. Unaddressed \in SUBSET Nat
  BY ResourcesAssumption DEF Unaddressed, Cells
<1>2. Fresh \in Unaddressed
  <2>1. PICK p \in Unaddressed : \A q \in Unaddressed : p <= q
    BY <1>1, LeastNat
  <2> QED
    BY <2>1 DEF Fresh, Min
<1> QED
  BY <1>2 DEF Unaddressed

LEMMA ReplaceInv ==
  ASSUME ResourcesInv, NEW t \in ResourceTypes, NEW v \in ResourceValues, Replace(t, v)
  PROVE  ResourcesInv'
<1>1. /\ t \in Present /\ heap' = [heap EXCEPT ![resources[t]] = v]
      /\ latest' = [s \in DOMAIN latest \cup {t} |-> IF s = t THEN v ELSE latest[s]]
      /\ UNCHANGED <<resources, lent, held>> /\ Present' = Present
  BY DEF Replace, With, Present
<1>2. ResourcesTyped'
  BY <1>1 DEF ResourcesInv, ResourcesTyped
<1>3. Apart'
  BY <1>1 DEF ResourcesInv, Apart
<1>4. ReadersSeeLatest'
  BY <1>1 DEF ResourcesInv, ResourcesTyped, Apart, ReadersSeeLatest
<1> QED
  BY <1>2, <1>3, <1>4 DEF ResourcesInv

\* A new installation's cell is nobody else's, and no old pointer leads there.
LEMMA InstallInv ==
  ASSUME ResourcesInv, NEW t \in ResourceTypes, NEW v \in ResourceValues, Install(t, v)
  PROVE  ResourcesInv'
<1> DEFINE p == Fresh
<1>1. p \in Cells /\ p \notin held /\ \A s \in Present : resources[s] # p
  BY FreshCell DEF Install
<1>2. /\ t \notin Present /\ Present' = Present \cup {t}
      /\ resources' = [s \in Present \cup {t} |-> IF s = t THEN p ELSE resources[s]]
      /\ heap' = [heap EXCEPT ![p] = v]
      /\ latest' = [s \in DOMAIN latest \cup {t} |-> IF s = t THEN v ELSE latest[s]]
      /\ UNCHANGED <<lent, held>>
  BY DEF Install, With, Present
<1> HIDE DEF p
<1>3. ResourcesTyped'
  BY <1>1, <1>2 DEF ResourcesInv, ResourcesTyped, Cells
<1>4. Apart'
  BY <1>1, <1>2 DEF ResourcesInv, ResourcesTyped, Apart
<1>5. ReadersSeeLatest'
  BY <1>1, <1>2 DEF ResourcesInv, ResourcesTyped, ReadersSeeLatest
<1> QED
  BY <1>3, <1>4, <1>5 DEF ResourcesInv

LEMMA GetResourceInv ==
  ASSUME ResourcesInv, NEW t \in ResourceTypes, GetResource(t)
  PROVE  ResourcesInv'
<1>1. /\ t \in Present /\ Present' = Present
      /\ lent' = [lent EXCEPT ![t] = lent[t] \cup {resources[t]}] /\ held' = held \cup {resources[t]}
      /\ UNCHANGED <<resources, heap, latest>>
  BY DEF GetResource, Present
<1>2. ResourcesTyped'
  BY <1>1 DEF ResourcesInv, ResourcesTyped, Cells
<1>3. Apart'
  BY <1>1 DEF ResourcesInv, ResourcesTyped, Apart
<1>4. ReadersSeeLatest'
  BY <1>1 DEF ResourcesInv, ReadersSeeLatest
<1> QED
  BY <1>2, <1>3, <1>4 DEF ResourcesInv

LEMMA RemoveResourceInv ==
  ASSUME ResourcesInv, NEW t \in ResourceTypes, RemoveResource(t)
  PROVE  ResourcesInv'
<1>1. /\ t \in Present /\ Present' = Present \ {t}
      /\ resources' = [s \in Present \ {t} |-> resources[s]]
      /\ latest' = [s \in DOMAIN latest \ {t} |-> latest[s]]
      /\ lent' = [lent EXCEPT ![t] = {}]
      /\ UNCHANGED <<heap, held>>
  BY DEF RemoveResource, Without, Present
<1>2. ResourcesTyped'
  BY <1>1 DEF ResourcesInv, ResourcesTyped
<1>3. Apart'
  BY <1>1 DEF ResourcesInv, ResourcesTyped, Apart
<1>4. ReadersSeeLatest'
  BY <1>1 DEF ResourcesInv, ResourcesTyped, ReadersSeeLatest
<1> QED
  BY <1>2, <1>3, <1>4 DEF ResourcesInv

\* A write lands in the cell of the installation that lent the pointer, or in
\* a cell that no type has any more.
LEMMA WriteInv ==
  ASSUME ResourcesInv, NEW p \in held, NEW v \in ResourceValues, Write(p, v)
  PROVE  ResourcesInv'
<1>1. /\ heap' = [heap EXCEPT ![p] = v] /\ p \in Cells
      /\ latest' = [t \in DOMAIN latest |-> IF p \in lent[t] THEN v ELSE latest[t]]
      /\ UNCHANGED <<resources, lent, held>> /\ Present' = Present
  BY DEF Write, Present, ResourcesInv, ResourcesTyped
<1>2. ResourcesTyped'
  BY <1>1 DEF ResourcesInv, ResourcesTyped
<1>3. Apart'
  BY <1>1 DEF ResourcesInv, Apart
<1>4. ASSUME NEW t \in Present PROVE heap'[resources[t]] = latest'[t]
  <2>1. p \in lent[t] <=> resources[t] = p
    BY <1>4 DEF ResourcesInv, Apart
  <2>2. heap[resources[t]] = latest[t] /\ resources[t] \in Cells /\ t \in DOMAIN latest
    BY <1>4 DEF ResourcesInv, ResourcesTyped, ReadersSeeLatest
  <2> QED
    BY <1>1, <2>1, <2>2 DEF ResourcesInv, ResourcesTyped
<1>5. ReadersSeeLatest'
  BY <1>1, <1>4 DEF ReadersSeeLatest
<1> QED
  BY <1>2, <1>3, <1>5 DEF ResourcesInv

LEMMA ResourcesInitInv == ResourcesInit => ResourcesInv
<1> SUFFICES ASSUME ResourcesInit PROVE ResourcesInv
  OBVIOUS
<1>1. Present = {} /\ DOMAIN latest = {}
  BY DEF ResourcesInit, Present
<1>2. (CHOOSE v \in ResourceValues : TRUE) \in ResourceValues
  BY ResourcesAssumption
<1> QED
  BY <1>1, <1>2 DEF ResourcesInit, ResourcesInv, ResourcesTyped, Apart, ReadersSeeLatest

LEMMA ResourcesNextInv == ResourcesInv /\ [ResourcesNext]_resourceVars => ResourcesInv'
<1> SUFFICES ASSUME ResourcesInv, [ResourcesNext]_resourceVars PROVE ResourcesInv'
  OBVIOUS
<1>1. CASE UNCHANGED resourceVars
  BY <1>1 DEF resourceVars, ResourcesInv, ResourcesTyped, Apart, ReadersSeeLatest, Present
<1> QED
  BY <1>1, ReplaceInv, InstallInv, GetResourceInv, RemoveResourceInv, WriteInv DEF ResourcesNext

\* A reader finds what was last stored through the world or a pointer of this
\* installation, whatever callers do with pointers of resources that were
\* removed: for any types, values and number of cells (resource.go).
THEOREM ResourcesSeeLatest == ResourcesSpec => []ReadersSeeLatest
<1>1. ResourcesInv => ReadersSeeLatest
  BY DEF ResourcesInv
<1> QED
  BY <1>1, ResourcesInitInv, ResourcesNextInv, PTL DEF ResourcesSpec
=============================================================================
