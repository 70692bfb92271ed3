---------------------------- MODULE WorldsProofs -----------------------------
(***************************************************************************)
(* World identities are unique for any number of goroutines and any width  *)
(* of the counter; and the worlds example reports success only when every  *)
(* match was played to its end, for any matches, tick counts and channel.  *)
(***************************************************************************)
EXTENDS WorldsExample, SequenceTheorems, TLAPS

-----------------------------------------------------------------------------
(* Identities of worlds *)

IdsTyped ==
  /\ worldIDs \in 0..MaxId
  /\ pc \in [Callers -> Places]
  /\ previous \in [Callers -> 0..MaxId]
  /\ worlds \in Seq(1..MaxId)

\* A value on its way into the swap was not the last one; a value that was
\* swapped lies below the counter, which never comes back to it.
Claims ==
  /\ \A c \in Callers : pc[c] = "swap" => previous[c] < MaxId
  /\ \A c \in Callers : pc[c] = "build" => previous[c] < worldIDs

\* Identities already won are pairwise different and at most the counter.
Distinct ==
  /\ \A i, j \in DOMAIN worlds : i # j => worlds[i] # worlds[j]
  /\ \A i \in DOMAIN worlds : worlds[i] <= worldIDs
  /\ \A c \in Callers : pc[c] = "build" =>
       /\ \A i \in DOMAIN worlds : worlds[i] # previous[c] + 1
       /\ \A d \in Callers \ {c} : pc[d] = "build" => previous[d] # previous[c]

IdsInv == IdsTyped /\ Claims /\ Distinct

\* Below the last value the successor does not wrap.
LEMMA SuccessorExact ==
  ASSUME NEW n \in 0..MaxId, n < MaxId
  PROVE  Successor(n) = n + 1
<1>1. MaxId \in Nat /\ n + 1 \in 0..MaxId
  BY WorldIDsAssumption
<1> QED
  BY <1>1, SMT DEF Successor

LEMMA IdsInitInv == IdsInit => IdsInv
  BY WorldIDsAssumption DEF IdsInit, IdsInv, IdsTyped, Claims, Distinct, Places

LEMMA CallInv ==
  ASSUME IdsInv, NEW c \in Callers, Call(c) PROVE IdsInv'
  BY DEF IdsInv, IdsTyped, Claims, Distinct, Places, Call, Goto

LEMMA LoadInv ==
  ASSUME IdsInv, NEW c \in Callers, Load(c) PROVE IdsInv'
  BY WorldIDsAssumption DEF IdsInv, IdsTyped, Claims, Distinct, Places, Load, Goto

LEMMA LeaveInv ==
  ASSUME IdsInv, NEW c \in Callers, Exhausted(c) \/ Retry(c) PROVE IdsInv'
  BY DEF IdsInv, IdsTyped, Claims, Distinct, Places, Exhausted, Retry, Goto

\* Winning the swap: the counter stood at the loaded value, so every identity
\* won before is at most that value and the new one is above it.
LEMMA SwapInv ==
  ASSUME IdsInv, NEW c \in Callers, Swap(c) PROVE IdsInv'
<1>1. previous[c] \in 0..MaxId /\ previous[c] < MaxId /\ previous[c] = worldIDs
  BY DEF IdsInv, IdsTyped, Claims, Swap
<1>2. worldIDs' = worldIDs + 1
  BY <1>1, SuccessorExact DEF Swap, IdOf
<1>3. UNCHANGED <<previous, worlds>> /\ pc' = [pc EXCEPT ![c] = "build"]
  BY DEF Swap, Goto
<1>4. IdsTyped'
  BY <1>1, <1>2, <1>3, WorldIDsAssumption DEF IdsInv, IdsTyped, Places
<1>5. Claims'
  BY <1>1, <1>2, <1>3, WorldIDsAssumption DEF IdsInv, IdsTyped, Claims, Places
<1>6. Distinct'
  BY <1>1, <1>2, <1>3, WorldIDsAssumption DEF IdsInv, IdsTyped, Claims, Distinct, Places
<1> QED
  BY <1>4, <1>5, <1>6 DEF IdsInv

LEMMA ReturnInv ==
  ASSUME IdsInv, NEW c \in Callers, Return(c) PROVE IdsInv'
<1>1. /\ previous[c] \in 0..MaxId /\ previous[c] < worldIDs /\ worldIDs \in 0..MaxId
      /\ pc[c] = "build"
  BY DEF IdsInv, IdsTyped, Claims, Return
<1>2. IdOf(c) = previous[c] + 1
  BY <1>1, SuccessorExact, WorldIDsAssumption DEF IdOf
<1>3. /\ worlds' = Append(worlds, previous[c] + 1)
      /\ UNCHANGED <<worldIDs, previous>>
      /\ pc' = [pc EXCEPT ![c] = "out"]
  BY <1>2 DEF Return, Goto
<1>4. IdsTyped'
  BY <1>1, <1>3, WorldIDsAssumption DEF IdsInv, IdsTyped, Places
<1>5. Claims'
  BY <1>3 DEF IdsInv, IdsTyped, Claims, Places
<1>6. Distinct'
  <2>1. /\ worlds \in Seq(1..MaxId)
        /\ \A i, j \in DOMAIN worlds : i # j => worlds[i] # worlds[j]
        /\ \A i \in DOMAIN worlds : worlds[i] <= worldIDs
        /\ \A i \in DOMAIN worlds : worlds[i] # previous[c] + 1
    BY <1>1 DEF IdsInv, IdsTyped, Distinct
  <2>2. /\ DOMAIN worlds' = 1..(Len(worlds) + 1)
        /\ \A i \in DOMAIN worlds' : i # Len(worlds) + 1 => i \in DOMAIN worlds /\ worlds'[i] = worlds[i]
        /\ worlds'[Len(worlds) + 1] = previous[c] + 1
    <3>1. previous[c] + 1 \in 1..MaxId
      BY <1>1, WorldIDsAssumption
    <3> QED
      BY <1>3, <2>1, <3>1, AppendProperties, LenProperties
  <2>3. \A i, j \in DOMAIN worlds' : i # j => worlds'[i] # worlds'[j]
    BY <2>1, <2>2
  <2>4. \A i \in DOMAIN worlds' : worlds'[i] <= worldIDs'
    BY <1>1, <1>3, <2>1, <2>2
  <2>5. ASSUME NEW d \in Callers, pc'[d] = "build"
        PROVE  /\ \A i \in DOMAIN worlds' : worlds'[i] # previous'[d] + 1
               /\ \A f \in Callers \ {d} : pc'[f] = "build" => previous'[f] # previous'[d]
    <3>1. d # c /\ pc[d] = "build" /\ \A f \in Callers : pc'[f] = "build" => pc[f] = "build"
      BY <1>3, <2>5 DEF IdsInv, IdsTyped
    <3>2. /\ \A i \in DOMAIN worlds : worlds[i] # previous[d] + 1
          /\ \A f \in Callers \ {d} : pc[f] = "build" => previous[f] # previous[d]
      BY <3>1 DEF IdsInv, Distinct
    <3>3. previous[d] \in Nat /\ previous[c] # previous[d]
      BY <1>1, <3>1, <3>2, WorldIDsAssumption DEF IdsInv, IdsTyped
    <3> QED
      BY <1>1, <1>3, <2>2, <3>1, <3>2, <3>3
  <2> QED
    BY <2>3, <2>4, <2>5 DEF Distinct
<1> QED
  BY <1>4, <1>5, <1>6 DEF IdsInv

LEMMA IdsNextInv == IdsInv /\ [IdsNext]_idVars => IdsInv'
<1> SUFFICES ASSUME IdsInv, [IdsNext]_idVars PROVE IdsInv'
  OBVIOUS
<1>1. CASE UNCHANGED idVars
  BY <1>1 DEF idVars, IdsInv, IdsTyped, Claims, Distinct
<1>2. ASSUME NEW c \in Callers, Call(c) \/ NewWorld(c) PROVE IdsInv'
  BY <1>2, CallInv, LoadInv, LeaveInv, SwapInv, ReturnInv DEF NewWorld
<1> QED
  BY <1>1, <1>2 DEF IdsNext

LEMMA InvUnique == IdsInv => IdsUnique
<1> SUFFICES ASSUME IdsInv PROVE IdsUnique
  OBVIOUS
<1>1. IsInjective(worlds)
  BY DEF IdsInv, Distinct, IsInjective
<1>2. \A i \in DOMAIN worlds : worlds[i] \in 1..MaxId
  <2>1. worlds \in Seq(1..MaxId)
    BY DEF IdsInv, IdsTyped
  <2> QED
    BY <2>1, ElementOfSeq, LenProperties
<1>3. ASSUME NEW c \in Callers, pc[c] = "build"
      PROVE  IdOf(c) = previous[c] + 1 /\ previous[c] \in Nat
  BY <1>3, SuccessorExact, WorldIDsAssumption DEF IdOf, IdsInv, IdsTyped, Claims
<1>4. ASSUME NEW c \in Callers, pc[c] = "build"
      PROVE  /\ IdOf(c) \notin {0} \cup ToSet(worlds)
             /\ \A d \in Callers \ {c} : pc[d] = "build" => IdOf(d) # IdOf(c)
  <2>1. IdOf(c) # 0
    BY <1>3, <1>4
  <2>2. IdOf(c) \notin ToSet(worlds)
    BY <1>3, <1>4 DEF ToSet, IdsInv, Distinct
  <2>3. ASSUME NEW d \in Callers \ {c}, pc[d] = "build" PROVE IdOf(d) # IdOf(c)
    <3>1. previous[d] # previous[c]
      BY <2>3, <1>4 DEF IdsInv, Distinct
    <3> QED
      BY <3>1, <2>3, <1>3, <1>4
  <2> QED
    BY <2>1, <2>2, <2>3
<1> QED
  BY <1>1, <1>2, <1>4 DEF IdsUnique

\* No two worlds share an identity and none has identity 0, for every number
\* of concurrent NewWorld calls and every counter width (NewWorld).
THEOREM WorldIdsUnique == IdsSpec => []IdsUnique
<1>1. IdsSpec => []IdsInv
  BY IdsInitInv, IdsNextInv, PTL DEF IdsSpec
<1> QED
  BY <1>1, InvUnique, PTL

-----------------------------------------------------------------------------
(* The worlds example *)

Snapshot == [match : Matches, tick : Nat, x : Nat]

ExampleTyped ==
  /\ at \in [Matches -> MatchPlaces]
  /\ tick \in [Matches -> Nat] /\ inputs \in [Matches -> {0, 1}]
  /\ velocity \in [Matches -> Nat] /\ position \in [Matches -> Nat]
  /\ ctxErr \in [Matches -> {None, "canceled", "deadline"}]
  /\ matchErr \in [Matches -> {None, "deadline"}]
  /\ snapshots \in Seq(Snapshot) /\ errorsOut \in Seq({None, "deadline"})
  /\ latest \in [Matches -> Snapshot \cup {None}]

\* The newest snapshot of m is s, in the channel or with the collector.
NewestIn(channel, newest, m, s) ==
  \/ \E i \in DOMAIN channel :
       channel[i] = s /\ \A j \in DOMAIN channel : i < j => channel[j].match # m
  \/ newest[m] = s /\ \A j \in DOMAIN channel : channel[j].match # m

SnapshotOf(m) == [match |-> m, tick |-> tick[m], x |-> tick[m] * Speed]

\* A match inside a tick is not at its end; outside of one the player has moved
\* in every tick there was.
Played(m) ==
  /\ pc[m] # "out" => at[m] = "world"
  /\ velocity[m] = IF inputs[m] = 0 THEN Speed ELSE 0
  /\ at[m] \in {"start", "world"} => tick[m] = 0 /\ position[m] = 0
  /\ at[m] \in {"between", "output", "finish"} => position[m] = tick[m] * Speed
  /\ at[m] \in {"inputs", "movement"} => position[m] + Speed = tick[m] * Speed
  /\ at[m] = "movement" => inputs[m] = 0
  /\ at[m] \in {"inputs", "movement", "output", "finish"} => tick[m] <= FinalTick[m]
  /\ at[m] = "between" /\ ctxErr[m] = None => tick[m] < FinalTick[m]

\* Only a match that played its last tick cancels itself, and it has sent that
\* tick's snapshot; a match that was cut off reports it.
Reported(m) ==
  /\ ctxErr[m] = "canceled" => at[m] \in {"between", "report", "done"} /\ tick[m] = FinalTick[m]
  /\ at[m] = "finish" \/ ctxErr[m] = "canceled" => NewestIn(snapshots, latest, m, SnapshotOf(m))
  /\ at[m] \in {"report", "done"} =>
       ctxErr[m] # None /\ matchErr[m] = IF ctxErr[m] = "canceled" THEN None ELSE "deadline"

\* run leaves its loops when everything was sent, and nil means that no error
\* was among it.
Collected ==
  /\ closer # "waiting" => \A m \in Matches : at[m] = "done"
  /\ collector # "snapshots" => closer # "waiting" /\ snapshots = <<>>
  /\ collector # "returned" => result = None
  /\ collector = "returned" /\ result = None => errorsOut = <<>>
  /\ result = None => \A m \in Matches :
       at[m] = "done" /\ matchErr[m] # None => matchErr[m] \in ToSet(errorsOut)

ExampleInv == ExampleTyped /\ Collected /\ \A m \in Matches : Played(m) /\ Reported(m)

LEMMA OneTick ==
  ASSUME NEW n \in Nat
  PROVE  n * Speed \in Nat /\ (n + 1) * Speed = n * Speed + Speed /\ 0 * Speed = 0
<1>1. Speed \in Nat
  BY WorldsAssumption
<1> QED
  BY <1>1, Z3

LEMMA MatchTypes ==
  ASSUME ExampleTyped, NEW m \in Matches
  PROVE  /\ m \in Callers /\ FinalTick[m] \in Nat \ {0} /\ Speed \in Nat \ {0}
         /\ tick[m] \in Nat /\ position[m] \in Nat /\ velocity[m] \in Nat
         /\ SnapshotOf(m) \in Snapshot /\ SnapshotOf(m).match = m
         /\ None # "canceled" /\ None # "deadline"
<1>1. Speed \in Nat \ {0} /\ FinalTick[m] \in Nat \ {0} /\ m \in Callers
  BY WorldsAssumption
<1>2. tick[m] \in Nat /\ position[m] \in Nat /\ velocity[m] \in Nat
  BY DEF ExampleTyped
<1>3. tick[m] * Speed \in Nat
  BY <1>2, OneTick
<1> QED
  BY <1>1, <1>2, <1>3, WorldsAssumption DEF SnapshotOf, Snapshot

-----------------------------------------------------------------------------
(* Snapshots in the channel *)

LEMMA SentNewest ==
  ASSUME NEW ch \in Seq(Snapshot), NEW newest, NEW s \in Snapshot
  PROVE  /\ Append(ch, s) \in Seq(Snapshot)
         /\ \A m : NewestIn(Append(ch, s), newest, m, s)
         /\ \A m, t : s.match # m /\ NewestIn(ch, newest, m, t) => NewestIn(Append(ch, s), newest, m, t)
<1> DEFINE n == Len(ch)
           longer == Append(ch, s)
<1>1. /\ longer \in Seq(Snapshot) /\ Len(longer) = n + 1
      /\ \A i \in 1..n : longer[i] = ch[i]
      /\ longer[n + 1] = s
  BY AppendProperties
<1>2. n \in Nat /\ DOMAIN ch = 1..n /\ DOMAIN longer = 1..(n + 1)
  BY <1>1, LenProperties
<1> HIDE DEF n, longer
<1>3. ASSUME NEW m PROVE NewestIn(longer, newest, m, s)
  <2>1. n + 1 \in 1..(n + 1) /\ \A j \in 1..(n + 1) : ~(n + 1 < j)
    BY <1>2
  <2> QED
    BY <2>1, <1>1, <1>2 DEF NewestIn
<1>4. ASSUME NEW m, NEW t, s.match # m, NewestIn(ch, newest, m, t)
      PROVE  NewestIn(longer, newest, m, t)
  <2>1. CASE \E i \in 1..n : ch[i] = t /\ \A j \in 1..n : i < j => ch[j].match # m
    <3>1. PICK i \in 1..n : ch[i] = t /\ \A j \in 1..n : i < j => ch[j].match # m
      BY <2>1
    <3>2. i \in 1..(n + 1) /\ longer[i] = t /\ \A j \in 1..(n + 1) : i < j => longer[j].match # m
      BY <1>1, <1>2, <1>4, <3>1
    <3> QED
      BY <1>2, <3>2 DEF NewestIn
  <2>2. CASE newest[m] = t /\ \A j \in 1..n : ch[j].match # m
    <3>1. \A j \in 1..(n + 1) : longer[j].match # m
      BY <1>1, <1>2, <1>4, <2>2
    <3> QED
      BY <1>2, <2>2, <3>1 DEF NewestIn
  <2> QED
    BY <1>2, <1>4, <2>1, <2>2 DEF NewestIn
<1> QED
  BY <1>1, <1>3, <1>4 DEF longer

\* A collected snapshot is the match's newest, or a newer one is behind it.
LEMMA CollectedNewest ==
  ASSUME NEW ch \in Seq(Snapshot), ch # <<>>, NEW newest \in [Matches -> Snapshot \cup {None}],
         NEW m \in Matches, NEW t, t.match = m, NewestIn(ch, newest, m, t)
  PROVE  NewestIn(Tail(ch), [newest EXCEPT ![Head(ch).match] = Head(ch)], m, t)
<1> DEFINE n == Len(ch)
           rest == Tail(ch)
           s == Head(ch)
           newer == [newest EXCEPT ![s.match] = s]
<1>1. /\ rest \in Seq(Snapshot) /\ Len(rest) = n - 1 /\ s \in Snapshot
      /\ \A i \in 1..Len(rest) : rest[i] = ch[i + 1]
  BY HeadTailProperties
<1>2. n \in Nat \ {0} /\ DOMAIN ch = 1..n /\ DOMAIN rest = 1..(n - 1)
  BY <1>1, EmptySeq, LenProperties
<1>3. s = ch[1]
  OBVIOUS
<1>4. /\ s.match \in Matches /\ newer[s.match] = s
      /\ \A d \in Matches : d # s.match => newer[d] = newest[d]
  BY <1>1 DEF Snapshot
<1> SUFFICES NewestIn(rest, newer, m, t)
  OBVIOUS
<1> HIDE DEF n, rest, s, newer
<1>5. CASE \E i \in 1..n : ch[i] = t /\ \A j \in 1..n : i < j => ch[j].match # m
  <2>1. PICK i \in 1..n : ch[i] = t /\ \A j \in 1..n : i < j => ch[j].match # m
    BY <1>5
  <2>2. CASE i = 1
    <3>1. \A j \in 1..(n - 1) : rest[j].match # m
      BY <1>1, <1>2, <2>1, <2>2
    <3>2. newer[m] = t
      BY <1>3, <1>4, <2>1, <2>2
    <3> QED
      BY <1>2, <3>1, <3>2 DEF NewestIn
  <2>3. CASE i # 1
    <3>1. i - 1 \in 1..(n - 1) /\ rest[i - 1] = t
      BY <1>1, <1>2, <2>1, <2>3
    <3>2. \A j \in 1..(n - 1) : i - 1 < j => rest[j].match # m
      BY <1>1, <1>2, <2>1
    <3> QED
      BY <1>2, <3>1, <3>2 DEF NewestIn
  <2> QED
    BY <2>2, <2>3
<1>6. CASE newest[m] = t /\ \A j \in 1..n : ch[j].match # m
  <2>1. \A j \in 1..(n - 1) : rest[j].match # m
    BY <1>1, <1>2, <1>6
  <2>2. newer[m] = t
    BY <1>2, <1>3, <1>4, <1>6
  <2> QED
    BY <1>2, <2>1, <2>2 DEF NewestIn
<1> QED
  BY <1>2, <1>5, <1>6 DEF NewestIn

\* With nothing left in the channel the newest snapshot is the collected one.
LEMMA AllCollected ==
  ASSUME NEW newest, NEW m, NEW t, NewestIn(<<>>, newest, m, t)
  PROVE  newest[m] = t
  BY DEF NewestIn

-----------------------------------------------------------------------------
(* What a step leaves alone *)

\* Nothing of the match changes.
Same(m) ==
  /\ pc'[m] = pc[m] /\ at'[m] = at[m] /\ tick'[m] = tick[m] /\ inputs'[m] = inputs[m]
  /\ velocity'[m] = velocity[m] /\ position'[m] = position[m]
  /\ ctxErr'[m] = ctxErr[m] /\ matchErr'[m] = matchErr[m]

LEMMA SameKept ==
  ASSUME NEW m \in Matches, Played(m), Reported(m), Same(m),
         NewestIn(snapshots, latest, m, SnapshotOf(m))
           => NewestIn(snapshots', latest', m, SnapshotOf(m))
  PROVE  Played(m)' /\ Reported(m)'
<1>1. SnapshotOf(m)' = SnapshotOf(m)
  BY DEF Same, SnapshotOf
<1>2. Played(m)'
  BY DEF Played, Same
<1>3. Reported(m)'
  BY <1>1 DEF Reported, Same
<1> QED
  BY <1>2, <1>3

\* A step of one match that leaves the snapshots alone.
LEMMA OthersKept ==
  ASSUME ExampleInv, NEW m \in Matches,
         \A d \in Matches \ {m} : Same(d), UNCHANGED <<snapshots, latest>>,
         Played(m)', Reported(m)'
  PROVE  \A d \in Matches : Played(d)' /\ Reported(d)'
<1> SUFFICES ASSUME NEW d \in Matches, d # m PROVE Played(d)' /\ Reported(d)'
  OBVIOUS
<1>1. Played(d) /\ Reported(d) /\ Same(d)
  BY DEF ExampleInv
<1> QED
  BY <1>1, SameKept

\* run goes on as long as a match does.
LEMMA CollectedKept ==
  ASSUME ExampleInv, NEW m \in Matches, at[m] # "done", at'[m] # "done",
         \A d \in Matches \ {m} : at'[d] = at[d] /\ matchErr'[d] = matchErr[d],
         UNCHANGED <<closer, collector, result, errorsOut>>
  PROVE  Collected'
<1>1. closer = "waiting" /\ collector = "snapshots" /\ result = None
  BY DEF ExampleInv, Collected
<1>2. closer' = "waiting" /\ collector' = "snapshots" /\ result' = None
  BY <1>1
<1>3. ASSUME NEW d \in Matches, at'[d] = "done", matchErr'[d] # None
      PROVE  matchErr'[d] \in ToSet(errorsOut')
  BY <1>1, <1>3 DEF ExampleInv, Collected
<1> QED
  BY <1>2, <1>3 DEF Collected

LEMMA StillCollected ==
  ASSUME ExampleInv, UNCHANGED <<at, matchErr, snapshots, closer, collector, result, errorsOut>>
  PROVE  Collected'
  BY DEF ExampleInv, Collected

LEMMA AppendToSet ==
  ASSUME NEW S, NEW s \in Seq(S), NEW e \in S
  PROVE  ToSet(Append(s, e)) = ToSet(s) \cup {e}
<1>1. /\ DOMAIN s = 1..Len(s) /\ Len(s) \in Nat
      /\ DOMAIN Append(s, e) = 1..(Len(s) + 1)
      /\ \A i \in 1..Len(s) : Append(s, e)[i] = s[i]
      /\ Append(s, e)[Len(s) + 1] = e
  BY AppendProperties, LenProperties
<1> QED
  BY <1>1 DEF ToSet

LEMMA TailToSet ==
  ASSUME NEW S, NEW s \in Seq(S), s # <<>>
  PROVE  Tail(s) \in Seq(S) /\ Head(s) \in S /\ ToSet(s) \subseteq ToSet(Tail(s)) \cup {Head(s)}
<1> DEFINE n == Len(s)
           r == Tail(s)
<1>1. /\ r \in Seq(S) /\ Head(s) \in S /\ Len(r) = n - 1
      /\ \A i \in 1..Len(r) : r[i] = s[i + 1]
  BY HeadTailProperties
<1>2. n \in Nat \ {0} /\ DOMAIN s = 1..n /\ DOMAIN r = 1..(n - 1) /\ Head(s) = s[1]
  BY <1>1, EmptySeq, LenProperties
<1> HIDE DEF n, r
<1>3. ASSUME NEW i \in 1..n PROVE s[i] \in ToSet(r) \cup {s[1]}
  <2>1. CASE i # 1
    <3>1. i - 1 \in DOMAIN r /\ r[i - 1] = s[i]
      BY <1>1, <1>2, <2>1
    <3> QED
      BY <3>1 DEF ToSet
  <2> QED
    BY <2>1
<1> QED
  BY <1>1, <1>2, <1>3 DEF ToSet, r

-----------------------------------------------------------------------------
(* The steps of a match *)

LEMMA CallNewWorldInv ==
  ASSUME ExampleInv, IdsInv, NEW c \in Callers, CallNewWorld(c)
  PROVE  ExampleInv'
<1>1. /\ pc[c] = "out" /\ pc \in [Callers -> Places] /\ pc' = [pc EXCEPT ![c] = "load"]
      /\ at \in [Matches -> MatchPlaces]
      /\ at' = IF c \in Matches THEN [at EXCEPT ![c] = "world"] ELSE at
      /\ c \in Matches => at[c] = "start"
      /\ UNCHANGED <<tick, worldVars, ctxErr, matchErr, snapshots, errorsOut, runVars>>
  BY DEF CallNewWorld, Call, Goto, MatchGoes, IdsInv, IdsTyped, ExampleInv, ExampleTyped
<1>2. ExampleTyped'
  BY <1>1 DEF ExampleInv, ExampleTyped, MatchPlaces, worldVars, runVars
<1>3. ASSUME NEW d \in Matches, d # c PROVE Same(d)
  BY <1>1, <1>3, MatchTypes DEF Same, worldVars, ExampleInv
<1>4. CASE c \in Matches
  <2>1. Played(c)'
    <3>1. Played(c)
      BY <1>4 DEF ExampleInv
    <3> QED
      BY <1>1, <1>4, <3>1 DEF Played, worldVars
  <2>2. Reported(c)'
    <3>1. Reported(c) /\ at[c] = "start" /\ at'[c] = "world"
      BY <1>1, <1>4 DEF ExampleInv
    <3> QED
      BY <1>1, <3>1 DEF Reported
  <2>3. Collected'
    BY <1>1, <1>4, CollectedKept DEF runVars
  <2> QED
    BY <1>1, <1>2, <1>3, <1>4, <2>1, <2>2, <2>3, OthersKept DEF ExampleInv, runVars
<1>5. CASE c \notin Matches
  <2>1. Collected'
    BY <1>1, <1>5, StillCollected DEF runVars
  <2>2. ASSUME NEW d \in Matches PROVE Played(d)' /\ Reported(d)'
    <3>1. Played(d) /\ Reported(d) /\ Same(d)
      BY <1>3, <1>5 DEF ExampleInv
    <3> QED
      BY <1>1, <3>1, SameKept DEF runVars
  <2> QED
    BY <1>2, <2>1, <2>2 DEF ExampleInv
<1> QED
  BY <1>4, <1>5

LEMMA InNewWorldInv ==
  ASSUME ExampleInv, IdsInv, NEW c \in Callers, InNewWorld(c)
  PROVE  ExampleInv'
<1>1. /\ pc \in [Callers -> Places] /\ pc[c] # "out"
      /\ \A d \in Callers : d # c => pc'[d] = pc[d]
      /\ worlds' = worlds \/ pc'[c] = "out"
  BY DEF InNewWorld, NewWorld, Load, Exhausted, Swap, Retry, Return, Goto, IdsInv, IdsTyped
<1>2. /\ at \in [Matches -> MatchPlaces]
      /\ at' = IF c \in Matches /\ worlds' # worlds THEN [at EXCEPT ![c] = "between"] ELSE at
      /\ UNCHANGED <<tick, worldVars, ctxErr, matchErr, snapshots, errorsOut, closer, latest, collector, result>>
  BY DEF InNewWorld, MatchGoes, ExampleInv, ExampleTyped
<1>3. ExampleTyped'
  BY <1>2 DEF ExampleInv, ExampleTyped, MatchPlaces, worldVars
<1>4. ASSUME NEW d \in Matches, d # c PROVE Same(d)
  BY <1>1, <1>2, <1>4, MatchTypes DEF Same, worldVars, ExampleInv
<1>5. CASE c \in Matches
  <2>1. Played(c) /\ Reported(c) /\ at[c] = "world" /\ tick[c] = 0 /\ position[c] = 0
    BY <1>1, <1>5 DEF ExampleInv, Played
  <2>2. at'[c] = "world" \/ (at'[c] = "between" /\ pc'[c] = "out")
    BY <1>1, <1>2, <1>5, <2>1
  <2>3. Played(c)'
    <3>1. 0 * Speed = 0 /\ FinalTick[c] \in Nat \ {0}
      BY <1>5, OneTick, MatchTypes DEF ExampleInv
    <3> QED
      BY <1>2, <2>1, <2>2, <3>1 DEF Played, worldVars
  <2>4. Reported(c)'
    BY <1>2, <2>1, <2>2 DEF Reported
  <2>5. Collected'
    BY <1>2, <1>5, <2>1, <2>2, CollectedKept
  <2> QED
    BY <1>2, <1>3, <1>4, <1>5, <2>3, <2>4, <2>5, OthersKept DEF ExampleInv
<1>6. CASE c \notin Matches
  <2>1. Collected'
    BY <1>2, <1>6, StillCollected
  <2>2. ASSUME NEW d \in Matches PROVE Played(d)' /\ Reported(d)'
    <3>1. Played(d) /\ Reported(d) /\ Same(d)
      BY <1>4, <1>6 DEF ExampleInv
    <3> QED
      BY <1>2, <3>1, SameKept
  <2> QED
    BY <1>3, <2>1, <2>2 DEF ExampleInv
<1> QED
  BY <1>5, <1>6

\* A match that looks at its context reports a deadline, and nothing for its own end.
LEMMA EndedInv ==
  ASSUME ExampleInv, NEW m \in Matches, NoticeCancelled(m)
  PROVE  ExampleInv'
<1>1. /\ at[m] \in {"between", "inputs", "movement", "output", "finish"} /\ ctxErr[m] # None
      /\ at \in [Matches -> MatchPlaces] /\ at' = [at EXCEPT ![m] = "report"]
      /\ matchErr \in [Matches -> {None, "deadline"}]
      /\ ctxErr \in [Matches -> {None, "canceled", "deadline"}]
      /\ matchErr' = [matchErr EXCEPT ![m] = IF ctxErr[m] = "canceled" THEN None ELSE ctxErr[m]]
      /\ UNCHANGED <<pc, tick, worldVars, ctxErr, snapshots, errorsOut, runVars>>
  BY DEF NoticeCancelled, Ended, MatchGoes, idVars, ExampleInv, ExampleTyped
<1>2. ExampleTyped'
  BY <1>1 DEF ExampleInv, ExampleTyped, MatchPlaces, worldVars, runVars
<1>3. \A d \in Matches \ {m} : Same(d)
  BY <1>1 DEF Same, worldVars
<1>4. Played(m) /\ Reported(m) /\ at'[m] = "report"
  BY <1>1 DEF ExampleInv
<1>5. Played(m)'
  BY <1>1, <1>4 DEF Played, worldVars
<1>6. Reported(m)'
  <2>1. SnapshotOf(m)' = SnapshotOf(m)
    BY <1>1 DEF SnapshotOf
  <2>2. matchErr'[m] = IF ctxErr'[m] = "canceled" THEN None ELSE "deadline"
    BY <1>1
  <2>3. ctxErr'[m] = "canceled" => tick'[m] = FinalTick[m] /\ NewestIn(snapshots', latest', m, SnapshotOf(m)')
    BY <1>1, <1>4, <2>1 DEF Reported, runVars
  <2> QED
    BY <1>1, <1>4, <2>2, <2>3 DEF Reported
<1>7. Collected'
  BY <1>1, <1>3, <1>4, CollectedKept DEF Same, runVars
<1> QED
  BY <1>1, <1>2, <1>3, <1>5, <1>6, <1>7, OthersKept DEF ExampleInv, runVars

LEMMA TickBeginsInv ==
  ASSUME ExampleInv, NEW m \in Matches, TickBegins(m)
  PROVE  ExampleInv'
<1>1. /\ at[m] = "between" /\ ctxErr[m] = None
      /\ at \in [Matches -> MatchPlaces] /\ at' = [at EXCEPT ![m] = "inputs"]
      /\ tick \in [Matches -> Nat] /\ tick' = [tick EXCEPT ![m] = tick[m] + 1]
      /\ UNCHANGED <<pc, worldVars, ctxErr, matchErr, snapshots, errorsOut, runVars>>
  BY DEF TickBegins, Runs, MatchGoes, idVars, ExampleInv, ExampleTyped
<1>2. ExampleTyped'
  BY <1>1 DEF ExampleInv, ExampleTyped, MatchPlaces, worldVars, runVars
<1>3. \A d \in Matches \ {m} : Same(d)
  BY <1>1 DEF Same, worldVars
<1>4. Played(m) /\ Reported(m) /\ at'[m] = "inputs" /\ tick'[m] = tick[m] + 1 /\ tick[m] \in Nat
  BY <1>1 DEF ExampleInv
<1>5. Played(m)'
  <2>1. (tick[m] + 1) * Speed = tick[m] * Speed + Speed /\ FinalTick[m] \in Nat
    BY <1>4, OneTick, MatchTypes DEF ExampleInv
  <2>2. position'[m] + Speed = tick'[m] * Speed
    BY <1>1, <1>4, <2>1 DEF Played, worldVars
  <2>3. tick'[m] <= FinalTick[m]
    BY <1>1, <1>4, <2>1 DEF Played
  <2> QED
    BY <1>1, <1>4, <2>2, <2>3 DEF Played, worldVars
<1>6. Reported(m)'
  BY <1>1, <1>4, MatchTypes DEF Reported, ExampleInv
<1>7. Collected'
  BY <1>1, <1>3, <1>4, CollectedKept DEF Same, runVars
<1> QED
  BY <1>1, <1>2, <1>3, <1>5, <1>6, <1>7, OthersKept DEF ExampleInv, runVars

LEMMA TakeInputsInv ==
  ASSUME ExampleInv, NEW m \in Matches, TakeInputs(m)
  PROVE  ExampleInv'
<1>1. /\ at[m] = "inputs" /\ ctxErr[m] = None
      /\ at \in [Matches -> MatchPlaces] /\ at' = [at EXCEPT ![m] = "movement"]
      /\ inputs \in [Matches -> {0, 1}] /\ inputs' = [inputs EXCEPT ![m] = 0]
      /\ velocity \in [Matches -> Nat]
      /\ velocity' = IF inputs[m] = 0 THEN velocity ELSE [velocity EXCEPT ![m] = Speed]
      /\ UNCHANGED <<pc, tick, position, ctxErr, matchErr, snapshots, errorsOut, runVars>>
  BY DEF TakeInputs, Runs, MatchGoes, idVars, ExampleInv, ExampleTyped
<1>2. ExampleTyped'
  BY <1>1, MatchTypes DEF ExampleInv, ExampleTyped, MatchPlaces, runVars
<1>3. \A d \in Matches \ {m} : Same(d)
  BY <1>1 DEF Same
<1>4. Played(m) /\ Reported(m) /\ at'[m] = "movement"
  BY <1>1 DEF ExampleInv
<1>5. Played(m)'
  BY <1>1, <1>4 DEF Played
<1>6. Reported(m)'
  BY <1>1, <1>4, MatchTypes DEF Reported, ExampleInv
<1>7. Collected'
  BY <1>1, <1>3, <1>4, CollectedKept DEF Same, runVars
<1> QED
  BY <1>1, <1>2, <1>3, <1>5, <1>6, <1>7, OthersKept DEF ExampleInv, runVars

LEMMA MoveInv ==
  ASSUME ExampleInv, NEW m \in Matches, Move(m)
  PROVE  ExampleInv'
<1>1. /\ at[m] = "movement" /\ ctxErr[m] = None
      /\ at \in [Matches -> MatchPlaces] /\ at' = [at EXCEPT ![m] = "output"]
      /\ position \in [Matches -> Nat] /\ position' = [position EXCEPT ![m] = position[m] + velocity[m]]
      /\ UNCHANGED <<pc, tick, velocity, inputs, ctxErr, matchErr, snapshots, errorsOut, runVars>>
  BY DEF Move, Runs, MatchGoes, idVars, ExampleInv, ExampleTyped
<1>2. ExampleTyped'
  <2>1. position[m] + velocity[m] \in Nat
    BY MatchTypes DEF ExampleInv
  <2> QED
    BY <1>1, <2>1 DEF ExampleInv, ExampleTyped, MatchPlaces, runVars
<1>3. \A d \in Matches \ {m} : Same(d)
  BY <1>1 DEF Same
<1>4. Played(m) /\ Reported(m) /\ at'[m] = "output"
  BY <1>1 DEF ExampleInv
<1>5. Played(m)'
  BY <1>1, <1>4 DEF Played
<1>6. Reported(m)'
  BY <1>1, <1>4, MatchTypes DEF Reported, ExampleInv
<1>7. Collected'
  BY <1>1, <1>3, <1>4, CollectedKept DEF Same, runVars
<1> QED
  BY <1>1, <1>2, <1>3, <1>5, <1>6, <1>7, OthersKept DEF ExampleInv, runVars

\* The snapshot sent is the match's newest; the others keep theirs.
LEMMA OutputInv ==
  ASSUME ExampleInv, NEW m \in Matches, Output(m)
  PROVE  ExampleInv'
<1> DEFINE s == [match |-> m, tick |-> tick[m], x |-> position[m]]
<1>1. /\ at[m] = "output"
      /\ at \in [Matches -> MatchPlaces] /\ at' = [at EXCEPT ![m] = "finish"]
      /\ snapshots' = Append(snapshots, s) /\ snapshots \in Seq(Snapshot)
      /\ UNCHANGED <<pc, tick, worldVars, ctxErr, matchErr, errorsOut, runVars>>
  BY DEF Output, MatchGoes, idVars, ExampleInv, ExampleTyped
<1>2. s \in Snapshot /\ s.match = m
  BY MatchTypes DEF Snapshot, ExampleInv
<1>3. Played(m) /\ Reported(m) /\ at'[m] = "finish"
  BY <1>1 DEF ExampleInv
<1>4. s = SnapshotOf(m) /\ SnapshotOf(m)' = SnapshotOf(m)
  BY <1>1, <1>3 DEF Played, SnapshotOf
<1> HIDE DEF s
<1>5. /\ snapshots' \in Seq(Snapshot)
      /\ NewestIn(snapshots', latest', m, s)
      /\ \A d \in Matches \ {m} : NewestIn(snapshots, latest, d, SnapshotOf(d))
                                    => NewestIn(snapshots', latest', d, SnapshotOf(d))
  BY <1>1, <1>2, SentNewest DEF runVars
<1>6. ExampleTyped'
  BY <1>1, <1>5 DEF ExampleInv, ExampleTyped, MatchPlaces, worldVars, runVars
<1>7. \A d \in Matches \ {m} : Same(d)
  BY <1>1 DEF Same, worldVars
<1>8. Played(m)'
  BY <1>1, <1>3 DEF Played, worldVars
<1>9. Reported(m)'
  BY <1>1, <1>3, <1>4, <1>5 DEF Reported
<1>10. Collected'
  BY <1>1, <1>3, <1>7, CollectedKept DEF Same, runVars
<1>11. ASSUME NEW d \in Matches, d # m PROVE Played(d)' /\ Reported(d)'
  <2>1. Played(d) /\ Reported(d) /\ Same(d)
    BY <1>7, <1>11 DEF ExampleInv
  <2> QED
    BY <1>5, <1>11, <2>1, SameKept
<1> QED
  BY <1>6, <1>8, <1>9, <1>10, <1>11 DEF ExampleInv

\* The match cancels itself in its last tick, with that tick's snapshot sent.
LEMMA FinishInv ==
  ASSUME ExampleInv, NEW m \in Matches, Finish(m)
  PROVE  ExampleInv'
<1>1. /\ at[m] = "finish" /\ ctxErr[m] = None
      /\ at \in [Matches -> MatchPlaces] /\ at' = [at EXCEPT ![m] = "between"]
      /\ ctxErr \in [Matches -> {None, "canceled", "deadline"}]
      /\ ctxErr' = IF tick[m] >= FinalTick[m] THEN [ctxErr EXCEPT ![m] = "canceled"] ELSE ctxErr
      /\ UNCHANGED <<pc, tick, worldVars, matchErr, snapshots, errorsOut, runVars>>
  BY DEF Finish, Runs, MatchGoes, idVars, ExampleInv, ExampleTyped
<1>2. ExampleTyped'
  BY <1>1 DEF ExampleInv, ExampleTyped, MatchPlaces, worldVars, runVars
<1>3. \A d \in Matches \ {m} : Same(d)
  BY <1>1 DEF Same, worldVars
<1>4. /\ Played(m) /\ Reported(m) /\ at'[m] = "between"
      /\ tick[m] \in Nat /\ FinalTick[m] \in Nat /\ None # "canceled"
      /\ ctxErr'[m] = IF tick[m] >= FinalTick[m] THEN "canceled" ELSE None
  BY <1>1, MatchTypes DEF ExampleInv
<1>5. Played(m)'
  BY <1>1, <1>4 DEF Played, worldVars
<1>6. Reported(m)'
  <2>1. SnapshotOf(m)' = SnapshotOf(m)
    BY <1>1 DEF SnapshotOf
  <2>2. NewestIn(snapshots', latest', m, SnapshotOf(m)')
    BY <1>1, <1>4, <2>1 DEF Reported, runVars
  <2>3. ctxErr'[m] = "canceled" => tick'[m] = FinalTick[m]
    BY <1>1, <1>4 DEF Played
  <2> QED
    BY <1>4, <2>2, <2>3 DEF Reported
<1>7. Collected'
  BY <1>1, <1>3, <1>4, CollectedKept DEF Same, runVars
<1> QED
  BY <1>1, <1>2, <1>3, <1>5, <1>6, <1>7, OthersKept DEF ExampleInv, runVars

\* The match's error is in the channel before the match is done.
LEMMA ReportInv ==
  ASSUME ExampleInv, NEW m \in Matches, Report(m)
  PROVE  ExampleInv'
<1>1. /\ at[m] = "report" /\ matchErr[m] \in {None, "deadline"}
      /\ at \in [Matches -> MatchPlaces] /\ at' = [at EXCEPT ![m] = "done"]
      /\ errorsOut \in Seq({None, "deadline"}) /\ errorsOut' = Append(errorsOut, matchErr[m])
      /\ UNCHANGED <<pc, tick, worldVars, ctxErr, matchErr, snapshots, runVars>>
  BY DEF Report, MatchGoes, idVars, ExampleInv, ExampleTyped
<1>2. errorsOut' \in Seq({None, "deadline"}) /\ ToSet(errorsOut') = ToSet(errorsOut) \cup {matchErr[m]}
  BY <1>1, AppendToSet, AppendProperties
<1>3. ExampleTyped'
  BY <1>1, <1>2 DEF ExampleInv, ExampleTyped, MatchPlaces, worldVars, runVars
<1>4. \A d \in Matches \ {m} : Same(d)
  BY <1>1 DEF Same, worldVars
<1>5. Played(m) /\ Reported(m) /\ at'[m] = "done"
  BY <1>1 DEF ExampleInv
<1>6. Played(m)'
  BY <1>1, <1>5 DEF Played, worldVars
<1>7. Reported(m)'
  <2>1. SnapshotOf(m)' = SnapshotOf(m)
    BY <1>1 DEF SnapshotOf
  <2> QED
    BY <1>1, <1>5, <2>1 DEF Reported, runVars
<1>8. Collected'
  <2>1. closer = "waiting" /\ collector = "snapshots" /\ result = None
    BY <1>1 DEF ExampleInv, Collected
  <2>2. ASSUME NEW d \in Matches, at'[d] = "done", matchErr'[d] # None
        PROVE  matchErr'[d] \in ToSet(errorsOut')
    BY <1>1, <1>2, <2>1, <2>2 DEF ExampleInv, Collected
  <2> QED
    BY <1>1, <2>1, <2>2 DEF Collected, runVars
<1> QED
  BY <1>1, <1>3, <1>4, <1>6, <1>7, <1>8, OthersKept DEF ExampleInv, runVars

-----------------------------------------------------------------------------
(* The deadline and the steps of run *)

\* A context that is cancelled keeps its error.
LEMMA DeadlineInv ==
  ASSUME ExampleInv, Deadline
  PROVE  ExampleInv'
<1>1. /\ ctxErr \in [Matches -> {None, "canceled", "deadline"}]
      /\ ctxErr' = [m \in Matches |-> IF ctxErr[m] = None THEN "deadline" ELSE ctxErr[m]]
      /\ UNCHANGED <<pc, at, tick, worldVars, matchErr, snapshots, errorsOut, runVars>>
  BY DEF Deadline, idVars, ExampleInv, ExampleTyped
<1>2. ExampleTyped'
  BY <1>1 DEF ExampleInv, ExampleTyped, worldVars, runVars
<1>3. Collected'
  BY <1>1, StillCollected DEF runVars
<1>4. ASSUME NEW m \in Matches PROVE Played(m)' /\ Reported(m)'
  <2>1. /\ Played(m) /\ Reported(m)
        /\ ctxErr'[m] # None /\ (ctxErr'[m] = "canceled" <=> ctxErr[m] = "canceled")
        /\ ctxErr[m] # None => ctxErr'[m] = ctxErr[m]
    BY <1>1, MatchTypes DEF ExampleInv
  <2>2. Played(m)'
    BY <1>1, <2>1 DEF Played, worldVars
  <2>3. SnapshotOf(m)' = SnapshotOf(m)
    BY <1>1 DEF SnapshotOf
  <2>4. Reported(m)'
    BY <1>1, <2>1, <2>3 DEF Reported, runVars
  <2> QED
    BY <2>2, <2>4
<1> QED
  BY <1>2, <1>3, <1>4 DEF ExampleInv

\* A step of run changes no match.
LEMMA MatchesKept ==
  ASSUME ExampleInv, UNCHANGED <<pc, matchVars>>,
         \A m \in Matches : NewestIn(snapshots, latest, m, SnapshotOf(m))
                              => NewestIn(snapshots', latest', m, SnapshotOf(m))
  PROVE  \A m \in Matches : Played(m)' /\ Reported(m)'
<1> SUFFICES ASSUME NEW m \in Matches PROVE Played(m)' /\ Reported(m)'
  OBVIOUS
<1>1. Played(m) /\ Reported(m) /\ Same(m)
  BY DEF ExampleInv, Same, matchVars, worldVars
<1> QED
  BY <1>1, SameKept

LEMMA CloseChannelsInv ==
  ASSUME ExampleInv, CloseChannels
  PROVE  ExampleInv'
<1>1. UNCHANGED <<pc, matchVars, snapshots, errorsOut, latest, collector, result>>
  BY DEF CloseChannels, idVars
<1>2. closer' # "waiting" /\ \A m \in Matches : at[m] = "done"
  BY DEF CloseChannels, ExampleInv, Collected
<1>3. ExampleTyped'
  BY <1>1 DEF ExampleInv, ExampleTyped, matchVars, worldVars
<1>4. Collected'
  BY <1>1, <1>2 DEF ExampleInv, Collected, matchVars
<1>5. \A m \in Matches : Played(m)' /\ Reported(m)'
  BY <1>1, MatchesKept
<1> QED
  BY <1>3, <1>4, <1>5 DEF ExampleInv

LEMMA CollectInv ==
  ASSUME ExampleInv, Collect
  PROVE  ExampleInv'
<1>1. /\ snapshots \in Seq(Snapshot) /\ snapshots # <<>> /\ snapshots' = Tail(snapshots)
      /\ latest \in [Matches -> Snapshot \cup {None}]
      /\ latest' = [latest EXCEPT ![Head(snapshots).match] = Head(snapshots)]
      /\ collector = "snapshots"
      /\ UNCHANGED <<pc, matchVars, errorsOut, closer, collector, result>>
  BY DEF Collect, idVars, ExampleInv, ExampleTyped
<1>2. snapshots' \in Seq(Snapshot) /\ Head(snapshots) \in Snapshot
  BY <1>1, HeadTailProperties
<1>3. ExampleTyped'
  BY <1>1, <1>2 DEF ExampleInv, ExampleTyped, matchVars, worldVars
<1>4. Collected'
  BY <1>1 DEF ExampleInv, Collected, matchVars
<1>5. ASSUME NEW m \in Matches, NewestIn(snapshots, latest, m, SnapshotOf(m))
      PROVE  NewestIn(snapshots', latest', m, SnapshotOf(m))
  <2>1. SnapshotOf(m).match = m
    BY MatchTypes DEF ExampleInv
  <2> QED
    BY <1>1, <1>5, <2>1, CollectedNewest
<1>6. \A m \in Matches : Played(m)' /\ Reported(m)'
  BY <1>1, <1>5, MatchesKept
<1> QED
  BY <1>3, <1>4, <1>6 DEF ExampleInv

LEMMA CollectEndsInv ==
  ASSUME ExampleInv, CollectEnds
  PROVE  ExampleInv'
<1>1. /\ UNCHANGED <<pc, matchVars, snapshots, errorsOut, closer, latest, result>>
      /\ snapshots = <<>> /\ closer # "waiting" /\ collector = "snapshots" /\ collector' = "errors"
  BY DEF CollectEnds, idVars
<1>2. ExampleTyped'
  BY <1>1 DEF ExampleInv, ExampleTyped, matchVars, worldVars
<1>3. Collected'
  BY <1>1 DEF ExampleInv, Collected, matchVars
<1>4. \A m \in Matches : Played(m)' /\ Reported(m)'
  BY <1>1, MatchesKept
<1> QED
  BY <1>2, <1>3, <1>4 DEF ExampleInv

\* A nil that is taken from the channel is no match's deadline.
LEMMA TakeErrorInv ==
  ASSUME ExampleInv, TakeError
  PROVE  ExampleInv'
<1>1. /\ collector = "errors" /\ errorsOut # <<>> /\ errorsOut \in Seq({None, "deadline"})
      /\ errorsOut' = Tail(errorsOut) /\ result' = Head(errorsOut)
      /\ collector' = IF result' = None THEN "errors" ELSE "returned"
      /\ UNCHANGED <<pc, matchVars, snapshots, closer, latest>>
  BY DEF TakeError, idVars, ExampleInv, ExampleTyped
<1>2. /\ errorsOut' \in Seq({None, "deadline"})
      /\ ToSet(errorsOut) \subseteq ToSet(errorsOut') \cup {result'}
  BY <1>1, TailToSet
<1>3. ExampleTyped'
  BY <1>1, <1>2 DEF ExampleInv, ExampleTyped, matchVars, worldVars
<1>4. Collected'
  <2>1. Collected /\ result = None
    BY <1>1 DEF ExampleInv, Collected
  <2>2. ASSUME result' = None, NEW m \in Matches, at'[m] = "done", matchErr'[m] # None
        PROVE  matchErr'[m] \in ToSet(errorsOut')
    BY <1>1, <1>2, <2>1, <2>2 DEF Collected, matchVars
  <2>3. /\ closer' # "waiting" => \A m \in Matches : at'[m] = "done"
        /\ collector' # "snapshots" => closer' # "waiting" /\ snapshots' = <<>>
        /\ collector' # "returned" => result' = None
        /\ ~(collector' = "returned" /\ result' = None)
    BY <1>1, <2>1 DEF Collected, matchVars
  <2> QED
    BY <2>2, <2>3 DEF Collected
<1>5. \A m \in Matches : Played(m)' /\ Reported(m)'
  BY <1>1, MatchesKept
<1> QED
  BY <1>3, <1>4, <1>5 DEF ExampleInv

LEMMA ErrorsEndInv ==
  ASSUME ExampleInv, ErrorsEnd
  PROVE  ExampleInv'
<1>1. /\ UNCHANGED <<pc, matchVars, snapshots, errorsOut, closer, latest, result>>
      /\ errorsOut = <<>> /\ collector = "errors" /\ collector' = "returned"
  BY DEF ErrorsEnd, idVars
<1>2. ExampleTyped'
  BY <1>1 DEF ExampleInv, ExampleTyped, matchVars, worldVars
<1>3. Collected'
  BY <1>1 DEF ExampleInv, Collected, matchVars
<1>4. \A m \in Matches : Played(m)' /\ Reported(m)'
  BY <1>1, MatchesKept
<1> QED
  BY <1>2, <1>3, <1>4 DEF ExampleInv

-----------------------------------------------------------------------------
(* The invariant and what follows from it *)

LEMMA ExampleInitInv == ExampleInit => ExampleInv
<1> SUFFICES ASSUME ExampleInit PROVE ExampleInv
  OBVIOUS
<1>1. ExampleTyped
  BY DEF ExampleInit, ExampleTyped, MatchPlaces
<1>2. Collected
  BY DEF ExampleInit, Collected
<1>3. ASSUME NEW m \in Matches PROVE Played(m) /\ Reported(m)
  <2>1. pc[m] = "out" /\ None # "canceled" /\ Speed \in Nat /\ FinalTick[m] \in Nat
    BY <1>1, MatchTypes DEF ExampleInit, IdsInit
  <2>2. at[m] = "start" /\ tick[m] = 0 /\ position[m] = 0 /\ velocity[m] = 0 /\ inputs[m] = 1 /\ ctxErr[m] = None
    BY DEF ExampleInit
  <2> QED
    BY <2>1, <2>2 DEF Played, Reported
<1> QED
  BY <1>1, <1>2, <1>3 DEF ExampleInv

LEMMA ExampleStutterInv ==
  ASSUME ExampleInv, UNCHANGED exampleVars
  PROVE  ExampleInv'
<1>1. UNCHANGED <<pc, matchVars, snapshots, errorsOut, closer, latest, collector, result>>
  BY DEF exampleVars, idVars, runVars
<1>2. ExampleTyped'
  BY <1>1 DEF ExampleInv, ExampleTyped, matchVars, worldVars
<1>3. Collected'
  BY <1>1 DEF ExampleInv, Collected, matchVars
<1>4. \A m \in Matches : Played(m)' /\ Reported(m)'
  BY <1>1, MatchesKept
<1> QED
  BY <1>2, <1>3, <1>4 DEF ExampleInv

LEMMA ExampleNextInv == ExampleInv /\ IdsInv /\ [ExampleNext]_exampleVars => ExampleInv'
<1> SUFFICES ASSUME ExampleInv, IdsInv, [ExampleNext]_exampleVars PROVE ExampleInv'
  OBVIOUS
<1>1. CASE UNCHANGED exampleVars
  BY <1>1, ExampleStutterInv
<1>2. ASSUME NEW c \in Callers, CallNewWorld(c) \/ InNewWorld(c) PROVE ExampleInv'
  BY <1>2, CallNewWorldInv, InNewWorldInv
<1>3. ASSUME NEW m \in Matches, MatchStep(m) PROVE ExampleInv'
  BY <1>3, TickBeginsInv, TakeInputsInv, MoveInv, OutputInv, FinishInv, EndedInv, ReportInv DEF MatchStep
<1>4. CASE Deadline
  BY <1>4, DeadlineInv
<1>5. CASE RunStep
  BY <1>5, CloseChannelsInv, CollectInv, CollectEndsInv, TakeErrorInv, ErrorsEndInv DEF RunStep
<1> QED
  BY <1>1, <1>2, <1>3, <1>4, <1>5 DEF ExampleNext

\* A step of the example is a step of the goroutines in NewWorld, or none of theirs.
LEMMA IdsStep == [ExampleNext]_exampleVars => [IdsNext]_idVars
<1> SUFFICES ASSUME [ExampleNext]_exampleVars PROVE [IdsNext]_idVars
  OBVIOUS
<1>1. CASE UNCHANGED exampleVars
  BY <1>1 DEF exampleVars
<1>2. ASSUME NEW c \in Callers, CallNewWorld(c) \/ InNewWorld(c) PROVE IdsNext
  BY <1>2 DEF CallNewWorld, InNewWorld, IdsNext
<1>3. ASSUME NEW m \in Matches, MatchStep(m) PROVE UNCHANGED idVars
  BY <1>3 DEF MatchStep, TickBegins, TakeInputs, Move, Output, Finish, NoticeCancelled, Ended, Report
<1>4. CASE Deadline \/ RunStep
  BY <1>4 DEF Deadline, RunStep, CloseChannels, Collect, CollectEnds, TakeError, ErrorsEnd
<1> QED
  BY <1>1, <1>2, <1>3, <1>4 DEF ExampleNext

\* The goroutines of the example get their worlds from the allocator of WorldIDs:
\* what holds of any callers of NewWorld holds of the matches.
THEOREM ExampleUsesIds == ExampleSpec => IdsSpec
<1>1. ExampleInit => IdsInit
  BY DEF ExampleInit
<1> QED
  BY <1>1, IdsStep, PTL DEF ExampleSpec, IdsSpec

\* Everything there is to know between the goroutines of the example (runMatch,
\* the systems of newMatch, run).
THEOREM ExampleInvariant == ExampleSpec => []ExampleInv
<1>1. ExampleSpec => []IdsInv
  <2>1. IdsSpec => []IdsInv
    BY IdsInitInv, IdsNextInv, PTL DEF IdsSpec
  <2> QED
    BY <2>1, ExampleUsesIds, PTL
<1> QED
  BY <1>1, ExampleInitInv, ExampleNextInv, PTL DEF ExampleSpec

\* No two worlds of the example's process share an identity (NewWorld).
THEOREM ExampleIds == ExampleSpec => []IdsUnique
  BY ExampleUsesIds, WorldIdsUnique, PTL

LEMMA InvNilMeansFinished == ExampleInv => NilMeansFinished
<1> SUFFICES ASSUME ExampleInv, collector = "returned", result = None, NEW m \in Matches
             PROVE  latest[m] = [match |-> m, tick |-> FinalTick[m], x |-> FinalTick[m] * Speed]
  BY DEF NilMeansFinished
<1>1. /\ \A d \in Matches : at[d] = "done"
      /\ snapshots = <<>> /\ errorsOut = <<>>
      /\ matchErr[m] # None => matchErr[m] \in ToSet(errorsOut)
  BY DEF ExampleInv, Collected
<1>2. matchErr[m] = None
  <2>1. ToSet(<<>>) = {}
    BY DEF ToSet
  <2> QED
    BY <1>1, <2>1
<1>3. Reported(m) /\ None # "deadline"
  BY MatchTypes DEF ExampleInv
<1>4. tick[m] = FinalTick[m] /\ NewestIn(<<>>, latest, m, SnapshotOf(m))
  BY <1>1, <1>2, <1>3 DEF Reported
<1>5. latest[m] = SnapshotOf(m)
  BY <1>4, AllCollected
<1> QED
  BY <1>4, <1>5 DEF SnapshotOf

\* run returns nil only if every match played its last tick, its input moved the
\* player in every tick, and the last tick's snapshot was collected: for any
\* number of matches and ticks and any room in the channel (run, runMatch).
THEOREM ExampleNilMeansFinished == ExampleSpec => []NilMeansFinished
  BY ExampleInvariant, InvNilMeansFinished, PTL

=============================================================================
