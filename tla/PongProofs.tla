----------------------------- MODULE PongProofs ------------------------------
(***************************************************************************)
(* The Pong server's seats, members, controls and shutdown, for any number *)
(* of browsers and requests and any size of the actions channel.           *)
(***************************************************************************)
EXTENDS PongServe, SequenceTheorems, WellFoundedInduction, TLAPS

SideMap == [Clients -> Sides \cup {Spectating}]

Control == [from : Clients, sequence : Nat]

\* Sides are given out once, and to members only.
SidesDistinct(cs, sd) ==
  /\ \A c \in Clients : c \notin ToSet(cs) => sd[c] = Spectating
  /\ \A c, d \in Clients : sd[c] # Spectating /\ sd[c] = sd[d] => c = d

\* The match, the seats, the members and their history agree with each other.
Court ==
  /\ clients = order /\ sequence = heard
  /\ Len(clients) <= MaxClients /\ IsInjective(clients)
  /\ SidesDistinct(clients, side)
  /\ \A i \in DOMAIN clients : side[clients[i]] # Spectating <=> i <= 2
  /\ seats = SeatsOf(side) /\ humans = Occupied(seats)
  /\ ControlsBelongToSeats

CourtInv ==
  /\ clients \in Seq(Clients)
  /\ side \in SideMap /\ sequence \in [Clients -> Nat]
  /\ seats \in [Sides -> Clients \cup {None}]
  /\ controls \in [Sides -> Control \cup {None}]
  /\ Court

\* What a handler puts into the channel of actions.
Action ==
  [kind : {"join"}, id : Clients, by : Clients] \cup [kind : {"leave"}, id : Clients]
  \cup [kind : {"input"}, id : Clients, by : Posts, sequence : Nat]
  \cup [kind : {"restart"}, id : Clients, by : Posts]

LeaveOf(c) == [kind |-> "leave", id |-> c]

\* A session is a member once at most: its join was not applied yet while it is
\* queued, and is queued once.
JoinsAreFresh ==
  /\ \A c \in Clients : stream[c] = "new" => c \notin Members \cup closed
  /\ \A i \in DOMAIN actions : actions[i].kind = "join" =>
       /\ stream[actions[i].id] # "new" /\ actions[i].id \notin Members \cup closed
       /\ \A j \in DOMAIN actions :
            actions[j].kind = "join" /\ actions[j].id = actions[i].id => i = j

\* A join whose handler is gone has its leave behind it.
LeavesFollow ==
  \A i \in DOMAIN actions : actions[i].kind = "join" /\ stream[actions[i].id] = "gone" =>
    done \/ \E j \in DOMAIN actions : i < j /\ actions[j] = LeaveOf(actions[i].id)

QueueInv ==
  /\ at \in HubPlaces /\ done \in BOOLEAN /\ (done <=> at \in {"closing", "stopped"})
  /\ actions \in Seq(Action)
  /\ stream \in [Clients -> StreamPlaces] /\ closed \subseteq Clients
  /\ JoinsAreFresh /\ LeavesFollow /\ MembersAreAlive

\* What waits for a member tells its seat.
SlotInv ==
  /\ slot \in [Clients -> Sides \cup {Spectating, None}]
  /\ \A c \in Members : slot[c] \in {side[c], None}

IInv == CourtInv /\ QueueInv /\ SlotInv

-----------------------------------------------------------------------------
(* Sequences of members *)

\* Induction over a set of numbers, from the well-foundedness of less-than.
LEMMA CountUp ==
  ASSUME NEW n \in Nat, NEW S, 0 \in S, \A k \in 0..n-1 : k \in S => k + 1 \in S
  PROVE  n \in S
<1> DEFINE R == OpToRel(<, Nat)
           Missing == {k \in Nat : k <= n /\ k \notin S}
<1>1. \A k, m \in Nat : k < m => <<k, m>> \in R
  BY DEF OpToRel
<1>2. IsWellFoundedOn(R, Nat)
  BY NatLessThanWellFounded
<1> HIDE DEF R
<1> SUFFICES ASSUME n \notin S PROVE FALSE
  OBVIOUS
<1>3. n \in Missing /\ Missing \in SUBSET Nat
  OBVIOUS
<1>4. PICK m \in Missing : \A k \in Missing : ~(<<k, m>> \in R)
  <2>1. Missing # {}
    BY <1>3
  <2> HIDE DEF Missing
  <2> QED
    BY <1>2, <1>3, <2>1, WFMin
<1>5. m \in Nat /\ m # 0 /\ m <= n /\ m \notin S
  BY <1>4
<1>6. m - 1 \in Missing
  <2>1. m - 1 \in 0..n-1 /\ m = (m - 1) + 1
    BY <1>5
  <2> QED
    BY <1>5, <2>1
<1>7. <<m - 1, m>> \in R
  BY <1>1, <1>5
<1> QED
  BY <1>4, <1>6, <1>7

\* Removing a member closes the gap and keeps the others in order.
LEMMA WithoutAt ==
  ASSUME NEW cs \in Seq(Clients), IsInjective(cs), NEW k \in DOMAIN cs
  PROVE  /\ Without(cs, cs[k]) \in Seq(Clients)
         /\ Len(Without(cs, cs[k])) = Len(cs) - 1
         /\ \A i \in 1..Len(cs) - 1 :
              Without(cs, cs[k])[i] = IF i < k THEN cs[i] ELSE cs[i + 1]
<1> DEFINE before == SubSeq(cs, 1, k - 1)
           behind == SubSeq(cs, k + 1, Len(cs))
<1>1. /\ Len(cs) \in Nat /\ DOMAIN cs = 1..Len(cs) /\ k \in 1..Len(cs)
      /\ \A i \in 1..Len(cs) : cs[i] \in Clients
  BY LenProperties, ElementOfSeq
<1>2. (CHOOSE j \in DOMAIN cs : cs[j] = cs[k]) = k
  BY DEF IsInjective
<1>3. Without(cs, cs[k]) = before \o behind
  BY <1>2 DEF Without, RemoveAt
<1>4. /\ before \in Seq(Clients) /\ Len(before) = k - 1
      /\ \A i \in 1..k-1 : before[i] = cs[i]
  <2>1. \A i \in 1..k-1 : cs[i] \in Clients
    BY <1>1
  <2>2. /\ 1 \in Int /\ k - 1 \in Int
        /\ \A i \in 1..(k - 1) - 1 + 1 : SubSeq(cs, 1, k - 1)[i] = cs[1 + i - 1]
        /\ SubSeq(cs, 1, k - 1) \in Seq(Clients)
        /\ Len(SubSeq(cs, 1, k - 1)) = IF 1 <= k - 1 THEN (k - 1) - 1 + 1 ELSE 0
    BY <1>1, <2>1, SubSeqProperties
  <2> QED
    BY <1>1, <2>2
<1>5. /\ behind \in Seq(Clients) /\ Len(behind) = Len(cs) - k
      /\ \A i \in 1..Len(cs) - k : behind[i] = cs[k + i]
  <2>1. \A i \in k+1..Len(cs) : cs[i] \in Clients
    BY <1>1
  <2>2. /\ k + 1 \in Int /\ Len(cs) \in Int
        /\ \A i \in 1..Len(cs) - (k + 1) + 1 : SubSeq(cs, k + 1, Len(cs))[i] = cs[(k + 1) + i - 1]
        /\ SubSeq(cs, k + 1, Len(cs)) \in Seq(Clients)
        /\ Len(SubSeq(cs, k + 1, Len(cs))) = IF k + 1 <= Len(cs) THEN Len(cs) - (k + 1) + 1 ELSE 0
    BY <1>1, <2>1, SubSeqProperties
  <2> QED
    BY <1>1, <2>2
<1> HIDE DEF before, behind
<1>6. /\ before \o behind \in Seq(Clients)
      /\ Len(before \o behind) = (k - 1) + (Len(cs) - k)
      /\ \A i \in 1..(k - 1) + (Len(cs) - k) :
           (before \o behind)[i] = IF i <= k - 1 THEN before[i] ELSE behind[i - (k - 1)]
  <2>1. /\ before \o behind \in Seq(Clients)
        /\ Len(before \o behind) = Len(before) + Len(behind)
        /\ \A i \in 1..Len(before) + Len(behind) :
             (before \o behind)[i] = IF i <= Len(before) THEN before[i] ELSE behind[i - Len(before)]
    BY <1>4, <1>5, ConcatProperties
  <2> QED
    BY <1>4, <1>5, <2>1
<1>7. ASSUME NEW i \in 1..Len(cs) - 1
      PROVE  (before \o behind)[i] = IF i < k THEN cs[i] ELSE cs[i + 1]
  <2>1. CASE i < k
    BY <1>1, <1>4, <1>6, <2>1
  <2>2. CASE ~(i < k)
    <3>1. i - (k - 1) \in 1..Len(cs) - k /\ k + (i - (k - 1)) = i + 1
      BY <1>1, <2>2
    <3>2. (before \o behind)[i] = behind[i - (k - 1)]
      BY <1>1, <1>6, <2>2
    <3>3. behind[i - (k - 1)] = cs[k + (i - (k - 1))]
      BY <1>5, <3>1
    <3> QED
      BY <2>2, <3>1, <3>2, <3>3
  <2> QED
    BY <2>1, <2>2
<1> QED
  BY <1>1, <1>3, <1>6, <1>7

\* What is left has the same members but the one removed, each once.
LEMMA WithoutMembers ==
  ASSUME NEW cs \in Seq(Clients), IsInjective(cs), NEW c \in ToSet(cs)
  PROVE  /\ Without(cs, c) \in Seq(Clients) /\ IsInjective(Without(cs, c))
         /\ ToSet(Without(cs, c)) = ToSet(cs) \ {c}
         /\ Len(Without(cs, c)) = Len(cs) - 1
         /\ \E k \in 1..Len(cs) :
              /\ cs[k] = c
              /\ \A i \in 1..Len(cs) - 1 :
                   Without(cs, c)[i] = IF i < k THEN cs[i] ELSE cs[i + 1]
<1>1. /\ Len(cs) \in Nat /\ DOMAIN cs = 1..Len(cs)
  BY LenProperties
<1>2. PICK k \in 1..Len(cs) : cs[k] = c
  BY <1>1 DEF ToSet
<1> DEFINE w == Without(cs, c)
<1>3. /\ w \in Seq(Clients) /\ Len(w) = Len(cs) - 1
      /\ \A i \in 1..Len(cs) - 1 : w[i] = IF i < k THEN cs[i] ELSE cs[i + 1]
  BY <1>1, <1>2, WithoutAt
<1> HIDE DEF w
<1>4. DOMAIN w = 1..Len(cs) - 1
  BY <1>3, LenProperties
<1>5. IsInjective(w)
  <2> SUFFICES ASSUME NEW i \in 1..Len(cs) - 1, NEW j \in 1..Len(cs) - 1, w[i] = w[j] PROVE i = j
    BY <1>4 DEF IsInjective
  <2>1. \A m, n \in 1..Len(cs) : cs[m] = cs[n] => m = n
    BY <1>1 DEF IsInjective
  <2> QED
    BY <1>1, <1>2, <1>3, <2>1
<1>6. ToSet(w) = ToSet(cs) \ {c}
  <2>1. ASSUME NEW i \in 1..Len(cs) - 1 PROVE w[i] \in ToSet(cs) \ {c}
    <3>1. PICK j \in 1..Len(cs) : w[i] = cs[j] /\ j # k
      BY <1>1, <1>2, <1>3
    <3> QED
      BY <1>1, <1>2, <3>1 DEF ToSet, IsInjective
  <2>2. ASSUME NEW d \in ToSet(cs) \ {c} PROVE d \in ToSet(w)
    <3>1. PICK j \in 1..Len(cs) : d = cs[j] /\ j # k
      BY <1>1, <1>2 DEF ToSet
    <3>2. CASE j < k
      <4>1. j \in 1..Len(cs) - 1 /\ w[j] = d
        BY <1>1, <1>2, <1>3, <3>1, <3>2
      <4> QED
        BY <1>4, <4>1 DEF ToSet
    <3>3. CASE ~(j < k)
      <4>1. j - 1 \in 1..Len(cs) - 1 /\ w[j - 1] = d
        <5>1. j - 1 \in 1..Len(cs) - 1 /\ ~(j - 1 < k) /\ (j - 1) + 1 = j
          BY <1>1, <1>2, <3>1, <3>3
        <5> QED
          BY <1>3, <3>1, <5>1
      <4> QED
        BY <1>4, <4>1 DEF ToSet
    <3> QED
      BY <3>2, <3>3
  <2>3. ToSet(w) \subseteq ToSet(cs) \ {c}
    BY <1>4, <2>1 DEF ToSet
  <2> QED
    BY <2>2, <2>3
<1> QED
  BY <1>2, <1>3, <1>5, <1>6 DEF w

\* A newcomer is the last member.
LEMMA AppendMembers ==
  ASSUME NEW cs \in Seq(Clients), IsInjective(cs), NEW c \in Clients, c \notin ToSet(cs)
  PROVE  /\ Append(cs, c) \in Seq(Clients) /\ IsInjective(Append(cs, c))
         /\ ToSet(Append(cs, c)) = ToSet(cs) \cup {c}
         /\ Len(Append(cs, c)) = Len(cs) + 1
         /\ \A i \in 1..Len(cs) : Append(cs, c)[i] = cs[i]
         /\ Append(cs, c)[Len(cs) + 1] = c
<1> DEFINE w == Append(cs, c)
<1>1. /\ Len(cs) \in Nat /\ DOMAIN cs = 1..Len(cs)
  BY LenProperties
<1>2. /\ w \in Seq(Clients) /\ Len(w) = Len(cs) + 1
      /\ \A i \in 1..Len(cs) : w[i] = cs[i]
      /\ w[Len(cs) + 1] = c
  BY AppendProperties
<1> HIDE DEF w
<1>3. DOMAIN w = 1..Len(cs) + 1
  BY <1>2, LenProperties
<1>4. \A i \in 1..Len(cs) : cs[i] # c
  BY <1>1 DEF ToSet
<1>5. IsInjective(w)
  <2> SUFFICES ASSUME NEW i \in 1..Len(cs) + 1, NEW j \in 1..Len(cs) + 1, w[i] = w[j] PROVE i = j
    BY <1>3 DEF IsInjective
  <2>1. \A m, n \in 1..Len(cs) : cs[m] = cs[n] => m = n
    BY <1>1 DEF IsInjective
  <2> QED
    BY <1>1, <1>2, <1>4, <2>1
<1>6. ToSet(w) = ToSet(cs) \cup {c}
  <2>1. \A i \in 1..Len(cs) + 1 : w[i] \in ToSet(cs) \cup {c}
    BY <1>1, <1>2 DEF ToSet
  <2>2. \A d \in ToSet(cs) : \E i \in 1..Len(cs) + 1 : w[i] = d
    BY <1>1, <1>2 DEF ToSet
  <2>3. w[Len(cs) + 1] = c /\ Len(cs) + 1 \in 1..Len(cs) + 1
    BY <1>1, <1>2
  <2> QED
    BY <1>3, <2>1, <2>2, <2>3 DEF ToSet
<1> QED
  BY <1>2, <1>5, <1>6 DEF w

-----------------------------------------------------------------------------
(* Seats *)

\* A free side is given out when there is one, and nothing else changes.
LEMMA PromotedProps ==
  ASSUME NEW s \in SideMap, NEW c \in Clients
  PROVE  /\ Promoted(s, c) \in SideMap
         /\ \A d \in Clients \ {c} : Promoted(s, c)[d] = s[d]
         /\ s[c] # Spectating \/ Free(s) = {} => Promoted(s, c) = s
         /\ s[c] = Spectating /\ Free(s) # {} => Promoted(s, c)[c] \in Free(s)
<1>1. CASE s[c] # Spectating \/ Free(s) = {}
  BY <1>1 DEF Promoted
<1>2. CASE s[c] = Spectating /\ Free(s) # {}
  <2>1. Min(Free(s)) \in Free(s)
    <3>1. Free(s) \subseteq {0, 1}
      BY DEF Free, Sides
    <3>2. \E x \in Free(s) : \A y \in Free(s) : x <= y
      BY <1>2, <3>1
    <3> QED
      BY <3>2 DEF Min
  <2>2. Promoted(s, c) = [s EXCEPT ![c] = Min(Free(s))]
    BY <1>2 DEF Promoted
  <2>3. Min(Free(s)) \in Sides
    BY <2>1 DEF Free
  <2> QED
    BY <1>2, <2>1, <2>2, <2>3 DEF SideMap
<1> QED
  BY <1>1, <1>2

\* s is sd after the first k members of cs had their turn to take a seat.
Stage(cs, sd, k, s) ==
  /\ s \in SideMap /\ SidesDistinct(cs, s)
  /\ \A i \in 1..Len(cs) :
       /\ i <= k => (s[cs[i]] # Spectating <=> i <= 2)
       /\ i > k => s[cs[i]] = sd[cs[i]]
  /\ \A c \in Clients : sd[c] # Spectating => s[c] = sd[c]

\* Seats may be free before the first two had their turn, and only then.
LEMMA FreeSeats ==
  ASSUME NEW cs \in Seq(Clients), IsInjective(cs), NEW sd \in SideMap,
         \A i \in DOMAIN cs : sd[cs[i]] # Spectating => i <= 2,
         NEW k \in Nat, k + 1 \in 1..Len(cs), NEW s, Stage(cs, sd, k, s)
  PROVE  /\ k >= 2 => Free(s) = {}
         /\ k < 2 /\ s[cs[k + 1]] = Spectating => Free(s) # {}
<1>1. /\ Len(cs) \in Nat /\ DOMAIN cs = 1..Len(cs)
      /\ \A i \in 1..Len(cs) : cs[i] \in Clients
  BY LenProperties, ElementOfSeq
<1>2. /\ s \in SideMap
      /\ \A c, d \in Clients : s[c] # Spectating /\ s[c] = s[d] => c = d
      /\ \A i \in 1..Len(cs) : s[cs[i]] # Spectating => i <= 2
      /\ \A c \in Clients : c \notin ToSet(cs) => s[c] = Spectating
  BY <1>1 DEF Stage, SidesDistinct
<1>3. \A i, j \in 1..Len(cs) : cs[i] = cs[j] => i = j
  BY <1>1 DEF IsInjective
<1>4. ASSUME k >= 2 PROVE Free(s) = {}
  <2>1. 1 \in 1..Len(cs) /\ 2 \in 1..Len(cs) /\ cs[1] # cs[2]
    BY <1>1, <1>3, <1>4
  <2>2. s[cs[1]] # Spectating /\ s[cs[2]] # Spectating
    BY <1>4, <2>1 DEF Stage
  <2>3. s[cs[1]] \in {0, 1} /\ s[cs[2]] \in {0, 1} /\ s[cs[1]] # s[cs[2]]
    BY <1>1, <1>2, <2>1, <2>2 DEF SideMap, Sides
  <2>4. \A t \in {0, 1} : t = s[cs[1]] \/ t = s[cs[2]]
    BY <2>3
  <2> QED
    BY <1>1, <2>1, <2>4 DEF Free, Sides
<1>5. ASSUME k < 2, s[cs[k + 1]] = Spectating PROVE Free(s) # {}
  <2>1. SUFFICES ASSUME 0 \notin Free(s), 1 \notin Free(s) PROVE FALSE
    OBVIOUS
  <2>2. PICK c \in Clients : s[c] = 0
    BY <2>1 DEF Free, Sides
  <2>3. PICK d \in Clients : s[d] = 1
    BY <2>1 DEF Free, Sides
  <2>4. PICK i \in 1..Len(cs) : c = cs[i]
    BY <1>1, <1>2, <2>2 DEF ToSet, Spectating
  <2>5. PICK j \in 1..Len(cs) : d = cs[j]
    BY <1>1, <1>2, <2>3 DEF ToSet, Spectating
  <2>6. i <= 2 /\ j <= 2 /\ i # j /\ i # k + 1 /\ j # k + 1
    BY <1>2, <1>5, <2>2, <2>3, <2>4, <2>5 DEF Spectating
  <2> QED
    BY <1>1, <1>5, <2>6
<1> QED
  BY <1>4, <1>5

\* One member's turn.
LEMMA NextStage ==
  ASSUME NEW cs \in Seq(Clients), IsInjective(cs), NEW sd \in SideMap,
         \A i \in DOMAIN cs : sd[cs[i]] # Spectating => i <= 2,
         NEW k \in Nat, k + 1 \in 1..Len(cs), NEW s, Stage(cs, sd, k, s)
  PROVE  Stage(cs, sd, k + 1, Promoted(s, cs[k + 1]))
<1> DEFINE c == cs[k + 1]
           p == Promoted(s, c)
<1>1. /\ Len(cs) \in Nat /\ DOMAIN cs = 1..Len(cs) /\ c \in Clients
      /\ \A i \in 1..Len(cs) : cs[i] \in Clients
  BY LenProperties, ElementOfSeq
<1>2. \A i \in 1..Len(cs) : i # k + 1 => cs[i] # c
  BY <1>1 DEF IsInjective
<1>3. s \in SideMap /\ s[c] = sd[c]
  BY DEF Stage
<1>4. /\ p \in SideMap
      /\ \A d \in Clients \ {c} : p[d] = s[d]
      /\ s[c] # Spectating \/ Free(s) = {} => p = s
      /\ s[c] = Spectating /\ Free(s) # {} => p[c] \in Free(s)
  BY <1>1, <1>3, PromotedProps
<1>5. /\ k >= 2 => Free(s) = {}
      /\ k < 2 /\ s[c] = Spectating => Free(s) # {}
  BY FreeSeats
<1>6. s[c] # Spectating => k + 1 <= 2
  BY <1>1, <1>3
<1> HIDE DEF p
<1>7. p[c] # Spectating <=> k + 1 <= 2
  <2>1. CASE k >= 2
    <3>1. s[c] = Spectating /\ p = s
      BY <1>4, <1>5, <1>6, <2>1
    <3> QED
      BY <2>1, <3>1
  <2>2. CASE k < 2 /\ s[c] # Spectating
    BY <1>4, <2>2
  <2>3. CASE k < 2 /\ s[c] = Spectating
    <3>1. p[c] \in Free(s)
      BY <1>4, <1>5, <2>3
    <3>2. p[c] # Spectating
      BY <3>1 DEF Free, Sides, Spectating
    <3> QED
      BY <2>3, <3>2
  <2> QED
    BY <2>1, <2>2, <2>3
<1>8. c \in ToSet(cs)
  BY <1>1 DEF ToSet
<1>9. SidesDistinct(cs, p)
  <2>1. ASSUME NEW d \in Clients, d \notin ToSet(cs) PROVE p[d] = Spectating
    BY <1>4, <1>8, <2>1 DEF Stage, SidesDistinct
  <2>2. ASSUME NEW d \in Clients, NEW e \in Clients, p[d] # Spectating, p[d] = p[e] PROVE d = e
    <3>1. CASE p = s
      BY <2>2, <3>1 DEF Stage, SidesDistinct
    <3>2. CASE p # s
      <4>1. \A f \in Clients : s[f] # p[c]
        BY <1>4, <3>2 DEF Free
      <4>2. CASE d = c \/ e = c
        BY <1>4, <2>2, <4>1, <4>2
      <4>3. CASE d # c /\ e # c
        BY <1>4, <2>2, <4>3 DEF Stage, SidesDistinct
      <4> QED
        BY <4>2, <4>3
    <3> QED
      BY <3>1, <3>2
  <2> QED
    BY <2>1, <2>2 DEF SidesDistinct
<1>10. ASSUME NEW i \in 1..Len(cs)
       PROVE  /\ i <= k + 1 => (p[cs[i]] # Spectating <=> i <= 2)
              /\ i > k + 1 => p[cs[i]] = sd[cs[i]]
  <2>1. CASE i = k + 1
    BY <1>7, <2>1
  <2>2. CASE i # k + 1
    <3>1. p[cs[i]] = s[cs[i]]
      BY <1>1, <1>2, <1>4, <2>2
    <3> QED
      BY <2>2, <3>1 DEF Stage
  <2> QED
    BY <2>1, <2>2
<1>11. ASSUME NEW d \in Clients, sd[d] # Spectating PROVE p[d] = sd[d]
  <2>1. s[d] = sd[d]
    BY <1>11 DEF Stage
  <2>2. CASE d = c
    BY <1>4, <1>11, <2>1, <2>2
  <2>3. CASE d # c
    BY <1>4, <2>1, <2>3
  <2> QED
    BY <2>2, <2>3
<1> QED
  BY <1>4, <1>9, <1>10, <1>11 DEF Stage, p

\* f gives the sides after each of the first m turns.
Turns(cs, sd, f, m) == f = [k \in 0..m |-> IF k = 0 THEN sd ELSE Promoted(f[k - 1], cs[k])]

\* The members' turns one after the other.
LEMMA SeatedStage ==
  ASSUME NEW cs \in Seq(Clients), IsInjective(cs), NEW sd \in SideMap, SidesDistinct(cs, sd),
         \A i \in DOMAIN cs : sd[cs[i]] # Spectating => i <= 2
  PROVE  Stage(cs, sd, Len(cs), Seated(cs, sd))
<1> DEFINE n == Len(cs)
           Good == {m \in 0..n : \E g : Turns(cs, sd, g, m) /\ Stage(cs, sd, m, g[m])}
<1>1. n \in Nat /\ DOMAIN cs = 1..n
  BY LenProperties
<1>2. 0 \in Good
  <2> DEFINE g == [k \in 0..0 |-> sd]
  <2>1. Turns(cs, sd, g, 0)
    BY DEF Turns
  <2>2. Stage(cs, sd, 0, g[0])
    BY <1>1 DEF Stage
  <2> HIDE DEF g
  <2> QED
    BY <1>1, <2>1, <2>2
<1>3. ASSUME NEW m \in 0..n-1, m \in Good PROVE m + 1 \in Good
  <2>1. PICK g : Turns(cs, sd, g, m) /\ Stage(cs, sd, m, g[m])
    BY <1>3
  <2> DEFINE h == [k \in 0..m+1 |-> IF k = m + 1 THEN Promoted(g[m], cs[m + 1]) ELSE g[k]]
  <2>2. \A k \in 0..m : h[k] = g[k]
    BY <1>1
  <2>3. h[m + 1] = Promoted(g[m], cs[m + 1])
    BY <1>1
  <2>4. Turns(cs, sd, h, m + 1)
    <3> SUFFICES ASSUME NEW k \in 0..m+1
                 PROVE  h[k] = IF k = 0 THEN sd ELSE Promoted(h[k - 1], cs[k])
      BY DEF Turns
    <3>1. CASE k = m + 1
      <4>1. k # 0 /\ k - 1 = m /\ m \in 0..m
        BY <1>1, <3>1
      <4> QED
        BY <2>2, <2>3, <3>1, <4>1
    <3>2. CASE k # m + 1 /\ k # 0
      <4>1. k \in 0..m /\ k - 1 \in 0..m
        BY <1>1, <3>2
      <4>2. g[k] = Promoted(g[k - 1], cs[k])
        BY <2>1, <3>2, <4>1 DEF Turns
      <4> QED
        BY <2>2, <3>2, <4>1, <4>2
    <3>3. CASE k = 0
      <4>1. 0 \in 0..m
        BY <1>1
      <4>2. g[0] = sd
        BY <2>1, <4>1 DEF Turns
      <4> QED
        BY <2>2, <3>3, <4>1, <4>2
    <3> QED
      BY <3>1, <3>2, <3>3
  <2>5. Stage(cs, sd, m + 1, h[m + 1])
    <3>1. m \in Nat /\ m + 1 \in 1..Len(cs)
      BY <1>1
    <3> QED
      BY <2>1, <2>3, <3>1, NextStage
  <2> HIDE DEF h
  <2> QED
    BY <1>1, <2>4, <2>5
<1>4. n \in Good
  <2> HIDE DEF Good
  <2> QED
    BY <1>1, <1>2, <1>3, CountUp
<1>5. PICK g : Turns(cs, sd, g, n) /\ Stage(cs, sd, n, g[n])
  BY <1>4
<1>6. \A f : Turns(cs, sd, f, n) => f = g
  <2> SUFFICES ASSUME NEW f, Turns(cs, sd, f, n) PROVE f = g
    OBVIOUS
  <2> DEFINE Same == {k \in 0..n : f[k] = g[k]}
  <2>1. /\ DOMAIN f = 0..n /\ DOMAIN g = 0..n
        /\ f = [k \in 0..n |-> f[k]] /\ g = [k \in 0..n |-> g[k]]
    BY <1>5 DEF Turns
  <2>2. 0 \in Same
    BY <1>1, <1>5 DEF Turns
  <2>3. ASSUME NEW k \in 0..n-1, k \in Same PROVE k + 1 \in Same
    <3>1. k + 1 \in 0..n /\ k + 1 # 0 /\ (k + 1) - 1 = k
      BY <1>1
    <3>2. f[k + 1] = Promoted(f[k], cs[k + 1]) /\ g[k + 1] = Promoted(g[k], cs[k + 1])
      BY <1>5, <3>1 DEF Turns
    <3> QED
      BY <2>3, <3>1, <3>2
  <2>4. ASSUME NEW k \in 0..n PROVE k \in Same
    <3> HIDE DEF Same
    <3>1. \A j \in 0..k-1 : j \in Same => j + 1 \in Same
      BY <1>1, <2>3
    <3> QED
      BY <2>2, <3>1, CountUp
  <2> QED
    BY <2>1, <2>4
<1>7. Seated(cs, sd) = (CHOOSE f : Turns(cs, sd, f, n))[n]
  BY DEF Seated, Turns
<1> QED
  BY <1>5, <1>6, <1>7

\* Who sits where is read off the sides.
LEMMA SeatsAre ==
  ASSUME NEW cs, NEW sd \in SideMap, SidesDistinct(cs, sd)
  PROVE  /\ SeatsOf(sd) \in [Sides -> Clients \cup {None}]
         /\ \A c \in Clients : sd[c] # Spectating =>
              sd[c] \in Sides /\ c \in ToSet(cs) /\ SeatsOf(sd)[sd[c]] = c
         /\ \A s \in Sides : SeatsOf(sd)[s] # None =>
              SeatsOf(sd)[s] \in ToSet(cs) /\ sd[SeatsOf(sd)[s]] = s
<1>1. ASSUME NEW s \in Sides, NEW c \in Clients, sd[c] = s
      PROVE  SeatsOf(sd)[s] = c
  <2>1. \A d \in Clients : sd[d] = s => d = c
    BY <1>1 DEF SidesDistinct, Sides, Spectating
  <2>2. (CHOOSE d \in Clients : sd[d] = s) = c
    BY <1>1, <2>1
  <2> QED
    BY <1>1, <2>2 DEF SeatsOf
<1>2. ASSUME NEW s \in Sides, \A c \in Clients : sd[c] # s
      PROVE  SeatsOf(sd)[s] = None
  BY <1>2 DEF SeatsOf
<1>3. SeatsOf(sd) = [s \in Sides |-> SeatsOf(sd)[s]]
  BY DEF SeatsOf
<1>4. \A s \in Sides : SeatsOf(sd)[s] \in Clients \cup {None}
  BY <1>1, <1>2
<1>5. ASSUME NEW c \in Clients, sd[c] # Spectating
      PROVE  sd[c] \in Sides /\ c \in ToSet(cs) /\ SeatsOf(sd)[sd[c]] = c
  BY <1>1, <1>5 DEF SideMap, SidesDistinct
<1>6. ASSUME NEW s \in Sides, SeatsOf(sd)[s] # None
      PROVE  SeatsOf(sd)[s] \in ToSet(cs) /\ sd[SeatsOf(sd)[s]] = s
  <2>1. PICK c \in Clients : sd[c] = s
    BY <1>2, <1>6
  <2>2. sd[c] # Spectating
    BY <2>1 DEF Sides, Spectating
  <2> QED
    BY <1>1, <1>5, <2>1, <2>2
<1>7. SeatsOf(sd) \in [Sides -> Clients \cup {None}]
  BY <1>3, <1>4
<1> QED
  BY <1>5, <1>6, <1>7

NoControls == [s \in Sides |-> None]

\* assignSeats: the first two members are seated, and the match starts again
\* unless everybody keeps their seat.
LEMMA AssignedSeats ==
  ASSUME NEW cs \in Seq(Clients), IsInjective(cs), NEW sd \in SideMap, SidesDistinct(cs, sd),
         \A i \in DOMAIN cs : sd[cs[i]] # Spectating => i <= 2,
         humans = Occupied(seats), AssignSeats(cs, sd)
  PROVE  /\ side' \in SideMap /\ SidesDistinct(cs, side)'
         /\ \A i \in DOMAIN cs : side'[cs[i]] # Spectating <=> i <= 2
         /\ seats' = SeatsOf(side') /\ humans' = Occupied(seats')
         /\ controls' = NoControls \/ (controls' = controls /\ seats' = seats)
<1>1. Stage(cs, sd, Len(cs), Seated(cs, sd)) /\ side' = Seated(cs, sd)
  BY SeatedStage DEF AssignSeats
<1>2. Len(cs) \in Nat /\ DOMAIN cs = 1..Len(cs)
  BY LenProperties
<1>3. /\ side' \in SideMap /\ SidesDistinct(cs, side)'
      /\ \A i \in DOMAIN cs : side'[cs[i]] # Spectating <=> i <= 2
  BY <1>1, <1>2 DEF Stage, SidesDistinct
<1>4. seats' = SeatsOf(side')
  BY DEF AssignSeats
<1>5. CASE seats' # seats
  BY <1>3, <1>4, <1>5 DEF AssignSeats, FreshMatch, NoControls
<1>6. CASE seats' = seats
  BY <1>3, <1>4, <1>6 DEF AssignSeats
<1> QED
  BY <1>5, <1>6

-----------------------------------------------------------------------------
(* Court *)

LEMMA CourtStays ==
  ASSUME CourtInv, UNCHANGED courtVars PROVE CourtInv'
  BY DEF CourtInv, Court, SidesDistinct, ControlsBelongToSeats, courtVars

\* The controls that a change of the members leaves are those of people who
\* keep their seats.
LEMMA CourtAfterSeats ==
  ASSUME CourtInv, NEW cs \in Seq(Clients), IsInjective(cs), Len(cs) <= MaxClients,
         NEW sd \in SideMap, SidesDistinct(cs, sd),
         \A i \in DOMAIN cs : sd[cs[i]] # Spectating => i <= 2,
         MembersBecome(cs, sd), order' = cs,
         sequence' = heard', sequence' \in [Clients -> Nat],
         \A c \in ToSet(cs) : heard'[c] = heard[c]
  PROVE  CourtInv'
<1>1. /\ side' \in SideMap /\ SidesDistinct(cs, side)'
      /\ \A i \in DOMAIN cs : side'[cs[i]] # Spectating <=> i <= 2
      /\ seats' = SeatsOf(side') /\ humans' = Occupied(seats')
      /\ controls' = NoControls \/ (controls' = controls /\ seats' = seats)
  <2>1. AssignSeats(cs, sd) /\ humans = Occupied(seats)
    BY DEF MembersBecome, CourtInv, Court
  <2> QED
    BY <2>1, AssignedSeats
<1>2. SidesDistinct(cs, side')
  BY <1>1 DEF SidesDistinct
<1>3. /\ SeatsOf(side') \in [Sides -> Clients \cup {None}]
      /\ \A s \in Sides : SeatsOf(side')[s] # None => SeatsOf(side')[s] \in ToSet(cs)
  BY <1>1, <1>2, SeatsAre
<1>4. clients' = cs
  BY DEF MembersBecome
<1>5. controls' \in [Sides -> Control \cup {None}]
  BY <1>1 DEF CourtInv, NoControls
<1>6. ControlsBelongToSeats'
  <2> SUFFICES ASSUME NEW s \in Sides, controls'[s] # None
               PROVE  controls'[s].from = seats'[s] /\ controls'[s].sequence = heard'[seats'[s]]
    BY DEF ControlsBelongToSeats
  <2>1. controls' = controls /\ seats' = seats
    BY <1>1 DEF NoControls
  <2>2. controls[s].from = seats[s] /\ controls[s].sequence = heard[seats[s]]
    BY <2>1 DEF CourtInv, Court, ControlsBelongToSeats
  <2>3. controls[s] \in Control /\ seats[s] \in Clients
    BY <2>1, <2>2 DEF CourtInv, Control
  <2>4. seats[s] \in ToSet(cs)
    BY <1>1, <1>3, <2>1, <2>3, PongHubAssumption
  <2> QED
    BY <2>1, <2>2, <2>4
<1> QED
  BY <1>1, <1>3, <1>4, <1>5, <1>6 DEF CourtInv, Court

LEMMA JoinCourt ==
  ASSUME CourtInv, NEW c \in Clients, c \notin Members, ApplyJoin(c) PROVE CourtInv'
<1>1. CASE Len(clients) >= MaxClients
  BY <1>1, CourtStays DEF ApplyJoin
<1>2. CASE ~(Len(clients) >= MaxClients)
  <2> DEFINE cs == Append(clients, c)
  <2>1. /\ clients \in Seq(Clients) /\ IsInjective(clients) /\ Len(clients) \in Nat
        /\ DOMAIN clients = 1..Len(clients)
    BY LenProperties DEF CourtInv, Court
  <2>2. /\ cs \in Seq(Clients) /\ IsInjective(cs) /\ ToSet(cs) = Members \cup {c}
        /\ Len(cs) = Len(clients) + 1
        /\ \A i \in 1..Len(clients) : cs[i] = clients[i]
        /\ cs[Len(clients) + 1] = c
    BY <2>1, AppendMembers DEF Members
  <2>3. MembersBecome(cs, [side EXCEPT ![c] = Spectating]) /\ order' = cs
    BY <1>2 DEF ApplyJoin, CourtInv, Court
  <2>4. [side EXCEPT ![c] = Spectating] = side
    BY DEF CourtInv, Court, SidesDistinct, SideMap, Members
  <2> HIDE DEF cs
  <2>5. side \in SideMap /\ SidesDistinct(cs, side)
    BY <2>2 DEF CourtInv, Court, SidesDistinct, Members
  <2>6. ASSUME NEW i \in DOMAIN cs, side[cs[i]] # Spectating PROVE i <= 2
    <3>1. i \in 1..Len(clients) + 1
      BY <2>2, LenProperties
    <3>2. side[c] = Spectating
      BY DEF CourtInv, Court, SidesDistinct, Members
    <3>3. i \in 1..Len(clients) /\ cs[i] = clients[i]
      BY <2>1, <2>2, <2>6, <3>1, <3>2
    <3> QED
      BY <2>1, <2>6, <3>3 DEF CourtInv, Court
  <2>7. Len(cs) <= MaxClients
    BY <1>2, <2>1, <2>2, PongHubAssumption
  <2>8. sequence' = heard' /\ sequence' \in [Clients -> Nat] /\ heard' = heard
    BY <1>2 DEF ApplyJoin, CourtInv, Court
  <2> QED
    BY <2>2, <2>3, <2>4, <2>5, <2>6, <2>7, <2>8, CourtAfterSeats
<1> QED
  BY <1>1, <1>2

LEMMA LeaveCourt ==
  ASSUME CourtInv, NEW c \in Members, ApplyLeave(c) PROVE CourtInv'
<1> DEFINE cs == Without(clients, c)
           sd == [side EXCEPT ![c] = Spectating]
<1>1. /\ clients \in Seq(Clients) /\ IsInjective(clients) /\ Len(clients) \in Nat
      /\ DOMAIN clients = 1..Len(clients) /\ Members \subseteq Clients /\ order = clients
      /\ Len(clients) <= MaxClients
  <2>1. clients \in Seq(Clients)
    BY DEF CourtInv
  <2>2. \A i \in DOMAIN clients : clients[i] \in Clients
    BY <2>1, LenProperties, ElementOfSeq
  <2> QED
    BY <2>1, <2>2, LenProperties DEF CourtInv, Court, Members, ToSet
<1>2. /\ cs \in Seq(Clients) /\ IsInjective(cs) /\ ToSet(cs) = Members \ {c}
      /\ Len(cs) = Len(clients) - 1
  BY <1>1, WithoutMembers DEF Members
<1>3. PICK k \in 1..Len(clients) :
        /\ clients[k] = c
        /\ \A i \in 1..Len(clients) - 1 : cs[i] = IF i < k THEN clients[i] ELSE clients[i + 1]
  BY <1>1, WithoutMembers DEF Members
<1>4. MembersBecome(cs, sd) /\ order' = cs
  BY <1>1 DEF ApplyLeave, WithoutClient
<1>5. /\ side \in SideMap
      /\ \A d \in Clients : d \notin Members => side[d] = Spectating
      /\ \A d, e \in Clients : side[d] # Spectating /\ side[d] = side[e] => d = e
      /\ \A i \in 1..Len(clients) : side[clients[i]] # Spectating <=> i <= 2
  BY <1>1 DEF CourtInv, Court, SidesDistinct, Members
<1>6. /\ sd \in SideMap /\ sd[c] = Spectating
      /\ \A d \in Clients \ {c} : sd[d] = side[d]
  BY <1>1, <1>5 DEF SideMap
<1> HIDE DEF cs, sd
<1>7. SidesDistinct(cs, sd)
  <2>1. \A d \in Clients : d \notin ToSet(cs) => sd[d] = Spectating
    BY <1>2, <1>5, <1>6
  <2>2. ASSUME NEW d \in Clients, NEW e \in Clients, sd[d] # Spectating, sd[d] = sd[e] PROVE d = e
    BY <1>5, <1>6, <2>2
  <2> QED
    BY <2>1, <2>2 DEF SidesDistinct
<1>8. ASSUME NEW i \in DOMAIN cs, sd[cs[i]] # Spectating PROVE i <= 2
  <2>1. i \in 1..Len(clients) - 1
    BY <1>1, <1>2, LenProperties
  <2>2. PICK j \in 1..Len(clients) : cs[i] = clients[j] /\ i <= j
    BY <1>1, <1>3, <2>1
  <2>3. side[clients[j]] # Spectating
    <3>1. clients[j] # c /\ clients[j] \in Clients
      BY <1>1, <1>6, <1>8, <2>2, ElementOfSeq
    <3> QED
      BY <1>6, <1>8, <2>2, <3>1
  <2> QED
    BY <1>1, <1>5, <2>1, <2>2, <2>3
<1>9. Len(cs) <= MaxClients
  BY <1>1, <1>2, PongHubAssumption
<1>10. /\ sequence' = [sequence EXCEPT ![c] = 0] /\ heard' = [heard EXCEPT ![c] = 0]
       /\ sequence = heard /\ sequence \in [Clients -> Nat]
  BY DEF ApplyLeave, CourtInv, Court
<1>11. /\ sequence' = heard' /\ sequence' \in [Clients -> Nat]
       /\ \A d \in ToSet(cs) : heard'[d] = heard[d]
  BY <1>1, <1>2, <1>10
<1> QED
  BY <1>2, <1>4, <1>6, <1>7, <1>8, <1>9, <1>11, CourtAfterSeats

LEMMA RestartCourt == ASSUME CourtInv, ApplyRestart PROVE CourtInv'
<1>1. controls' = NoControls /\ UNCHANGED <<clients, side, sequence, seats, humans, order, heard>>
  BY DEF ApplyRestart, FreshMatch, NoControls
<1>2. ControlsBelongToSeats' /\ controls' \in [Sides -> Control \cup {None}]
  BY <1>1 DEF ControlsBelongToSeats, NoControls
<1> QED
  BY <1>1, <1>2 DEF CourtInv, Court, SidesDistinct

LEMMA InputCourt ==
  ASSUME CourtInv, NEW c \in Members, NEW n \in Nat, side[c] # Spectating, ApplyInput(c, n)
  PROVE  CourtInv'
<1>1. c \in Clients
  BY LenProperties, ElementOfSeq DEF CourtInv, Members, ToSet
<1>2. /\ side \in SideMap /\ sequence \in [Clients -> Nat] /\ heard = sequence
      /\ controls \in [Sides -> Control \cup {None}] /\ seats = SeatsOf(side)
  BY DEF CourtInv, Court
<1>3. side[c] \in Sides /\ seats[side[c]] = c
  BY <1>1, <1>2, SeatsAre DEF CourtInv, Court
<1>4. UNCHANGED <<clients, side, seats, humans, order>> /\ heard' = [heard EXCEPT ![c] = Larger(@, n)]
  BY DEF ApplyInput
<1>5. CASE n > sequence[c]
  <2>1. /\ sequence' = [sequence EXCEPT ![c] = n]
        /\ controls' = [controls EXCEPT ![side[c]] = [from |-> c, sequence |-> n]]
    BY <1>5 DEF ApplyInput
  <2>2. Larger(heard[c], n) = n
    BY <1>1, <1>2, <1>5 DEF Larger
  <2>3. heard' = sequence' /\ sequence' \in [Clients -> Nat] /\ heard'[c] = n
    BY <1>1, <1>2, <1>4, <2>1, <2>2
  <2>4. controls' \in [Sides -> Control \cup {None}]
    BY <1>1, <1>2, <1>3, <2>1 DEF Control
  <2>5. ControlsBelongToSeats'
    <3> SUFFICES ASSUME NEW s \in Sides, controls'[s] # None
                 PROVE  controls'[s].from = seats[s] /\ controls'[s].sequence = heard'[seats[s]]
      BY <1>4 DEF ControlsBelongToSeats
    <3>1. CASE s = side[c]
      <4>1. controls'[s] = [from |-> c, sequence |-> n]
        BY <1>2, <1>3, <2>1, <3>1
      <4> QED
        BY <1>3, <2>3, <3>1, <4>1
    <3>2. CASE s # side[c]
      <4>1. controls'[s] = controls[s] /\ controls[s] \in Control
        BY <1>2, <1>3, <2>1, <3>2
      <4>2. controls[s].from = seats[s] /\ controls[s].sequence = heard[seats[s]]
        BY <4>1 DEF CourtInv, Court, ControlsBelongToSeats
      <4>3. seats[s] \in Clients
        BY <4>1, <4>2 DEF Control
      <4>4. seats[s] # c
        <5>1. side[seats[s]] = s
          BY <1>2, <4>3, PongHubAssumption, SeatsAre DEF CourtInv, Court
        <5> QED
          BY <3>2, <5>1
      <4> QED
        BY <1>2, <1>4, <4>1, <4>2, <4>3, <4>4
    <3> QED
      BY <3>1, <3>2
  <2> QED
    BY <1>4, <2>3, <2>4, <2>5 DEF CourtInv, Court, SidesDistinct
<1>6. CASE ~(n > sequence[c])
  <2>1. UNCHANGED <<sequence, controls>> /\ Larger(heard[c], n) = heard[c]
    BY <1>1, <1>2, <1>6 DEF ApplyInput, Larger
  <2>2. heard' = heard
    BY <1>1, <1>2, <1>4, <2>1
  <2> QED
    BY <1>4, <2>1, <2>2, CourtStays DEF courtVars
<1> QED
  BY <1>5, <1>6

-----------------------------------------------------------------------------
(* The channel of actions *)

LEMMA ActionFields ==
  ASSUME NEW a \in Action
  PROVE  /\ a.id \in Clients /\ a.kind \in {"join", "leave", "input", "restart"}
         /\ a.kind = "input" => a.sequence \in Nat
  BY DEF Action

LEMMA Queued ==
  ASSUME QueueInv
  PROVE  /\ Len(actions) \in Nat /\ DOMAIN actions = 1..Len(actions)
         /\ \A i \in 1..Len(actions) : actions[i] \in Action /\ actions[i].id \in Clients
  BY LenProperties, ElementOfSeq, ActionFields DEF QueueInv

LEMMA Appended ==
  ASSUME QueueInv, NEW a \in Action, actions' = Append(actions, a)
  PROVE  /\ actions' \in Seq(Action) /\ DOMAIN actions' = 1..Len(actions) + 1
         /\ \A i \in 1..Len(actions) : actions'[i] = actions[i]
         /\ actions'[Len(actions) + 1] = a
<1>1. /\ actions' \in Seq(Action) /\ Len(actions') = Len(actions) + 1
      /\ \A i \in 1..Len(actions) : actions'[i] = actions[i]
      /\ actions'[Len(actions) + 1] = a
  BY AppendProperties DEF QueueInv
<1> QED
  BY <1>1, LenProperties

\* A handler goes on with its stream.
LEMMA MoveQueue ==
  ASSUME QueueInv, NEW c \in Clients, NEW place \in StreamPlaces \ {"new", "gone"},
         stream' = [stream EXCEPT ![c] = place], UNCHANGED <<at, done, actions, clients, closed>>
  PROVE  QueueInv'
<1>1. stream' \in [Clients -> StreamPlaces] /\ \A d \in Clients : d # c => stream'[d] = stream[d]
  BY DEF QueueInv
<1>2. stream'[c] = place
  BY DEF QueueInv
<1>3. Members' = Members /\ \A d \in Members : d \in Clients \/ d \notin Clients
  BY DEF Members
<1>4. JoinsAreFresh'
  BY <1>1, <1>2, <1>3, Queued DEF QueueInv, JoinsAreFresh
<1>5. LeavesFollow'
  BY <1>1, <1>2, Queued DEF QueueInv, LeavesFollow
<1>6. MembersAreAlive'
  <2>1. \A d \in Members : stream'[d] = "gone" => stream[d] = "gone"
    BY <1>2 DEF QueueInv
  <2> QED
    BY <1>3, <2>1 DEF QueueInv, MembersAreAlive
<1> QED
  BY <1>1, <1>4, <1>5, <1>6 DEF QueueInv

LEMMA StayQueue ==
  ASSUME QueueInv, UNCHANGED <<at, done, actions, clients, closed, stream>> PROVE QueueInv'
  BY DEF QueueInv, JoinsAreFresh, LeavesFollow, MembersAreAlive, Members

\* A stream's join is the only one it sends.
LEMMA JoinQueue ==
  ASSUME QueueInv, NEW c \in Clients, stream[c] = "new",
         actions' = Append(actions, [kind |-> "join", id |-> c, by |-> c]),
         stream' = [stream EXCEPT ![c] = "joining"], UNCHANGED <<at, done, clients, closed>>
  PROVE  QueueInv'
<1> DEFINE a == [kind |-> "join", id |-> c, by |-> c]
           n == Len(actions)
<1>1. a \in Action /\ a.kind = "join" /\ a.id = c
  BY DEF Action
<1>2. /\ actions' \in Seq(Action) /\ DOMAIN actions' = 1..n + 1
      /\ \A i \in 1..n : actions'[i] = actions[i]
      /\ actions'[n + 1] = a
  BY <1>1, Appended
<1>3. /\ n \in Nat /\ DOMAIN actions = 1..n
      /\ \A i \in 1..n : actions[i].id \in Clients
  BY Queued
<1> HIDE DEF a, n
<1>4. /\ stream' \in [Clients -> StreamPlaces] /\ stream'[c] = "joining"
      /\ \A d \in Clients : d # c => stream'[d] = stream[d]
  BY DEF QueueInv, StreamPlaces
<1>5. Members' = Members
  BY DEF Members
<1>6. \A i \in 1..n : actions[i].kind = "join" => actions[i].id # c
  BY <1>3 DEF QueueInv, JoinsAreFresh
<1>7. JoinsAreFresh'
  <2>1. \A d \in Clients : stream'[d] = "new" => d \notin Members' \cup closed'
    BY <1>4, <1>5 DEF QueueInv, JoinsAreFresh
  <2>2. ASSUME NEW i \in 1..n + 1, actions'[i].kind = "join"
        PROVE  /\ stream'[actions'[i].id] # "new" /\ actions'[i].id \notin Members' \cup closed'
               /\ \A j \in 1..n + 1 :
                    actions'[j].kind = "join" /\ actions'[j].id = actions'[i].id => i = j
    <3>1. CASE i = n + 1
      <4>1. c \notin Members' \cup closed'
        BY <1>5 DEF QueueInv, JoinsAreFresh
      <4>2. \A j \in 1..n + 1 :
              actions'[j].kind = "join" /\ actions'[j].id = c => j = n + 1
        BY <1>2, <1>3, <1>6
      <4> QED
        BY <1>1, <1>2, <1>4, <3>1, <4>1, <4>2
    <3>2. CASE i \in 1..n
      <4>1. /\ actions'[i] = actions[i] /\ actions[i].kind = "join"
            /\ actions[i].id \in Clients /\ actions[i].id # c
        BY <1>2, <1>3, <1>6, <2>2, <3>2
      <4>2. /\ stream[actions[i].id] # "new" /\ actions[i].id \notin Members \cup closed
            /\ \A j \in 1..n :
                 actions[j].kind = "join" /\ actions[j].id = actions[i].id => i = j
        BY <1>3, <3>2, <4>1 DEF QueueInv, JoinsAreFresh
      <4>3. \A j \in 1..n + 1 :
              actions'[j].kind = "join" /\ actions'[j].id = actions[i].id => i = j
        BY <1>1, <1>2, <1>3, <4>1, <4>2
      <4> QED
        BY <1>4, <1>5, <4>1, <4>2, <4>3
    <3> QED
      BY <1>3, <3>1, <3>2
  <2>3. \A i \in DOMAIN actions' : actions'[i].kind = "join" =>
          /\ stream'[actions'[i].id] # "new" /\ actions'[i].id \notin Members' \cup closed'
          /\ \A j \in DOMAIN actions' :
               actions'[j].kind = "join" /\ actions'[j].id = actions'[i].id => i = j
    BY ONLY <1>2, <2>2
  <2> QED
    BY ONLY <2>1, <2>3 DEF JoinsAreFresh
<1>8. LeavesFollow'
  <2> SUFFICES ASSUME NEW i \in 1..n + 1, actions'[i].kind = "join", stream'[actions'[i].id] = "gone"
               PROVE  done \/ \E j \in 1..n + 1 : i < j /\ actions'[j] = LeaveOf(actions'[i].id)
    BY <1>2 DEF LeavesFollow
  <2>1. i \in 1..n /\ actions'[i] = actions[i] /\ stream[actions[i].id] = "gone"
    BY <1>1, <1>2, <1>3, <1>4
  <2>2. done \/ \E j \in 1..n : i < j /\ actions[j] = LeaveOf(actions[i].id)
    BY <1>3, <2>1 DEF QueueInv, LeavesFollow
  <2> QED
    BY <1>2, <1>3, <2>1, <2>2
<1>9. MembersAreAlive'
  <2>1. \A d \in Members : stream'[d] = "gone" => stream[d] = "gone"
    BY <1>4 DEF QueueInv
  <2>2. ASSUME NEW d \in Members, stream'[d] = "gone"
        PROVE  done \/ \E i \in 1..n + 1 : actions'[i] = [kind |-> "leave", id |-> d]
    <3>1. done \/ \E i \in 1..n : actions[i] = [kind |-> "leave", id |-> d]
      BY <1>3, <2>1, <2>2 DEF QueueInv, MembersAreAlive
    <3> QED
      BY <1>2, <1>3, <3>1
  <2> QED
    BY <1>2, <1>5, <2>2 DEF QueueInv, MembersAreAlive
<1> QED
  BY <1>2, <1>4, <1>7, <1>8, <1>9 DEF QueueInv

\* Other actions come behind the joins and change nothing for them; that of a
\* handler which is gone then is a leave.
LEMMA OtherQueue ==
  ASSUME QueueInv, NEW a \in Action, a.kind # "join", actions' = Append(actions, a),
         stream' \in [Clients -> StreamPlaces],
         \A c \in Clients : stream'[c] = "new" <=> stream[c] = "new",
         \A c \in Clients : stream'[c] = "gone" => stream[c] = "gone" \/ a = LeaveOf(c),
         UNCHANGED <<at, done, clients, closed>>,
         Members \subseteq Clients
  PROVE  QueueInv'
<1> DEFINE n == Len(actions)
<1>1. /\ actions' \in Seq(Action) /\ DOMAIN actions' = 1..n + 1
      /\ \A i \in 1..n : actions'[i] = actions[i]
      /\ actions'[n + 1] = a
  BY Appended
<1>2. /\ n \in Nat /\ DOMAIN actions = 1..n
      /\ \A i \in 1..n : actions[i].id \in Clients
  BY Queued
<1> HIDE DEF n
<1>3. Members' = Members
  BY DEF Members
<1>4. \A i \in 1..n + 1 : actions'[i].kind = "join" => i \in 1..n /\ actions'[i] = actions[i]
  BY <1>1, <1>2
<1>5. JoinsAreFresh'
  <2>1. \A c \in Clients : stream'[c] = "new" => c \notin Members' \cup closed'
    BY <1>3 DEF QueueInv, JoinsAreFresh
  <2>2. ASSUME NEW i \in 1..n + 1, actions'[i].kind = "join"
        PROVE  /\ stream'[actions'[i].id] # "new" /\ actions'[i].id \notin Members' \cup closed'
               /\ \A j \in 1..n + 1 :
                    actions'[j].kind = "join" /\ actions'[j].id = actions'[i].id => i = j
    <3>1. i \in 1..n /\ actions'[i] = actions[i] /\ actions[i].id \in Clients
      BY <1>2, <1>4, <2>2
    <3>2. /\ stream[actions[i].id] # "new" /\ actions[i].id \notin Members \cup closed
          /\ \A j \in 1..n :
               actions[j].kind = "join" /\ actions[j].id = actions[i].id => i = j
      BY <1>2, <2>2, <3>1 DEF QueueInv, JoinsAreFresh
    <3>3. \A j \in 1..n + 1 :
            actions'[j].kind = "join" /\ actions'[j].id = actions[i].id => i = j
      BY <1>4, <3>2
    <3> QED
      BY <1>3, <3>1, <3>2, <3>3
  <2>3. \A i \in DOMAIN actions' : actions'[i].kind = "join" =>
          /\ stream'[actions'[i].id] # "new" /\ actions'[i].id \notin Members' \cup closed'
          /\ \A j \in DOMAIN actions' :
               actions'[j].kind = "join" /\ actions'[j].id = actions'[i].id => i = j
    BY ONLY <1>1, <2>2
  <2> QED
    BY ONLY <2>1, <2>3 DEF JoinsAreFresh
<1>6. LeavesFollow'
  <2> SUFFICES ASSUME NEW i \in 1..n + 1, actions'[i].kind = "join", stream'[actions'[i].id] = "gone"
               PROVE  done \/ \E j \in 1..n + 1 : i < j /\ actions'[j] = LeaveOf(actions'[i].id)
    BY <1>1 DEF LeavesFollow
  <2>1. i \in 1..n /\ actions'[i] = actions[i] /\ actions[i].id \in Clients
    BY <1>2, <1>4
  <2>2. CASE a = LeaveOf(actions[i].id)
    BY <1>1, <1>2, <2>1, <2>2
  <2>3. CASE stream[actions[i].id] = "gone"
    <3>1. done \/ \E j \in 1..n : i < j /\ actions[j] = LeaveOf(actions[i].id)
      BY <1>2, <2>1, <2>3 DEF QueueInv, LeavesFollow
    <3> QED
      BY <1>1, <1>2, <2>1, <3>1
  <2> QED
    BY <2>1, <2>2, <2>3
<1>7. MembersAreAlive'
  <2>1. ASSUME NEW c \in Members, stream'[c] = "gone"
        PROVE  done \/ \E i \in 1..n + 1 : actions'[i] = [kind |-> "leave", id |-> c]
    <3>1. CASE a = LeaveOf(c)
      BY <1>1, <1>2, <3>1 DEF LeaveOf
    <3>2. CASE stream[c] = "gone"
      <4>1. done \/ \E i \in 1..n : actions[i] = [kind |-> "leave", id |-> c]
        BY <1>2, <3>2 DEF QueueInv, MembersAreAlive
      <4> QED
        BY <1>1, <1>2, <4>1
    <3> QED
      BY <2>1, <3>1, <3>2
  <2> QED
    BY <1>1, <1>3, <2>1 DEF QueueInv, MembersAreAlive
<1> QED
  BY <1>1, <1>5, <1>6, <1>7 DEF QueueInv

-----------------------------------------------------------------------------
(* The hub applies an action *)

LEMMA ApplyCourt ==
  ASSUME CourtInv, NEW a \in Action, a.kind = "join" => a.id \notin Members, Apply(a)
  PROVE  CourtInv'
<1>1. a.id \in Clients /\ (a.kind = "input" => a.sequence \in Nat)
  BY ActionFields
<1>2. CASE UNCHANGED <<courtVars, outVars>>
  BY <1>2, CourtStays
<1>3. CASE a.kind = "join" /\ ApplyJoin(a.id)
  BY <1>1, <1>3, JoinCourt
<1>4. CASE a.id \in Members /\ ApplyLeave(a.id)
  BY <1>4, LeaveCourt
<1>5. CASE ApplyRestart
  BY <1>5, RestartCourt
<1>6. CASE /\ a.kind = "input" /\ a.id \in Members /\ side[a.id] # Spectating
           /\ ApplyInput(a.id, a.sequence)
  BY <1>1, <1>6, InputCourt
<1> QED
  BY <1>2, <1>3, <1>4, <1>5, <1>6, ActionFields DEF Apply

\* What an action does to the members and to the channels that are closed.
LEMMA ApplyMembers ==
  ASSUME CourtInv, NEW a \in Action, a.kind = "join" => a.id \notin Members, Apply(a)
  PROVE  \/ Members' = Members /\ closed' = closed /\ (a.kind = "leave" => a.id \notin Members)
         \/ a.kind = "join" /\ Members' = Members \cup {a.id} /\ closed' = closed
         \/ /\ a.kind = "leave" /\ a.id \in Members
            /\ Members' = Members \ {a.id} /\ closed' = closed \cup {a.id}
<1>1. a.id \in Clients /\ clients \in Seq(Clients) /\ IsInjective(clients)
  BY ActionFields DEF CourtInv, Court
<1>2. CASE a.kind = "join"
  <2>1. CASE Len(clients) >= MaxClients
    BY <1>2, <2>1 DEF Apply, ApplyJoin, courtVars, outVars, Members
  <2>2. CASE ~(Len(clients) >= MaxClients)
    <3>1. clients' = Append(clients, a.id) /\ closed' = closed
      BY <1>2, <2>2 DEF Apply, ApplyJoin, MembersBecome
    <3>2. ToSet(clients') = ToSet(clients) \cup {a.id}
      BY <1>1, <1>2, <3>1, AppendMembers DEF Members
    <3> QED
      BY <1>2, <3>1, <3>2 DEF Members
  <2> QED
    BY <2>1, <2>2
<1>3. CASE a.kind = "leave"
  <2>1. CASE a.id \notin Members
    BY <1>3, <2>1 DEF Apply, courtVars, outVars, Members
  <2>2. CASE a.id \in Members
    <3>1. clients' = Without(clients, a.id) /\ closed' = closed \cup {a.id}
      BY <1>3, <2>2 DEF Apply, ApplyLeave, MembersBecome, WithoutClient
    <3>2. ToSet(clients') = ToSet(clients) \ {a.id}
      BY <1>1, <2>2, <3>1, WithoutMembers DEF Members
    <3> QED
      BY <1>3, <2>2, <3>1, <3>2 DEF Members
  <2> QED
    BY <2>1, <2>2
<1>4. CASE a.kind # "join" /\ a.kind # "leave"
  <2>1. UNCHANGED <<clients, closed>>
    BY <1>4 DEF Apply, ApplyRestart, ApplyInput, courtVars, outVars
  <2> QED
    BY <1>4, <2>1 DEF Members
<1> QED
  BY <1>2, <1>3, <1>4

\* Whoever is a member now was a member before or has its leave queued, if its
\* handler is gone.
LEMMA AppliedQueue ==
  ASSUME CourtInv, QueueInv, ApplyNext PROVE QueueInv'
<1> DEFINE n == Len(actions)
           a == Head(actions)
<1>1. /\ n \in Nat /\ DOMAIN actions = 1..n
      /\ \A i \in 1..n : actions[i].id \in Clients
  BY Queued
<1>2. /\ actions' \in Seq(Action) /\ DOMAIN actions' = 1..n - 1 /\ n > 0
      /\ \A i \in 1..n - 1 : actions'[i] = actions[i + 1]
      /\ a = actions[1] /\ a \in Action /\ a.id \in Clients
  <2>1. actions # <<>> /\ actions' = Tail(actions) /\ actions \in Seq(Action)
    BY DEF ApplyNext, QueueInv
  <2>2. /\ actions' \in Seq(Action) /\ Len(actions') = n - 1
        /\ \A i \in 1..Len(actions') : actions'[i] = actions[i + 1] /\ a \in Action
    BY <2>1, HeadTailProperties
  <2>3. DOMAIN actions' = 1..Len(actions')
    BY <2>2, LenProperties
  <2>4. a = actions[1] /\ a \in Action /\ n > 0
    BY <2>1, HeadTailProperties, EmptySeq
  <2> QED
    BY <2>2, <2>3, <2>4, ActionFields
<1>3. /\ at = "inputs" /\ at' = at /\ done' = done /\ stream' = stream
      /\ at' \in HubPlaces /\ done' \in BOOLEAN /\ (done' <=> at' \in {"closing", "stopped"})
      /\ ~done /\ stream \in [Clients -> StreamPlaces]
  BY DEF ApplyNext, QueueInv
<1>4. a.kind = "join" => a.id \notin Members \cup closed
  BY <1>1, <1>2 DEF QueueInv, JoinsAreFresh
<1>5. Members \subseteq Clients /\ closed \subseteq Clients
  BY LenProperties, ElementOfSeq DEF CourtInv, Members, ToSet, QueueInv
<1>6. \/ Members' = Members /\ closed' = closed /\ (a.kind = "leave" => a.id \notin Members)
      \/ a.kind = "join" /\ Members' = Members \cup {a.id} /\ closed' = closed
      \/ /\ a.kind = "leave" /\ a.id \in Members
         /\ Members' = Members \ {a.id} /\ closed' = closed \cup {a.id}
  BY <1>2, <1>4, ApplyMembers DEF ApplyNext
<1>7. /\ Members' \cup closed' \subseteq Members \cup closed \cup {a.id}
      /\ a.id \notin Members \cup closed => a.kind = "join" \/ Members' \cup closed' = Members \cup closed
  BY <1>6
<1> HIDE DEF a, n
<1>8. JoinsAreFresh'
  <2>1. ASSUME NEW c \in Clients, stream'[c] = "new" PROVE c \notin Members' \cup closed'
    <3>1. c \notin Members \cup closed
      BY <1>3, <2>1 DEF QueueInv, JoinsAreFresh
    <3>2. CASE c = a.id
      <4>1. a.kind # "join"
        BY <1>1, <1>2, <1>3, <2>1, <3>2 DEF QueueInv, JoinsAreFresh
      <4> QED
        BY <1>7, <3>1, <3>2, <4>1
    <3> QED
      BY <1>7, <3>1, <3>2
  <2>2. ASSUME NEW i \in 1..n - 1, actions'[i].kind = "join"
        PROVE  /\ stream'[actions'[i].id] # "new" /\ actions'[i].id \notin Members' \cup closed'
               /\ \A j \in 1..n - 1 :
                    actions'[j].kind = "join" /\ actions'[j].id = actions'[i].id => i = j
    <3>1. /\ actions'[i] = actions[i + 1] /\ i + 1 \in 1..n /\ i + 1 # 1
          /\ actions[i + 1].kind = "join"
      BY <1>1, <1>2, <2>2
    <3>2. /\ stream[actions[i + 1].id] # "new" /\ actions[i + 1].id \notin Members \cup closed
          /\ \A j \in 1..n :
               actions[j].kind = "join" /\ actions[j].id = actions[i + 1].id => i + 1 = j
      BY <1>1, <3>1 DEF QueueInv, JoinsAreFresh
    <3>3. actions[i + 1].id = a.id => a.kind # "join"
      BY <1>1, <1>2, <3>1, <3>2
    <3>4. actions[i + 1].id \notin Members' \cup closed'
      BY <1>7, <3>2, <3>3
    <3>5. \A j \in 1..n - 1 :
            actions'[j].kind = "join" /\ actions'[j].id = actions[i + 1].id => i = j
      BY <1>1, <1>2, <3>2
    <3> QED
      BY <1>3, <3>1, <3>2, <3>4, <3>5
  <2>3. \A i \in DOMAIN actions' : actions'[i].kind = "join" =>
          /\ stream'[actions'[i].id] # "new" /\ actions'[i].id \notin Members' \cup closed'
          /\ \A j \in DOMAIN actions' :
               actions'[j].kind = "join" /\ actions'[j].id = actions'[i].id => i = j
    BY ONLY <1>2, <2>2
  <2> QED
    BY ONLY <2>1, <2>3 DEF JoinsAreFresh
<1>9. LeavesFollow'
  <2> SUFFICES ASSUME NEW i \in 1..n - 1, actions'[i].kind = "join", stream'[actions'[i].id] = "gone"
               PROVE  \E j \in 1..n - 1 : i < j /\ actions'[j] = LeaveOf(actions'[i].id)
    BY <1>2 DEF LeavesFollow
  <2>1. actions'[i] = actions[i + 1] /\ i + 1 \in 1..n
    BY <1>1, <1>2
  <2>2. PICK j \in 1..n : i + 1 < j /\ actions[j] = LeaveOf(actions[i + 1].id)
    BY <1>1, <1>3, <2>1 DEF QueueInv, LeavesFollow
  <2>3. j - 1 \in 1..n - 1 /\ i < j - 1 /\ actions'[j - 1] = actions[j]
    <3>1. j - 1 \in 1..n - 1 /\ i < j - 1 /\ (j - 1) + 1 = j
      BY <1>1, <2>2
    <3> QED
      BY <1>2, <3>1
  <2> QED
    BY <2>1, <2>2, <2>3
<1>10. MembersAreAlive'
  <2>1. Members' \cap closed' = {}
    <3>1. Members \cap closed = {}
      BY <1>3 DEF QueueInv, MembersAreAlive
    <3> QED
      BY <1>4, <1>6, <3>1
  <2>2. ASSUME NEW c \in Members', stream'[c] = "gone"
        PROVE  \E i \in 1..n - 1 : actions'[i] = LeaveOf(c)
    <3>1. PICK j \in 1..n : actions[j] = LeaveOf(c) /\ j # 1
      <4>1. CASE c \in Members
        <5>1. PICK j \in 1..n : actions[j] = LeaveOf(c)
          BY <1>1, <1>3, <2>2, <4>1 DEF QueueInv, MembersAreAlive, LeaveOf
        <5>2. CASE j = 1
          <6>1. a.kind = "leave" /\ a.id = c
            BY <1>2, <5>1, <5>2 DEF LeaveOf
          <6> QED
            BY <1>6, <2>2, <4>1, <6>1
        <5> QED
          BY <5>1, <5>2
      <4>2. CASE c \notin Members
        <5>1. a.kind = "join" /\ c = a.id
          BY <1>6, <2>2, <4>2
        <5>2. 1 \in 1..n /\ actions[1].kind = "join" /\ stream[actions[1].id] = "gone"
          BY <1>1, <1>2, <1>3, <2>2, <5>1
        <5>3. PICK j \in 1..n : 1 < j /\ actions[j] = LeaveOf(actions[1].id)
          BY <1>1, <1>3, <5>2 DEF QueueInv, LeavesFollow
        <5> QED
          BY <1>2, <5>1, <5>3
      <4> QED
        BY <4>1, <4>2
    <3>2. j - 1 \in 1..n - 1 /\ (j - 1) + 1 = j
      BY <1>1, <3>1
    <3>3. actions'[j - 1] = actions[j]
      BY <1>2, <3>2
    <3> QED
      BY <3>1, <3>2, <3>3
  <2> QED
    BY <1>2, <2>1, <2>2 DEF MembersAreAlive, LeaveOf
<1>11. closed' \subseteq Clients
  BY <1>2, <1>5, <1>6
<1> QED
  BY <1>2, <1>3, <1>8, <1>9, <1>10, <1>11 DEF QueueInv

-----------------------------------------------------------------------------
(* What a browser is told *)

\* BrowsersKnowTheirSeat, as an action.
Told == \A c \in ToSet(clients') :
  \/ slot'[c] = side'[c]
  \/ /\ slot'[c] = None /\ UNCHANGED <<clients, side>>
     /\ slot[c] = None \/ Receive(c)

LEMMA OfferTold ==
  ASSUME side' \in SideMap, ToSet(clients') \subseteq Clients, slot' = Offered(clients', side')
  PROVE  Told /\ slot' \in [Clients -> Sides \cup {Spectating, None}]
<1>1. \A c \in Clients : slot'[c] = IF c \in ToSet(clients') THEN side'[c] ELSE None
  BY DEF Offered
<1>2. slot' \in [Clients -> Sides \cup {Spectating, None}]
  BY DEF Offered, SideMap
<1> QED
  BY <1>1, <1>2 DEF Told

LEMMA KeptTold ==
  ASSUME SlotInv, UNCHANGED <<clients, side>>, ToSet(clients) \subseteq Clients,
         slot' = slot \/ \E c \in Clients : Receive(c)
  PROVE  Told /\ slot' \in [Clients -> Sides \cup {Spectating, None}]
<1>1. slot' \in [Clients -> Sides \cup {Spectating, None}]
  BY DEF SlotInv, Receive
<1>2. \A c \in ToSet(clients) :
        (slot'[c] = slot[c] \/ (slot'[c] = None /\ Receive(c))) /\ slot[c] \in {side[c], None}
  BY DEF SlotInv, Members, Receive
<1> QED
  BY <1>1, <1>2 DEF Told, Members

LEMMA ToldSlot ==
  ASSUME Told, slot' \in [Clients -> Sides \cup {Spectating, None}] PROVE SlotInv'
  BY DEF Told, SlotInv, Members

LEMMA ApplyTold ==
  ASSUME CourtInv, CourtInv', SlotInv, NEW a, Apply(a)
  PROVE  Told /\ slot' \in [Clients -> Sides \cup {Spectating, None}]
<1>1. ToSet(clients) \subseteq Clients /\ ToSet(clients') \subseteq Clients /\ side' \in SideMap
  BY LenProperties, ElementOfSeq DEF CourtInv, ToSet
<1>2. CASE UNCHANGED <<clients, side, slot>>
  BY <1>1, <1>2, KeptTold
<1>3. CASE slot' = Offered(clients', side')
  BY <1>1, <1>3, OfferTold
<1>4. slot' = Offered(clients', side') \/ UNCHANGED <<clients, side, slot>>
  BY DEF Apply, ApplyJoin, ApplyLeave, MembersBecome, ApplyRestart, ApplyInput, courtVars, outVars
<1> QED
  BY <1>2, <1>3, <1>4

-----------------------------------------------------------------------------
(* The invariant *)

LEMMA MembersTyped == CourtInv => Members \subseteq Clients
  BY LenProperties, ElementOfSeq DEF CourtInv, Members, ToSet

LEMMA PongInit == Init => IInv
<1> SUFFICES ASSUME Init PROVE IInv
  OBVIOUS
<1>1. /\ clients = <<>> /\ clients \in Seq(Clients) /\ DOMAIN clients = {} /\ Len(clients) = 0
      /\ Members = {}
  BY LenProperties DEF Init, Members, ToSet
<1>2. SeatsOf(side) = [s \in Sides |-> None]
  BY DEF Init, SeatsOf, Sides, Spectating
<1>3. Occupied(seats) = {}
  BY DEF Init, Occupied
<1>4. SidesDistinct(clients, side)
  BY DEF Init, SidesDistinct
<1>5. CourtInv
  <2>1. ControlsBelongToSeats
    BY DEF Init, ControlsBelongToSeats
  <2>2. Len(clients) <= MaxClients /\ IsInjective(clients)
    BY <1>1, PongHubAssumption DEF IsInjective
  <2>3. side \in SideMap
    BY DEF Init, SideMap
  <2> QED
    BY <1>1, <1>2, <1>3, <1>4, <2>1, <2>2, <2>3 DEF Init, CourtInv, Court
<1>6. QueueInv
  <2>1. actions \in Seq(Action) /\ DOMAIN actions = {}
    BY LenProperties DEF Init
  <2> QED
    BY <1>1, <2>1 DEF Init, QueueInv, HubPlaces, StreamPlaces, JoinsAreFresh, LeavesFollow,
                      MembersAreAlive
<1>7. SlotInv
  BY <1>1 DEF Init, SlotInv
<1> QED
  BY <1>5, <1>6, <1>7 DEF IInv

\* Handlers leave the court, and what is told to others, alone.
LEMMA HandlerTold ==
  ASSUME IInv, QueueInv', UNCHANGED courtVars,
         slot' = slot \/ \E c \in Clients : Receive(c)
  PROVE  IInv' /\ Told
<1>1. UNCHANGED <<clients, side>> /\ CourtInv' /\ ToSet(clients) \subseteq Clients
  BY CourtStays, MembersTyped DEF IInv, courtVars, Members
<1>2. Told /\ slot' \in [Clients -> Sides \cup {Spectating, None}]
  BY <1>1, KeptTold DEF IInv
<1> QED
  BY <1>1, <1>2, ToldSlot DEF IInv

LEMMA PostQueue ==
  ASSUME QueueInv, CourtInv, NEW p \in Posts, NEW a \in Action, a.kind \in {"input", "restart"},
         Submit(p, a)
  PROVE  QueueInv'
<1>1. Members \subseteq Clients
  BY MembersTyped
<1>2. /\ actions' = Append(actions, a) /\ stream' = stream
      /\ UNCHANGED <<at, done, clients, closed>>
  BY DEF Submit, hubVars, courtVars, outVars
<1>3. a.kind # "join" /\ stream' \in [Clients -> StreamPlaces]
  BY <1>2 DEF QueueInv
<1> QED
  BY <1>1, <1>2, <1>3, OtherQueue

LEMMA ArrivalsInv ==
  ASSUME IInv, Arrivals PROVE IInv' /\ Told
<1>1. ASSUME NEW c \in Clients, Join(c) PROVE IInv' /\ Told
  <2>1. /\ stream[c] = "new" /\ UNCHANGED courtVars /\ slot' = slot
        /\ UNCHANGED <<at, done, clients, closed>>
    BY <1>1 DEF Join, hubVars, courtVars, outVars
  <2>2. QueueInv'
    <3>1. CASE /\ actions' = Append(actions, [kind |-> "join", id |-> c, by |-> c])
               /\ stream' = [stream EXCEPT ![c] = "joining"]
      BY <2>1, <3>1, JoinQueue DEF IInv
    <3>2. CASE stream' = [stream EXCEPT ![c] = "leaving"] /\ UNCHANGED actions
      BY <2>1, <3>2, MoveQueue DEF IInv, StreamPlaces
    <3> QED
      BY <1>1, <3>1, <3>2 DEF Join
  <2> QED
    BY <2>1, <2>2, HandlerTold
<1>2. ASSUME NEW p \in Posts, Input(p) \/ Restart(p) PROVE IInv' /\ Told
  <2>1. PICK a \in Action : a.kind \in {"input", "restart"} /\ Submit(p, a)
    <3>1. CASE Input(p)
      <4>1. PICK c \in Named, n \in 1..MaxSequence :
              Submit(p, [kind |-> "input", id |-> c, by |-> p, sequence |-> n])
        BY <3>1 DEF Input
      <4>2. [kind |-> "input", id |-> c, by |-> p, sequence |-> n] \in Action
        BY DEF Action, Named
      <4> QED
        BY <4>1, <4>2
    <3>2. CASE Restart(p)
      <4>1. PICK c \in Named : Submit(p, [kind |-> "restart", id |-> c, by |-> p])
        BY <3>2 DEF Restart
      <4>2. [kind |-> "restart", id |-> c, by |-> p] \in Action
        BY DEF Action, Named
      <4> QED
        BY <4>1, <4>2
    <3> QED
      BY <1>2, <3>1, <3>2
  <2>2. QueueInv'
    BY <2>1, PostQueue DEF IInv
  <2>3. UNCHANGED courtVars /\ slot' = slot
    BY <2>1 DEF Submit, outVars
  <2> QED
    BY <2>2, <2>3, HandlerTold
<1> QED
  BY <1>1, <1>2 DEF Arrivals

LEMMA LeaveInv ==
  ASSUME IInv, NEW c \in Clients, Leave(c) PROVE IInv' /\ Told
<1>1. /\ stream[c] = "leaving" /\ stream' = [stream EXCEPT ![c] = "gone"]
      /\ UNCHANGED courtVars /\ slot' = slot
      /\ UNCHANGED <<at, done, clients, closed>>
  BY DEF Leave, hubVars, courtVars, outVars
<1>2. /\ stream' \in [Clients -> StreamPlaces] /\ stream'[c] = "gone"
      /\ \A d \in Clients : d # c => stream'[d] = stream[d]
  BY <1>1 DEF IInv, QueueInv, StreamPlaces
<1>3. QueueInv'
  <2>1. CASE actions' = Append(actions, [kind |-> "leave", id |-> c])
    <3>1. /\ LeaveOf(c) \in Action /\ LeaveOf(c).kind # "join"
          /\ actions' = Append(actions, LeaveOf(c))
      BY <2>1 DEF LeaveOf, Action
    <3>2. Members \subseteq Clients /\ QueueInv
      BY MembersTyped DEF IInv
    <3>3. \A d \in Clients : stream'[d] = "gone" => stream[d] = "gone" \/ LeaveOf(c) = LeaveOf(d)
      BY <1>2
    <3>4. \A d \in Clients : stream'[d] = "new" <=> stream[d] = "new"
      BY <1>1, <1>2
    <3> QED
      BY <1>1, <1>2, <3>1, <3>2, <3>3, <3>4, OtherQueue
  <2>2. CASE done /\ UNCHANGED actions
    <3>1. Members' = Members /\ done'
      BY <1>1, <2>2 DEF Members
    <3>2. \A d \in Clients : stream'[d] = "new" <=> stream[d] = "new"
      BY <1>1, <1>2
    <3>3. JoinsAreFresh'
      BY <1>1, <2>2, <3>1, <3>2, Queued DEF IInv, QueueInv, JoinsAreFresh
    <3>4. LeavesFollow' /\ MembersAreAlive'
      BY <1>1, <3>1 DEF IInv, QueueInv, LeavesFollow, MembersAreAlive
    <3> QED
      BY <1>1, <1>2, <2>2, <3>3, <3>4 DEF IInv, QueueInv
  <2> QED
    BY <2>1, <2>2 DEF Leave
<1> QED
  BY <1>1, <1>3, HandlerTold

LEMMA HandlerInv ==
  ASSUME IInv, HandlerStep PROVE IInv' /\ Told
<1>1. ASSUME NEW c \in Clients, Joined(c) \/ JoinForsaken(c) \/ Receive(c) \/ Disconnect(c)
      PROVE  IInv' /\ Told
  <2>1. /\ UNCHANGED courtVars /\ UNCHANGED <<at, done, actions, clients, closed>>
        /\ slot' = slot \/ Receive(c)
    BY <1>1 DEF Joined, JoinForsaken, Receive, Disconnect, hubVars, courtVars, outVars
  <2>2. QueueInv'
    <3>1. CASE UNCHANGED stream
      BY <2>1, <3>1, StayQueue DEF IInv
    <3>2. CASE stream' = [stream EXCEPT ![c] = "streaming"]
      BY <2>1, <3>2, MoveQueue DEF IInv, StreamPlaces
    <3>3. CASE stream' = [stream EXCEPT ![c] = "leaving"]
      BY <2>1, <3>3, MoveQueue DEF IInv, StreamPlaces
    <3> QED
      BY <1>1, <3>1, <3>2, <3>3 DEF Joined, JoinForsaken, Receive, Disconnect
  <2> QED
    BY <2>1, <2>2, HandlerTold
<1>2. ASSUME NEW p \in Posts, Answered(p) \/ GiveUp(p) PROVE IInv' /\ Told
  <2>1. /\ UNCHANGED courtVars /\ slot' = slot
        /\ UNCHANGED <<at, done, actions, clients, closed, stream>>
    BY <1>2 DEF Answered, GiveUp, hubVars, courtVars, outVars
  <2> QED
    BY <2>1, StayQueue, HandlerTold DEF IInv
<1> QED
  BY <1>1, <1>2, LeaveInv DEF HandlerStep

LEMMA ApplyNextInv ==
  ASSUME IInv, ApplyNext PROVE IInv' /\ Told
<1> DEFINE a == Head(actions)
<1>1. CourtInv /\ QueueInv /\ SlotInv
  BY DEF IInv
<1>2. a \in Action /\ a = actions[1] /\ 1 \in 1..Len(actions) /\ Apply(a)
  <2>1. actions \in Seq(Action) /\ actions # <<>> /\ Apply(a)
    BY <1>1 DEF QueueInv, ApplyNext
  <2> QED
    BY <2>1, HeadTailProperties, EmptySeq
<1> HIDE DEF a
<1>3. a.kind = "join" => a.id \notin Members
  BY <1>1, <1>2, Queued DEF QueueInv, JoinsAreFresh
<1>4. CourtInv'
  BY <1>1, <1>2, <1>3, ApplyCourt
<1>5. QueueInv'
  BY <1>1, AppliedQueue
<1>6. Told /\ slot' \in [Clients -> Sides \cup {Spectating, None}]
  BY <1>1, <1>2, <1>4, ApplyTold
<1> QED
  BY <1>4, <1>5, <1>6, ToldSlot DEF IInv

LEMMA HubInv ==
  ASSUME IInv, HubStep \/ Stop PROVE IInv' /\ Told
<1>1. CASE TickStart \/ Stop \/ CloseClients
  <2>1. UNCHANGED <<courtVars, actions, stream, slot>> /\ UNCHANGED <<clients>> /\ Members' = Members
    BY <1>1 DEF TickStart, Stop, CloseClients, courtVars, outVars, handlerVars, Members
  <2>2. QueueInv'
    <3>1. CASE TickStart
      BY <2>1, <3>1 DEF TickStart, IInv, QueueInv, HubPlaces, JoinsAreFresh, LeavesFollow,
                        MembersAreAlive, outVars, Members
    <3>2. CASE Stop
      BY <2>1, <3>2 DEF Stop, IInv, QueueInv, HubPlaces, JoinsAreFresh, LeavesFollow,
                        MembersAreAlive, outVars, Members
    <3>3. CASE CloseClients
      <4>1. at' = "stopped" /\ done' = done /\ done /\ closed' = closed \cup Members
        BY <3>3 DEF CloseClients, IInv, QueueInv
      <4>2. Members' \cup closed' = Members \cup closed
        BY <2>1, <4>1
      <4>3. JoinsAreFresh'
        BY <2>1, <4>2 DEF IInv, QueueInv, JoinsAreFresh
      <4>4. LeavesFollow' /\ MembersAreAlive'
        BY <4>1 DEF LeavesFollow, MembersAreAlive
      <4>5. closed' \subseteq Clients
        BY <4>1, MembersTyped DEF IInv, QueueInv
      <4> QED
        BY <2>1, <4>1, <4>3, <4>4, <4>5 DEF IInv, QueueInv, HubPlaces
    <3> QED
      BY <1>1, <3>1, <3>2, <3>3
  <2> QED
    BY <2>1, <2>2, HandlerTold
<1>2. CASE InputsEnd
  <2>1. /\ UNCHANGED <<courtVars, actions, stream, closed, done>> /\ UNCHANGED <<clients, side>>
        /\ at = "inputs" /\ at' = "idle" /\ Members' = Members
    BY <1>2 DEF InputsEnd, courtVars, handlerVars, Members
  <2>2. QueueInv'
    BY <2>1 DEF IInv, QueueInv, HubPlaces, JoinsAreFresh, LeavesFollow, MembersAreAlive
  <2>3. CASE slot' = slot
    BY <2>1, <2>2, <2>3, HandlerTold
  <2>4. CASE slot' = Offered(clients, side)
    <3>1. side' \in SideMap /\ ToSet(clients') \subseteq Clients
      BY <2>1, MembersTyped DEF IInv, CourtInv, Members
    <3>2. Told /\ slot' \in [Clients -> Sides \cup {Spectating, None}]
      BY <2>1, <2>4, <3>1, OfferTold
    <3> QED
      BY <2>1, <2>2, <3>2, ToldSlot, CourtStays DEF IInv
  <2> QED
    BY <1>2, <2>3, <2>4 DEF InputsEnd
<1> QED
  BY <1>1, <1>2, ApplyNextInv DEF HubStep

LEMMA PongNext ==
  ASSUME IInv, [Next]_vars PROVE IInv' /\ Told
<1>1. CASE UNCHANGED vars
  <2>1. /\ UNCHANGED courtVars /\ slot' = slot
        /\ UNCHANGED <<at, done, actions, clients, closed, stream>>
    BY <1>1 DEF vars, hubVars, courtVars, outVars, handlerVars
  <2> QED
    BY <2>1, StayQueue, HandlerTold DEF IInv
<1> QED
  BY <1>1, ArrivalsInv, HandlerInv, HubInv DEF Next

-----------------------------------------------------------------------------
(* Theorems about the hub *)

\* The inductive invariant holds always.
THEOREM HubInvariant == Spec => []IInv
<1>1. IInv /\ [Next]_vars => IInv'
  BY PongNext
<1> QED
  BY <1>1, PongInit, PTL DEF Spec

\* However browsers join, leave and are forsaken while their join is queued,
\* the first two of the members are seated, each on a side of their own
\* (assignSeats).
THEOREM HubSeats == Spec => []SeatsFollowJoinOrder
<1>1. IInv => SeatsFollowJoinOrder
  <2> SUFFICES ASSUME IInv PROVE SeatsFollowJoinOrder
    OBVIOUS
  <2>1. /\ clients = order /\ side \in SideMap /\ SidesDistinct(clients, side)
        /\ seats = SeatsOf(side) /\ humans = Occupied(seats)
        /\ Len(clients) <= MaxClients
        /\ \A i \in DOMAIN clients : side[clients[i]] # Spectating <=> i <= 2
    BY DEF IInv, CourtInv, Court
  <2>2. Members \subseteq Clients /\ Members = ToSet(clients)
    BY MembersTyped DEF IInv, Members
  <2>3. /\ \A c \in Clients : side[c] # Spectating => seats[side[c]] = c
        /\ \A s \in Sides : seats[s] # None => seats[s] \in Members /\ side[seats[s]] = s
    BY <2>1, <2>2, SeatsAre
  <2>4. \A s \in Sides : seats[s] # None <=> s \in humans
    BY <2>1 DEF Occupied
  <2>5. humans \subseteq Sides
    BY <2>1 DEF Occupied
  <2> QED
    BY <2>1, <2>2, <2>3, <2>4, <2>5 DEF SeatsFollowJoinOrder
<1> QED
  BY <1>1, HubInvariant, PTL

\* No ghost stays in a seat and nothing is sent on a closed channel (leave,
\* events, run's deferred function).
THEOREM HubMembers == Spec => []MembersAreAlive
<1>1. IInv => MembersAreAlive
  BY DEF IInv, QueueInv
<1> QED
  BY <1>1, HubInvariant, PTL

\* A paddle obeys whoever sits there, and the newest input taken from them
\* (apply, assignSeats).
THEOREM HubControls == Spec => []ControlsBelongToSeats
<1>1. IInv => ControlsBelongToSeats
  BY DEF IInv, CourtInv, Court
<1> QED
  BY <1>1, HubInvariant, PTL

\* Every member's channel holds the seat the member has, or the browser itself
\* has taken the snapshot that told it; after a change of members or seats every
\* channel holds one (broadcast).
THEOREM HubBroadcast == Spec => BrowsersKnowTheirSeat
<1>1. IInv /\ [Next]_vars =>
        [\A c \in ToSet(clients') :
           \/ slot'[c] = side'[c]
           \/ /\ slot'[c] = None /\ UNCHANGED <<clients, side>>
              /\ slot[c] = None \/ Receive(c)]_vars
  BY PongNext DEF Told
<1> QED
  BY <1>1, HubInvariant, PTL DEF Spec, BrowsersKnowTheirSeat

-----------------------------------------------------------------------------
(* serve *)

\* What serve holds so far says which of its three events it saw first: the
\* interrupt, the end of the game or that of the HTTP server.
Shutting ==
  /\ http # "serving"
  /\ \/ taken = {} /\ interrupted /\ result \in {None, "timeout"}
     \/ /\ taken = {"game"} /\ at = "stopped" /\ result = runError
        /\ runError = "canceled" => interrupted
     \/ taken = {"http"} /\ result = "failed"

ServeInv ==
  /\ main \in MainPlaces /\ http \in HttpPlaces
  /\ runError \in {None, "canceled", "failed"}
  /\ runError # None <=> at \in {"closing", "stopped"}
  /\ main = "select" => result = None /\ taken = {} /\ (runError = "canceled" => interrupted)
  /\ main \in {"shutdown", "wait"} => Shutting
  /\ NilMeansInterrupted

LEMMA ServeInitInv == ServeInit => ServeInv
  BY PongServeAssumption
     DEF ServeInit, Init, ServeInv, MainPlaces, HttpPlaces, NilMeansInterrupted, ReturnsNil

\* A hub that has stopped stays so, and one that runs does not stop by a step of
\* another goroutine.
LEMMA HubPlacesKept ==
  ASSUME HubRuns \/ Requests \/ Handlers
  PROVE  /\ at' \in {"closing", "stopped"} <=> at \in {"closing", "stopped"}
         /\ at = "stopped" => at' = "stopped"
         /\ UNCHANGED mainVars
<1>1. CASE HubRuns
  BY <1>1 DEF HubRuns, HubStep, TickStart, ApplyNext, InputsEnd, CloseClients
<1>2. CASE Requests
  BY <1>2 DEF Requests, Arrivals, Join, Input, Restart, Submit, hubVars
<1>3. CASE Handlers
  BY <1>3 DEF Handlers, HandlerStep, Joined, JoinForsaken, Receive, Disconnect, Leave, Answered,
              GiveUp, hubVars
<1> QED
  BY <1>1, <1>2, <1>3

LEMMA ServeKept ==
  ASSUME ServeInv, at' \in {"closing", "stopped"} <=> at \in {"closing", "stopped"},
         at = "stopped" => at' = "stopped", UNCHANGED mainVars
  PROVE  ServeInv'
<1>1. UNCHANGED <<main, interrupted, runError, http, result, taken>>
  BY DEF mainVars
<1> QED
  BY <1>1 DEF ServeInv, Shutting, NilMeansInterrupted, ReturnsNil

LEMMA HubStopsServe == ASSUME ServeInv, HubStops PROVE ServeInv'
<1>1. /\ at = "idle" /\ at' = "closing" /\ UNCHANGED <<main, interrupted, http, result, taken>>
      /\ runError' = IF interrupted \/ main # "select" THEN "canceled" ELSE "failed"
  BY DEF HubStops, Stop, CtxCancelled
<1>2. main # "returned"
  BY <1>1 DEF ServeInv, NilMeansInterrupted
<1>3. main \in {"shutdown", "wait"} => Shutting'
  BY <1>1 DEF ServeInv, Shutting
<1> QED
  BY <1>1, <1>2, <1>3, PongServeAssumption
     DEF ServeInv, NilMeansInterrupted, ReturnsNil, MainPlaces

LEMMA EventsServe == ASSUME ServeInv, HttpFails \/ Interrupt PROVE ServeInv'
<1>1. main = "select" /\ UNCHANGED <<at, main, runError, result, taken>>
  BY DEF HttpFails, Interrupt, vars, hubVars
<1>2. http' \in HttpPlaces /\ (interrupted => interrupted')
  BY DEF HttpFails, Interrupt, HttpPlaces, ServeInv
<1> QED
  BY <1>1, <1>2 DEF ServeInv, NilMeansInterrupted, ReturnsNil

LEMMA SelectServe == ASSUME ServeInv, Select PROVE ServeInv'
<1>1. /\ main = "select" /\ main' = "shutdown" /\ UNCHANGED <<at, interrupted, runError>>
      /\ http' \in {"failed", "closed"} /\ result = None /\ taken = {}
      /\ runError = "canceled" => interrupted
  BY DEF Select, vars, hubVars, ServeInv, HttpPlaces
<1>2. Shutting'
  BY <1>1 DEF Select, Shutting
<1> QED
  BY <1>1, <1>2 DEF ServeInv, NilMeansInterrupted, ReturnsNil, MainPlaces, HttpPlaces

LEMMA ShutdownServe ==
  ASSUME ServeInv, ShutdownCompletes \/ ShutdownTimesOut PROVE ServeInv'
<1>1. /\ main = "shutdown" /\ main' = "wait" /\ UNCHANGED <<at, interrupted, runError, http, taken>>
      /\ result' = result \/ (result = None /\ result' = "timeout")
  BY DEF ShutdownCompletes, ShutdownTimesOut, vars, hubVars
<1>2. Shutting'
  <2>1. Shutting
    BY <1>1 DEF ServeInv
  <2>2. CASE result' = result
    BY <1>1, <2>1, <2>2 DEF Shutting
  <2>3. CASE result = None /\ result' = "timeout"
    BY <1>1, <2>1, <2>3, PongServeAssumption DEF Shutting, ServeInv
  <2> QED
    BY <1>1, <2>2, <2>3
<1> QED
  BY <1>1, <1>2 DEF ServeInv, NilMeansInterrupted, ReturnsNil, MainPlaces

\* Whatever was received first is kept, so that nil comes of the game alone.
LEMMA ReturnServe == ASSUME ServeInv, Return PROVE ServeInv'
<1> DEFINE game == IF "game" \in taken THEN result ELSE FirstOf(result, runError)
<1>1. /\ main = "wait" /\ main' = "returned" /\ UNCHANGED <<at, interrupted, runError, http>>
      /\ "game" \notin taken => at = "stopped"
      /\ result' = IF "http" \in taken THEN game ELSE FirstOf(game, http)
  BY DEF Return, vars, hubVars
<1>2. Shutting
  BY <1>1 DEF ServeInv
<1>3. at = "stopped" /\ http # "serving" /\ runError \in {"canceled", "failed"}
  BY <1>1, <1>2 DEF Shutting, ServeInv
<1>4. result' \in {"canceled", "closed"} => interrupted /\ runError = "canceled"
  <2>1. CASE taken = {} /\ interrupted /\ result \in {None, "timeout"}
    <3>1. game \in {runError, "timeout"} /\ game # None
      BY <1>3, <2>1, PongServeAssumption DEF FirstOf
    <3>2. result' = game
      BY <1>1, <2>1, <3>1 DEF FirstOf
    <3> QED
      BY <1>3, <2>1, <3>1, <3>2
  <2>2. CASE taken = {"game"} /\ result = runError /\ (runError = "canceled" => interrupted)
    <3>1. game = runError /\ game # None
      BY <1>3, <2>2, PongServeAssumption
    <3>2. result' = game
      BY <1>1, <2>2, <3>1 DEF FirstOf
    <3> QED
      BY <1>3, <2>2, <3>1, <3>2
  <2>3. CASE taken = {"http"} /\ result = "failed"
    <3>1. result' = "failed"
      BY <1>1, <2>3, PongServeAssumption DEF FirstOf
    <3> QED
      BY <3>1
  <2> QED
    BY <1>2, <2>1, <2>2, <2>3 DEF Shutting
<1>5. NilMeansInterrupted'
  BY <1>1, <1>3, <1>4 DEF NilMeansInterrupted, ReturnsNil
<1> QED
  BY <1>1, <1>5 DEF ServeInv, MainPlaces

LEMMA ServeNextInv ==
  ASSUME ServeInv, [ServeNext]_serveVars PROVE ServeInv'
<1>1. CASE UNCHANGED serveVars
  BY <1>1, ServeKept DEF serveVars, vars, hubVars
<1>2. CASE HubRuns \/ Requests \/ Handlers
  BY <1>2, HubPlacesKept, ServeKept
<1> QED
  BY <1>1, <1>2, HubStopsServe, EventsServe, SelectServe, ShutdownServe, ReturnServe
     DEF ServeNext, Main

\* When serve returns nothing of it runs on, and it reports success only for an
\* interrupt that found the game sound, whatever ended first and whichever
\* result was received first (serve).
THEOREM ServeReportsTruly == ServeSpec => []NilMeansInterrupted
<1>1. ServeInv => NilMeansInterrupted
  BY DEF ServeInv
<1> QED
  BY <1>1, ServeInitInv, ServeNextInv, PTL DEF ServeSpec

\* The server is a hub with its handlers, whatever serve does around it: what
\* holds of the hub holds of the server (serve's goroutines).
THEOREM ServerIsAHub == ServeSpec => Spec
<1>1. ServeInit => Init
  BY DEF ServeInit
<1>2. [ServeNext]_serveVars => [Next]_vars
  BY DEF ServeNext, HubRuns, HubStops, HttpFails, Requests, Handlers, Interrupt, Main, Select,
         ShutdownCompletes, ShutdownTimesOut, Return, serveVars, Next
<1> QED
  BY <1>1, <1>2, PTL DEF ServeSpec, Spec

\* In the running server, whatever its handlers and requests do, a paddle obeys
\* whoever sits there and the newest input taken from them (serve, apply).
THEOREM ServeControls == ServeSpec => []ControlsBelongToSeats
  BY ServerIsAHub, HubControls, PTL
=============================================================================
