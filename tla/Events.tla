-------------------------------- MODULE Events --------------------------------
(***************************************************************************)
(* The event topic of one type in one world (event.go): ring-buffer        *)
(* subscriptions in a topic's list, synchronous all-or-nothing Publish,    *)
(* consuming Next and swap-removing Close.  Rejected calls (negative       *)
(* capacity, a full queue, reading an empty one, closing twice) change     *)
(* nothing and are stuttering steps.  Queue positions count from zero, as  *)
(* in the code; positions in the topic's list count from one.              *)
(***************************************************************************)
EXTENDS Integers, FiniteSets, SequencesExt

CONSTANTS
  Subs,            \* subscriptions ever made
  EventValues,     \* events
  Zero,            \* the zero value a released queue slot holds
  Offered,         \* capacity arguments given to Subscribe
  DefaultCapacity, \* capacity for argument 0: 1024 in the code
  MaxPublished     \* bound on events published

ASSUME EventsAssumption ==
  /\ Zero \notin EventValues
  /\ Offered \subseteq Int
  /\ DefaultCapacity \in Nat \ {0}
  /\ MaxPublished \in Nat

VARIABLES
  topic,    \* topic.subscribers
  joined,   \* subscriptions made so far
  open,     \* those whose topic pointer is set
  cap,      \* len(queue): 0 before Subscribe and after Close
  queue, head, size,
  published \* history: how many events Publish accepted

eventVars == <<topic, joined, open, cap, queue, head, size, published>>

NoQueue == [i \in {} |-> Zero]

Slots(c) == 0..(c - 1)

EventsInit ==
  /\ topic = <<>> /\ joined = {} /\ open = {}
  /\ cap = [s \in Subs |-> 0]
  /\ queue = [s \in Subs |-> NoQueue]
  /\ head = [s \in Subs |-> 0]
  /\ size = [s \in Subs |-> 0]
  /\ published = 0

\* The queue length for a capacity argument.
Capacity(c) == IF c = 0 THEN DefaultCapacity ELSE c

Subscribe(s, c) ==
  /\ s \notin joined
  /\ c >= 0
  /\ joined' = joined \cup {s}
  /\ open' = open \cup {s}
  /\ cap' = [cap EXCEPT ![s] = Capacity(c)]
  /\ queue' = [queue EXCEPT ![s] = [i \in Slots(Capacity(c)) |-> Zero]]
  /\ topic' = Append(topic, s)
  /\ UNCHANGED <<head, size, published>>

Full(s) == size[s] = cap[s]

\* Mutant: each subscriber with room gets the event, whatever the others have.
PublishWhereRoom(e) ==
  LET roomy == {s \in ToSet(topic) : ~Full(s)}
  IN  /\ published < MaxPublished
      /\ queue' = [s \in Subs |->
                     IF s \in roomy
                     THEN [queue[s] EXCEPT ![(head[s] + size[s]) % cap[s]] = e]
                     ELSE queue[s]]
      /\ size' = [s \in Subs |-> IF s \in roomy THEN size[s] + 1 ELSE size[s]]
      /\ published' = published + 1
      /\ UNCHANGED <<topic, joined, open, cap, head>>

\* All subscribers have room: each gets the event at the end of its window.
Publish(e) ==
  /\ published < MaxPublished
  /\ \A s \in ToSet(topic) : ~Full(s)
  /\ queue' = [s \in Subs |->
                 IF s \in ToSet(topic)
                 THEN [queue[s] EXCEPT ![(head[s] + size[s]) % cap[s]] = e]
                 ELSE queue[s]]
  /\ size' = [s \in Subs |-> IF s \in ToSet(topic) THEN size[s] + 1 ELSE size[s]]
  /\ published' = published + 1
  /\ UNCHANGED <<topic, joined, open, cap, head>>

\* Mutant: the consumed slot keeps its event.
NextUncleared(s) ==
  /\ size[s] # 0
  /\ head' = [head EXCEPT ![s] = (@ + 1) % cap[s]]
  /\ size' = [size EXCEPT ![s] = @ - 1]
  /\ UNCHANGED <<topic, joined, open, cap, queue, published>>

Next(s) ==
  /\ size[s] # 0
  /\ queue' = [queue EXCEPT ![s][head[s]] = Zero]
  /\ head' = [head EXCEPT ![s] = (@ + 1) % cap[s]]
  /\ size' = [size EXCEPT ![s] = @ - 1]
  /\ UNCHANGED <<topic, joined, open, cap, published>>

\* Mutant: the list is not truncated.
SwapKept(subs, i) == [subs EXCEPT ![i] = Last(subs)]

\* The subscriber list without its i-th element, which the last one replaces.
SwapRemoved(subs, i) == Front([subs EXCEPT ![i] = Last(subs)])

Close(s) ==
  /\ s \in open
  /\ topic' = IF s \in ToSet(topic)
              THEN SwapRemoved(topic, CHOOSE i \in DOMAIN topic : topic[i] = s)
              ELSE topic
  /\ open' = open \ {s}
  /\ cap' = [cap EXCEPT ![s] = 0]
  /\ queue' = [queue EXCEPT ![s] = NoQueue]
  /\ head' = [head EXCEPT ![s] = 0]
  /\ size' = [size EXCEPT ![s] = 0]
  /\ UNCHANGED <<joined, published>>

EventsNext ==
  \/ \E s \in Subs, c \in Offered : Subscribe(s, c)
  \/ \E e \in EventValues : Publish(e)
  \/ \E s \in Subs : Next(s)
  \/ \E s \in Subs : Close(s)

EventsSpec == EventsInit /\ [][EventsNext]_eventVars

-----------------------------------------------------------------------------
(* Properties *)

\* The unread events of s as a sequence: the window of its ring.
Unread(s) == [i \in 1..size[s] |-> queue[s][(head[s] + i - 1) % cap[s]]]

\* The topic lists every open subscription exactly once and no closed one,
\* whatever subscriptions were closed in whatever order: a closed one left
\* behind, whose size equals its capacity 0, would make every later Publish
\* fail, and one listed twice would get events twice (Close, Subscribe).
TopicListsOpen == IsInjective(topic) /\ ToSet(topic) = open

\* A queue slot outside the window keeps no reference to an event consumed
\* earlier, and a closed subscription keeps none at all (Next, Close).
ReleasedSlotsAreZero ==
  \A s \in Subs : \A i \in DOMAIN queue[s] :
    queue[s][i] # Zero => \E k \in 0..(size[s] - 1) : i = (head[s] + k) % cap[s]

\* The events Subscribe, Publish, Next and Close keep as abstract inboxes.
Abstract == INSTANCE Broadcast
              WITH Events <- EventValues,
                   Capacities <- {Capacity(c) : c \in {o \in Offered : o >= 0}},
                   open <- [s \in open |-> cap[s]],
                   inbox <- [s \in Subs |-> Unread(s)]

\* The rings and the topic list implement bounded broadcast: all-or-nothing
\* publishing into independent FIFO inboxes.
ImplementsBroadcast == Abstract!Spec
=============================================================================
