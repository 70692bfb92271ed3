------------------------------ MODULE Broadcast ------------------------------
(***************************************************************************)
(* What typed events promise (event.go): every subscription open at the    *)
(* time has its own bounded FIFO of the events published since; an event   *)
(* goes to all of them or, when one is full, to none.                      *)
(***************************************************************************)
EXTENDS Integers, Sequences

CONSTANTS Subs, Events, Capacities

VARIABLES
  open,  \* subscriptions that receive events, with their capacities
  inbox  \* unread events of each subscription, oldest first

vars == <<open, inbox>>

Init ==
  /\ open = [s \in {} |-> 0]
  /\ inbox = [s \in Subs |-> <<>>]

Subscribe(s) ==
  \E c \in Capacities :
    /\ s \notin DOMAIN open
    /\ open' = [x \in DOMAIN open \cup {s} |-> IF x = s THEN c ELSE open[x]]
    /\ UNCHANGED inbox

Publish(e) ==
  /\ \A s \in DOMAIN open : Len(inbox[s]) < open[s]
  /\ inbox' = [s \in Subs |-> IF s \in DOMAIN open THEN Append(inbox[s], e) ELSE inbox[s]]
  /\ UNCHANGED open

Next(s) ==
  /\ inbox[s] # <<>>
  /\ inbox' = [inbox EXCEPT ![s] = Tail(@)]
  /\ UNCHANGED open

Close(s) ==
  /\ s \in DOMAIN open
  /\ open' = [x \in DOMAIN open \ {s} |-> open[x]]
  /\ inbox' = [inbox EXCEPT ![s] = <<>>]

Step ==
  \/ \E s \in Subs : Subscribe(s)
  \/ \E e \in Events : Publish(e)
  \/ \E s \in Subs : Next(s)
  \/ \E s \in Subs : Close(s)

Spec == Init /\ [][Step]_vars
=============================================================================
