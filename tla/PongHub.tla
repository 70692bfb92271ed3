------------------------------ MODULE PongHub --------------------------------
(***************************************************************************)
(* The Pong example's hub (examples/pong/hub.go) with the HTTP handlers    *)
(* that meet it (examples/pong/server.go).  One goroutine runs the         *)
(* simulation: its first system drains the bounded actions channel, its    *)
(* second plays, its third hands every browser a snapshot.  Each browser   *)
(* has a goroutine for its event stream, and posts are goroutines of their *)
(* own.  Everybody may meet the hub while it stops.                        *)
(***************************************************************************)
EXTENDS Integers, SequencesExt

CONSTANTS
  Clients,     \* sessions: one event stream each
  Posts,       \* input and restart requests that are open at one time
  QueueCap,    \* cap(h.actions): 128 in the code
  MaxClients,  \* maxClients: 32 in the code
  MaxSequence, \* bound on the sequence numbers of inputs
  None         \* no session, no snapshot, no answer; the zero control

ASSUME PongHubAssumption ==
  /\ QueueCap \in Nat \ {0} /\ MaxClients \in Nat \ {0} /\ MaxSequence \in Nat
  /\ None \notin Clients /\ Clients \cap Posts = {}

VARIABLES
  at,        \* where the goroutine of hub.run is: see HubPlaces
  budget,    \* iterations left in hub.update
  actions,   \* the channel of actions
  done,      \* the channel done is closed
  clients,   \* h.clients
  side,      \* each client's side, Spectating for none
  sequence,  \* each client's sequence
  seats,     \* h.seats
  humans,    \* Humans of the match: the sides that people play
  controls,  \* Controls of the match
  slot,      \* what the one-place channel of each client holds
  closed,    \* clients whose channel is closed
  stream,    \* where the handler of each event stream is: see StreamPlaces
  post,      \* where each input or restart request is: see PostPlaces
  ack,       \* the acknowledgement channel of each waiting handler
  order,     \* history: the members in the order they joined
  heard      \* history: the greatest sequence heard from each member in a seat

hubVars == <<at, budget>>
courtVars == <<clients, side, sequence, seats, humans, controls, order, heard>>
handlerVars == <<stream, post, ack>>
outVars == <<slot, closed>>
vars == <<hubVars, actions, done, courtVars, outVars, handlerVars>>

Sides == 0..1
Spectating == -1

\* "idle": in the runner, between ticks.  "inputs": in the first system.
\* "closing": Run returned and done is closed.
HubPlaces == {"idle", "inputs", "closing", "stopped"}

\* "leaving": the deferred h.leave.  "gone": the handler has returned.
StreamPlaces == {"new", "joining", "streaming", "leaving", "gone"}

\* "abandoned": the handler returned while its action was in the channel.
PostPlaces == {"free", "waiting", "abandoned"}

Init ==
  /\ at = "idle" /\ budget = 0
  /\ actions = <<>> /\ done = FALSE
  /\ clients = <<>> /\ order = <<>>
  /\ side = [c \in Clients |-> Spectating]
  /\ sequence = [c \in Clients |-> 0] /\ heard = sequence
  /\ seats = [s \in Sides |-> None] /\ humans = {}
  /\ controls = [s \in Sides |-> None]
  /\ slot = [c \in Clients |-> None] /\ closed = {}
  /\ stream = [c \in Clients |-> "new"]
  /\ post = [p \in Posts |-> "free"]
  /\ ack = [h \in Clients \cup Posts |-> None]

\* A send on the channel of actions can go ahead.  One that is chosen although
\* done is closed too fills a channel that nobody reads: that is left out.
Room == Len(actions) < QueueCap /\ ~done

Members == ToSet(clients)

-----------------------------------------------------------------------------
(* Handlers *)

\* events: submit the join.  A cancelled request, a full channel and a stopped
\* hub all lead to the deferred leave.
Join(c) ==
  /\ stream[c] = "new"
  /\ \/ /\ Room
        /\ actions' = Append(actions, [kind |-> "join", id |-> c, by |-> c])
        /\ stream' = [stream EXCEPT ![c] = "joining"]
     \/ /\ stream' = [stream EXCEPT ![c] = "leaving"]
        /\ UNCHANGED actions
  /\ UNCHANGED <<hubVars, done, courtVars, outVars, post, ack>>

\* submit returns the acknowledgement of a join.
Joined(c) ==
  /\ stream[c] = "joining" /\ ack[c] # None
  /\ stream' = [stream EXCEPT ![c] = IF ack[c] = "ok" THEN "streaming" ELSE "leaving"]
  /\ ack' = [ack EXCEPT ![c] = None]
  /\ UNCHANGED <<hubVars, actions, done, courtVars, outVars, post>>

\* Mutant: no deferred leave when submit fails.
JoinForsakenSilently(c) ==
  /\ stream[c] = "joining"
  /\ stream' = [stream EXCEPT ![c] = "gone"]
  /\ ack' = [ack EXCEPT ![c] = None]
  /\ UNCHANGED <<hubVars, actions, done, courtVars, outVars, post>>

\* submit gives up on a join: the browser is gone, or the hub has stopped.
JoinForsaken(c) ==
  /\ stream[c] = "joining"
  /\ stream' = [stream EXCEPT ![c] = "leaving"]
  /\ ack' = [ack EXCEPT ![c] = None]
  /\ UNCHANGED <<hubVars, actions, done, courtVars, outVars, post>>

\* The stream takes a snapshot and writes it; the write may fail.
Receive(c) ==
  /\ stream[c] = "streaming" /\ slot[c] # None
  /\ slot' = [slot EXCEPT ![c] = None]
  /\ \/ UNCHANGED stream
     \/ stream' = [stream EXCEPT ![c] = "leaving"]
  /\ UNCHANGED <<hubVars, actions, done, courtVars, closed, post, ack>>

\* The browser disconnects, or a welcome or heartbeat cannot be written.
Disconnect(c) ==
  /\ stream[c] = "streaming"
  /\ stream' = [stream EXCEPT ![c] = "leaving"]
  /\ UNCHANGED <<hubVars, actions, done, courtVars, outVars, post, ack>>

\* The stream finds done or its own channel closed.
StreamStops(c) ==
  /\ done \/ (c \in closed /\ slot[c] = None)
  /\ Disconnect(c)

\* Mutant: h.leave does not watch done.
LeaveUnwatched(c) ==
  /\ stream[c] = "leaving"
  /\ Len(actions) < QueueCap
  /\ actions' = Append(actions, [kind |-> "leave", id |-> c])
  /\ stream' = [stream EXCEPT ![c] = "gone"]
  /\ UNCHANGED <<hubVars, done, courtVars, outVars, post, ack>>

\* h.leave waits for room in the channel or the end of the hub.
Leave(c) ==
  /\ stream[c] = "leaving"
  /\ \/ /\ Room
        /\ actions' = Append(actions, [kind |-> "leave", id |-> c])
     \/ /\ done
        /\ UNCHANGED actions
  /\ stream' = [stream EXCEPT ![c] = "gone"]
  /\ UNCHANGED <<hubVars, done, courtVars, outVars, post, ack>>

\* The sessions a request can name: welcomed, or not known to the hub.
Named == {c \in Clients : stream[c] \in {"streaming", "leaving", "gone"}}

Submit(p, a) ==
  /\ post[p] = "free" /\ Room
  /\ actions' = Append(actions, a)
  /\ post' = [post EXCEPT ![p] = "waiting"]
  /\ UNCHANGED <<hubVars, done, courtVars, outVars, stream, ack>>

\* POST /api/input.  A full channel or a stopped hub refuses it at once.
Input(p) == \E c \in Named, n \in 1..MaxSequence :
  Submit(p, [kind |-> "input", id |-> c, by |-> p, sequence |-> n])

\* POST /api/restart.
Restart(p) == \E c \in Named :
  Submit(p, [kind |-> "restart", id |-> c, by |-> p])

Answered(p) ==
  /\ post[p] = "waiting" /\ ack[p] # None
  /\ post' = [post EXCEPT ![p] = "free"]
  /\ ack' = [ack EXCEPT ![p] = None]
  /\ UNCHANGED <<hubVars, actions, done, courtVars, outVars, stream>>

InChannel(p) == \E i \in DOMAIN actions : "by" \in DOMAIN actions[i] /\ actions[i].by = p

\* The request is cancelled, or the hub has stopped.
GiveUp(p) ==
  /\ post[p] = "waiting"
  /\ post' = [post EXCEPT ![p] = IF InChannel(p) THEN "abandoned" ELSE "free"]
  /\ ack' = [ack EXCEPT ![p] = None]
  /\ UNCHANGED <<hubVars, actions, done, courtVars, outVars, stream>>

-----------------------------------------------------------------------------
(* The hub *)

\* Mutant: a full channel keeps the old snapshot.
OfferedIfEmpty(cs, sd) == [c \in Clients |-> IF c \in ToSet(cs) /\ slot[c] = None THEN sd[c] ELSE slot[c]]

\* broadcast: every member's channel holds the newest snapshot, in place of an
\* older one.  The hub alone sends on it; that the stream may receive between
\* the three selects is a Receive before this step.
Offered(cs, sd) == [c \in Clients |-> IF c \in ToSet(cs) THEN sd[c] ELSE None]

Free(sd) == {s \in Sides : \A c \in Clients : sd[c] # s}

Promoted(sd, c) ==
  IF sd[c] = Spectating /\ Free(sd) # {} THEN [sd EXCEPT ![c] = Min(Free(sd))] ELSE sd

\* The sides after assignSeats: spectators fill the free seats in join order.
Seated(cs, sd) ==
  LET after[k \in 0..Len(cs)] == IF k = 0 THEN sd ELSE Promoted(after[k - 1], cs[k])
  IN  after[Len(cs)]

SeatsOf(sd) == [s \in Sides |->
  IF \E c \in Clients : sd[c] = s THEN CHOOSE c \in Clients : sd[c] = s ELSE None]

Occupied(st) == {s \in Sides : st[s] # None}

\* game.restart: the new match has no controls.
FreshMatch == controls' = [s \in Sides |-> None]

\* Mutant: a new match only when people replace bots or bots people.
AssignSeatsByOccupancy(cs, sd) ==
  /\ side' = Seated(cs, sd)
  /\ seats' = SeatsOf(side')
  /\ humans' = Occupied(seats')
  /\ IF humans' # humans THEN FreshMatch ELSE UNCHANGED controls

\* assignSeats.
AssignSeats(cs, sd) ==
  /\ side' = Seated(cs, sd)
  /\ seats' = SeatsOf(side')
  /\ IF seats' # seats
     THEN humans' = Occupied(seats') /\ FreshMatch
     ELSE UNCHANGED <<humans, controls>>

\* The members are now cs: seats and snapshots follow.
MembersBecome(cs, sd) ==
  /\ clients' = cs
  /\ AssignSeats(cs, sd)
  /\ slot' = Offered(cs, side')

ApplyJoin(c) ==
  IF Len(clients) >= MaxClients
  THEN UNCHANGED <<courtVars, outVars>>
  ELSE /\ MembersBecome(Append(clients, c), [side EXCEPT ![c] = Spectating])
       /\ order' = Append(order, c)
       /\ UNCHANGED <<sequence, heard, closed>>

\* Mutant: the last client moves into the gap.
WithoutSwapped(c) ==
  LET i == CHOOSE k \in DOMAIN clients : clients[k] = c
  IN  Front([clients EXCEPT ![i] = Last(clients)])

\* The others close up.
Without(cs, c) == RemoveAt(cs, CHOOSE k \in DOMAIN cs : cs[k] = c)

WithoutClient(c) == Without(clients, c)

\* The client's record and the snapshot left in its channel are garbage now.
ApplyLeave(c) ==
  /\ MembersBecome(WithoutClient(c), [side EXCEPT ![c] = Spectating])
  /\ closed' = closed \cup {c}
  /\ order' = Without(order, c)
  /\ sequence' = [sequence EXCEPT ![c] = 0] /\ heard' = [heard EXCEPT ![c] = 0]

ApplyRestart ==
  /\ FreshMatch
  /\ UNCHANGED <<clients, side, sequence, seats, humans, order, heard, outVars>>

Larger(m, n) == IF m > n THEN m ELSE n

\* Mutant: the last input to arrive wins.
ApplyInputInArrivalOrder(c, n) ==
  /\ sequence' = [sequence EXCEPT ![c] = n]
  /\ controls' = [controls EXCEPT ![side[c]] = [from |-> c, sequence |-> n]]
  /\ heard' = [heard EXCEPT ![c] = Larger(@, n)]
  /\ UNCHANGED <<clients, side, seats, humans, order, outVars>>

ApplyInput(c, n) ==
  /\ IF n > sequence[c]
     THEN /\ sequence' = [sequence EXCEPT ![c] = n]
          /\ controls' = [controls EXCEPT ![side[c]] = [from |-> c, sequence |-> n]]
     ELSE UNCHANGED <<sequence, controls>>
  /\ heard' = [heard EXCEPT ![c] = Larger(@, n)]
  /\ UNCHANGED <<clients, side, seats, humans, order, outVars>>

\* apply: the action's effect, and nothing for strangers and spectators.
Apply(a) ==
  IF a.kind = "join" THEN ApplyJoin(a.id)
  ELSE IF a.id \notin Members THEN UNCHANGED <<courtVars, outVars>>
  ELSE IF a.kind = "leave" THEN ApplyLeave(a.id)
  ELSE IF side[a.id] = Spectating THEN UNCHANGED <<courtVars, outVars>>
  ELSE IF a.kind = "restart" THEN ApplyRestart
  ELSE ApplyInput(a.id, a.sequence)

Outcome(a) == IF a.kind = "join" /\ Len(clients) >= MaxClients THEN "full" ELSE "ok"

\* a.ack <- err, which never blocks and which nobody may be waiting for.
Acknowledge(a) ==
  /\ ack' = IF \/ a.kind = "join" /\ stream[a.id] = "joining"
               \/ a.kind \in {"input", "restart"} /\ post[a.by] = "waiting"
            THEN [ack EXCEPT ![a.by] = Outcome(a)]
            ELSE ack
  /\ post' = IF a.kind \in {"input", "restart"} /\ post[a.by] = "abandoned"
             THEN [post EXCEPT ![a.by] = "free"]
             ELSE post

\* The runner starts a tick.
TickStart ==
  /\ at = "idle"
  /\ at' = "inputs" /\ budget' = QueueCap
  /\ UNCHANGED <<actions, done, courtVars, outVars, handlerVars>>

\* Mutant: update drains the channel until it is empty.
ApplyAlways ==
  /\ at = "inputs" /\ actions # <<>>
  /\ Apply(Head(actions))
  /\ Acknowledge(Head(actions))
  /\ actions' = Tail(actions)
  /\ UNCHANGED <<hubVars, done, stream>>

ApplyNext ==
  /\ at = "inputs" /\ actions # <<>> /\ budget > 0
  /\ Apply(Head(actions))
  /\ Acknowledge(Head(actions))
  /\ actions' = Tail(actions)
  /\ budget' = budget - 1
  /\ UNCHANGED <<at, done, stream>>

\* update ends, and the two other systems run: the match is played for a tick
\* (see PongMatch), and on the ticks the third is due every browser is offered a
\* snapshot.  A context cancelled meanwhile skips either, which is a tick without
\* a broadcast here.
InputsEnd ==
  /\ at = "inputs" /\ (actions = <<>> \/ budget = 0)
  /\ at' = "idle" /\ budget' = 0
  /\ slot' \in {slot, Offered(clients, side)}
  /\ UNCHANGED <<actions, done, courtVars, closed, handlerVars>>

\* Run returns, its context cancelled or the simulation time used up.  The
\* deferred function first closes done.
Stop ==
  /\ at = "idle"
  /\ at' = "closing" /\ done' = TRUE
  /\ UNCHANGED <<budget, actions, courtVars, outVars, handlerVars>>

CloseClients ==
  /\ at = "closing"
  /\ at' = "stopped"
  /\ closed' = closed \cup Members
  /\ UNCHANGED <<budget, actions, done, courtVars, slot, handlerVars>>

-----------------------------------------------------------------------------

HubStep == TickStart \/ ApplyNext \/ InputsEnd \/ CloseClients

\* Requests reach their handlers.
Arrivals == \/ \E c \in Clients : Join(c)
            \/ \E p \in Posts : Input(p) \/ Restart(p)

HandlerStep ==
  \/ \E c \in Clients : Joined(c) \/ JoinForsaken(c) \/ Receive(c) \/ Disconnect(c) \/ Leave(c)
  \/ \E p \in Posts : Answered(p) \/ GiveUp(p)

Next == HubStep \/ Stop \/ Arrivals \/ HandlerStep

Spec == Init /\ [][Next]_vars

\* A handler that can go on by what the hub did goes on.
StreamGoesOn(c) == Joined(c) \/ (done /\ JoinForsaken(c)) \/ Receive(c) \/ StreamStops(c)

PostGoesOn(p) == Answered(p) \/ (done /\ GiveUp(p))

\* Every goroutine is scheduled; a sender blocked on a channel gets its turn,
\* because Go hands room to blocked senders in order.  No browser has to
\* connect, post or disconnect, and nobody has to cancel.
HandlerFairness ==
  /\ \A c \in Clients : WF_vars(StreamGoesOn(c)) /\ SF_vars(Leave(c))
  /\ \A p \in Posts : WF_vars(PostGoesOn(p))

FairSpec == Spec /\ WF_vars(HubStep) /\ HandlerFairness

-----------------------------------------------------------------------------
(* Properties *)

\* "Additional browsers spectate. The oldest spectator takes a vacant seat"
\* (examples/pong/README.md): the two who joined first are seated, each alone
\* on a side, the rest watch, and the match plays bots on the other sides.
SeatsFollowJoinOrder ==
  /\ Len(clients) <= MaxClients /\ Members = ToSet(order)
  /\ \A i \in DOMAIN order : (side[order[i]] # Spectating) <=> (i <= 2)
  /\ \A s \in Sides : seats[s] # None <=> s \in humans
  /\ \A c \in Members : side[c] # Spectating => seats[side[c]] = c
  /\ \A s \in humans : seats[s] \in Members /\ side[seats[s]] = s

\* A member's stream handler is alive, or its leave is on its way to a running
\* hub; and while the hub may broadcast, no member's channel is closed.  So a
\* request that was cancelled while its join was queued leaves no ghost behind
\* in a seat, and nothing is sent on a closed channel (events: "Also clean up
\* when a request is canceled while its join action is queued").
MembersAreAlive ==
  /\ at # "stopped" => Members \cap closed = {}
  /\ \A c \in Members : stream[c] = "gone" =>
       done \/ \E i \in DOMAIN actions : actions[i] = [kind |-> "leave", id |-> c]

\* A paddle is moved by whoever sits there now, and by the newest input the hub
\* took from them, whatever order requests arrive in and whoever sat there
\* before ("A promoted spectator must not inherit a departed player's
\* controls/score", assignSeats).
ControlsBelongToSeats == \A s \in Sides : controls[s] # None =>
  controls[s].from = seats[s] /\ controls[s].sequence = heard[seats[s]]

\* A snapshot in a member's channel tells the seat the member has.  Only the
\* browser empties the channel, by taking that snapshot; and whenever members or
\* seats change every channel is filled: a promotion reaches every browser,
\* however slow its stream is ("Keep only the newest state", broadcast).
BrowsersKnowTheirSeat ==
  [][\A c \in ToSet(clients') :
       \/ slot'[c] = side'[c]
       \/ /\ slot'[c] = None /\ UNCHANGED <<clients, side>>
          /\ slot[c] = None \/ Receive(c)]_vars

HandlersActive ==
  \/ \E c \in Clients : stream[c] \in {"joining", "streaming", "leaving"}
  \/ \E p \in Posts : post[p] = "waiting"

\* Once the hub has stopped every handler returns: the request whose action was
\* queued behind the last tick, the stream that still has a snapshot to read,
\* and the leave that waits for room in a channel nobody reads any more.
HandlersReturn == done ~> ~HandlersActive

\* "A busy network must not starve the physics system" (update).
InputsNeverStarvePhysics == at = "inputs" ~> at = "idle"
=============================================================================
