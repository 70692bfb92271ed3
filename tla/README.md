# A TLA+ model of ecf

`ecf` is an in-memory entity-component framework for Go game servers
(`src/*.go`), with a wall-clock runner (`src/tick`) and example applications
(`src/examples`), of which the multiplayer Pong server is a small concurrent
system of its own. This directory holds TLA+ modules translated from that
code, TLC configurations that check them on small instances, and proofs for
every value of the constants. `PROJECT.json` lists the runs, the mutants, the
source lines behind each definition, the hazards and the theorems.

Run one configuration with `tlc -config World.cfg MCWorld.tla`, one proof module
with `tlapm WorldProofs.tla`.

## The system

| Component | State | Operations | Correct when |
| --- | --- | --- | --- |
| World identities (`world.go:60-78`) | one atomic counter | `NewWorld` from any goroutine | identities are unique and nonzero; every call ends |
| World (`world.go`) | slots, free stack, live count, query depth, registry | `NewEntity`, `Destroy`, `Alive`, `Len` | dead handles stay dead, slots are neither shared nor lost |
| Component storage (`component.go`) | per type: dense entities and values, sparse index | `Set`, `Get`, `Has`, `Remove`, creation of a store | both sides inverse to each other; only live entities stored |
| Queries (`query.go`) | query depth, loop positions, borrowed pointers | `Query1..4`, `Each`, `With`, `Without` | each matching entity once; nothing moves under a callback |
| Commands (`commands.go`) | pending operations, flushing flag | `Defer`, `Clear`, `Flush` | once, in order, never inside a query; always reset |
| Scheduler (`scheduler.go`) | systems, tick, time, flags, fault, buffer, lent frame | `Add`, `StepContext` | no fault means whole ticks; a step leaves nothing behind |
| Events (`event.go`) | topic's subscriber list, ring buffers | `Subscribe`, `Publish`, `Next`, `Close` | bounded FIFO per subscriber, all-or-nothing publishing |
| Resources (`resource.go`) | one heap cell per type | `SetResource`, `GetResource`, `RemoveResource` | readers see what was last stored in this installation |
| Runner (`tick/runner.go`) | running flag, clock timer, backlog | `New`, `Run` | one active Run, wall time accounted for, cancellation ends it |
| Pong hub (`examples/pong/hub.go`, `server.go`) | actions channel, clients, seats, controls, one snapshot slot per client, `done` | join, leave, input, restart, broadcast, stop | seats in join order, no ghosts, newest input wins, every handler returns |
| Pong shutdown (`examples/pong/main.go`) | contexts, the results of two goroutines | `serve` | it returns, and nil means it was interrupted |
| Pong game rules (`examples/pong/game.go`) | phase, scores, paddles, ball | `restart`, `update` | phase and scores agree, no ball passes through a paddle |
| Worlds example (`examples/worlds/main.go`) | two matches, contexts, three kinds of channel | `run`, `runMatch` | it returns, and nil means every match finished |
| Pong client (`examples/pong/web`) | session, pending and urgent flags | send input, restart, reconnect | not modelled: see below |
| Combat, economy examples | none of their own | demonstrations | left out: every operation they use is modelled |

How they interact. A world and everything obtained from it belongs to one
goroutine at a time, so inside a world there are no threads: what interleaves
is *user code*, which runs in query callbacks, deferred operations and systems
and may call back into the framework, return an error or panic. Queries raise
the world's depth, and the structural operations, `Flush` and `StepContext`
look at it. The scheduler owns a command buffer and lends it to each system
through one `Frame`. Between goroutines the framework has three meeting
points: the identity counter, the runner's flag and the contexts, which anybody
may cancel at any moment. The examples add channels: in Pong one goroutine
runs the simulation, every browser has a goroutine for its event stream and one
for each post, and all of them meet in the bounded channel of actions, in
acknowledgement channels, in one-slot snapshot channels and in `done`; in
the worlds example the matches block on one snapshot channel.

What is hard: panics and errors crossing several nested calls with deferred
clean-up in each; stale handles, stale sparse entries and borrowed pointers;
limits of 32- and 64-bit counters and of `time.Duration`; cancellation between
any two steps; races on the counter and the flag; requests that are cancelled
while their action is queued; goroutines that wait for each other during a
shutdown. `PROJECT.json` lists these hazards, each at its line and with the
properties aimed at it.

## Modules

Conventions: a call that the code rejects (an invalid handle, a structural
change during a query, a full queue) changes nothing and is a stuttering step,
so its guard appears in the accepting action. Variables called *history* in the
comments are not in the code; they record what the properties speak of and
guard nothing, except that a few of them carry a bound. Indices in `World` are
one-based; the sparse entries are "plus one" in the code already. Operators
marked *Mutant* are plausible bugs; nothing uses them, and replacing the
definition that follows (or the one in the module it extends) by one of them
breaks a property.

**`World`** (with `EntityMap`, `MCWorld`, `WorldProofs`) is identity and storage
together, because `Destroy` works on both. `NewEntityReuse` and `NewEntityGrow`
are the two branches of `NewEntity`; `Vacate` is the tail of `Destroy` with the
retirement of exhausted slots; `SetReplace` and `SetAdd` are the two outcomes of
`Set`. `Inputs` are all handles the program can pass: every handle ever issued,
another world's, and the zero `Entity`. `MaxSlots` and `MaxGen` are the code's
2^32 and `MaxUint32`. `EntityMap` is what a caller is promised: live entities
with partial maps from types to values; `World` is mapped to it through
`Get`'s own lookup (`ComponentsOf`), so that an error anywhere in the sparse
sets is visible.

**`Query`** (with `MCQuery`, `WorldProofs`) extends `World` with the stack of traversals,
each suspended in the callback for the entity at a position of its driver.
Callbacks may mutate, nest, stop and panic; `Unwind(k)` is a panic recovered
`k` traversals further out. Structural actions keep `World`'s guards, so that
a forbidden change is a panic, which is `Unwind`. `Matches`, `Driver` and
`Runnable` are `each` and `matches`; `Selected` is an independent definition of
what must be found.

**`CommandBuffer`** describes a `Commands` value by pure operators; `Commands`
(with `CommandsProofs`) puts several buffers and traversals on one call stack,
and `Scheduler` uses the same operators for its own buffer.

**`Scheduler`** (with `SchedulerProofs`) has one place per point where user code
runs or the context is looked at (`Places`). `Exit` is `StepContext`'s deferred
function; every way out of a step goes through it. `OwnFlushAborts` and
`SystemFlush` are a system that flushes or loses the shared buffer itself.
`trace` is the history of a tick: an operation is named by the system that
deferred it and its number in the tick, and the number 0 is an `Update`.

**`Events`** (with `Broadcast`, `EventsProofs`) keeps the ring buffers with
zero-based positions as in the code. `Broadcast` is the promise: independent
bounded inboxes. The topic's registration in the world (`Subscribe`'s first
lines) is folded into the initial state: an empty topic and a missing one
behave alike.

**`Resources`** (with `WorldProofs`) keeps the heap cells apart from the world's map, so a pointer can
outlive its resource.

**`Runner`** (with `RunnerProofs`) has the callers of one `Run`, one action per
clock reading, context check, step and deferred call. The scheduler under it is
its outcome: a step succeeds, faults or panics. `Clock` may jump forwards by any
of a few amounts and backwards by one; `lost` sums up what exceeds the longest
Duration, told apart from the addition's own result, so that an addition which
cut off more or less would show. `StepRefused` covers each refusal of
`StepContext` that is no fault; a `Run` that was called from inside a query or a
step is one.

**`PongHub`** (with `PongProofs`) is `hub.go` with the handlers of `server.go`. The hub goroutine is
in one of four places; `ApplyNext` is one iteration of `update`, whose `budget`
is the capacity of the channel; `Apply` is `apply` with all its kinds, each
with the calls it makes (`MembersBecome` is `assignSeats` followed by
`broadcast`). A stream handler goes through joining, streaming, leaving and
gone; `JoinForsaken` and `GiveUp` are a request cancelled while its action is
in the channel, which the hub still applies. `Join` with a full channel fails at
once; `Leave` blocks, until there is room or `done` is closed. Snapshots carry
the seat only, controls carry who sent them and with which sequence. `slot`,
the one-place channel, is emptied by `Receive` and overwritten by `broadcast`.

**`PongServe`** (with `PongProofs`) extends `PongHub` with `serve`: the goroutine of the hub and that
of the HTTP server, the select over their results and the interrupt, `cancel`,
`Shutdown` with its timeout, and the two receives. Requests arrive until
`Shutdown` returns, on connections that were accepted before it.

**`PongMatch`** (with `PongMatchProofs`) is `game.go` over integers: the phases,
the countdown, paddles moved by controls that expire or by bots, a ball that
flies in substeps, is reflected and scored. Speeds after a bounce are any of
`Speeds` and `Slopes`. Its `Restart` and `Input` are what `PongHub`'s
`FreshMatch` and `ApplyInput` stand for.

**`WorldIDs`** (with `WorldsProofs`) is `NewWorld`'s loop with one action per
atomic access. **`WorldsExample`** (with `WorldsProofs`) extends it: the matches get their identities
there, in competition with another goroutine, then tick, block on the snapshot
channel, cancel themselves or meet the deadline, while `run` waits, collects and
reads the errors.

Composition: `Query` extends `World`; `Commands` and `Scheduler` extend
`CommandBuffer`; `PongServe` extends `PongHub`; `WorldsExample` extends
`WorldIDs`; `Events` instantiates `Broadcast`, `World` `EntityMap`.

## Runs

| Run | Instance | What it shows |
| --- | --- | --- |
| `world` | 3 slots, 2 generations, 2 types, 2 values, depth 1, two foreign identities | count, free list, coherent stores, no revival; `World` implements `EntityMap` |
| `query` | 3 slots, 2 types, 2 values, nesting 2, queries `Query1[A](With[B])`, `Query1[A](Without[B])`, `Query2[A,B]` | the driver reaches exactly the selected, completed traversals visit each once, borrows valid |
| `commands` | 2 buffers, 3 operations each, 4 nested calls | flags match the stack, no flush in a query, operations once and in order |
| `scheduler` | 2 systems, intervals 1, 2, 3 and 5, four ticks of simulation time, 2 operations per update | overflow, whole ticks, commands settled in order, clean exit, deltas |
| `scheduler_cancel` | 2 systems, intervals 1 and 2, two ticks, 1 operation per update | violated: see Findings |
| `events` | 3 subscriptions, capacities 1, 2 and the default (3 here), 4 events | `Events` implements `Broadcast`, the topic lists the open subscriptions, no references kept |
| `runner` | 2 callers, steps of 2, limit 2, Durations up to 7, 9 units of time | one Run, own timer, wall time conserved, no debt; cancellation ends a Run |
| `resources` | 2 types, 2 values, 4 cells | readers see the latest |
| `worlds` | 2 matches of 1 and 2 ticks, another caller of `NewWorld`, 2 identities, a channel of 1 | unique identities, `NewWorld` and `run` return, nil means finished |
| `pong_hub` | 4 browsers, 1 post, a channel of 1, room for 4 | seats, ghosts, controls, snapshots, in every order of joins, leaves and cancellations |
| `pong_serve` | 1 browser, 2 posts with 2 sequence numbers, a channel of 1 | the shutdown from each cause, with every handler anywhere; reordered inputs; no starvation |
| `pong_match` | a court of 16 by 6, speeds 1 and 2, substeps of 2, ticks of 5, two points to win | phases and scores, no tunnelling |

Why the bounds are enough. Three slots give a swap-removal with a third
entity as bystander; two generations give reuse, then retirement. Two nested
traversals and two buffers give every kind of crossing (a panic out of one
into the other, out of both, a flush inside a flush). The intervals include one
that divides nothing and one that the overflow check refuses; four ticks
exhaust the clock, so overflow is reached. Capacity 1 wraps at every event,
2 and 3 wrap at different times. Durations up to 7 with jumps of twice a step
reach saturation, and a catch-up limit of 2 leaves overdue steps to drop.
Two identities for
three callers reach exhaustion and its panic; one match has
more ticks than the snapshot channel has room, so producers block. Four
browsers fill both seats and leave two spectators, whose order of promotion can
be wrong; a channel of one action is full whenever it is not empty, so every
refusal and every wait happens, and an action of each other handler can be
behind it. With one browser and two posts, inputs overtake each other and the
channel is refilled while it is drained. The short court has the ball cross a
paddle's reach in two substeps at the top speed, and a tick is two and a half
substeps.

Named bounds that stand for nothing in the code: `MaxDepth`, `MaxStack`,
`MaxOps`, `MaxPublished`, `MaxCells`, `MaxWall` and `MaxSequence`. The small
`QueueCap`, `MaxClients`, `OutputCap`, `MaxSlots`, `MaxGen`, `MaxId`, `MaxDur`
and `MaxTime` stand for the code's larger numbers. Values, types, names, callers,
buffers, subscriptions and browsers are symmetric where `SYMMETRY` is declared;
runs with liveness properties declare none. Deadlock is checked except in
four runs where the program really comes to a stop: `events`, after its last
event and its last subscription; `pong_hub`, once the hub has stopped and
every handler has returned; `pong_serve`, once `serve` has returned; `worlds`,
once `run` has returned or a panic ended the process.

Fairness. `RunnerFairSpec`: a goroutine inside `Run` is scheduled
and a step returns; the clock need not advance, so a cancelled `Run` has to
leave its wait by the context alone. `HandlerFairness`: a handler that can go on
by what the hub did goes on, and a leave that is blocked on the actions
channel gets its turn when there is room again and again (strong fairness,
because Go hands room in a channel to blocked senders in their order). No
browser has to connect, post or go away. `ServeFairSpec` adds the hub, `serve`
and the two goroutines it waits for; neither an interrupt nor a failure has to
happen, but the five-second timer of a shutdown fires if handlers stay active
(`WF(Main)` takes either end of `Shutdown`). `ExampleFairSpec`: every goroutine of the worlds
example is scheduled and its ticks come; the deadline need not. Losers of
`NewWorld`'s swap retry only because another caller won an identity, and the
counter ends.

## Proofs

All of them hold for every value of the constants that the named assumption of
the module admits (`WorldAssumption`, `SchedulerAssumption` and so on); TLC
evaluates each assumption in the runs.

`WorldProofs`: `IInv` is types, `FreeListExact`, `IssuedBounded`,
`StorageCoherent`, finiteness of the issued handles, and `CountIsLive`. Why each
part is needed: swap-removal preserves coherence only of a coherent store of
*live* entities, whose handles are determined by their index (`AliveUnique`);
that a reused slot's handle is new, so that the count grows, needs
`FreeListExact`, and that this survives `Vacate` needs `IssuedBounded`: no issued
handle is ahead of its slot's generation. The operators on storages are lifted
into lemmas (`RemoveSound`, `AddSound`, `ReplaceSound`) that the steps cite.

That `World` implements `EntityMap` (`WorldImplementsEntityMap`) rests on the same
invariant. The lemmas `RemoveLookup`, `AddLookup` and `ReplaceLookup` say what
an operation on a sound store does to the lookup of *any* handle: it changes
for the entity at hand and for no other, the one that swap-removal moves
included. With them `NewEntity` maps to the abstract creation, `Destroy` to the
removal of the entity with all it holds, `Set` and `Remove` to one update of
one entity, and everything else to a stutter. A new handle finds nothing in
any store because coherent stores hold live entities only. The same steps give
`WorldCallsDoWhatTheyName`: the refinement alone admits a step that does the
right thing to the wrong entity, and this theorem does not. It is the one result
without a run beside it: deciding for every step which calls it could be would
triple the time of `world`.

`Query` and `Resources` are treated in the same module. `QInv` adds to `IInv` that the depth is the number of
suspended traversals and that each is `Intact`: its driver is one of the needed
stores, it has called back the matches up to its position, each once, and lent
out the components of the last of them. While a traversal is suspended, stores
only change by replacement (`Frozen`), because every structural action needs
depth 0; that is what keeps the others intact. `QueryDriverReaches` and
`QueryVisitsEachOnce` then follow from `StorageCoherent`. Every step of `Query`
is a step of `World` or leaves its stores alone, so that the entity map is
implemented under suspended traversals too (`QueryImplementsEntityMap`).

`ResourcesInv` adds `Apart` to `ReadersSeeLatest`: the cells of two types present
differ, and a pointer that is still held leads into a present cell only if it
was lent by this installation. Without it a write through an old pointer could
be a write into another resource.

`CommandsProofs`: `CInv` relates each buffer to its history (`Order`: what ran,
what was dropped and what waits are disjoint, make up what was deferred, and
what waits comes after both), each flag to one place on the call stack, and
the query depth to the traversals there.

`SchedulerProofs`: `IInv` has five parts. `Phase` ties the flags, the loop index
and the buffer to the place in the step. `InStep` says that time and deltas are
multiples of the step length. `Progress` says how far each system has run: ahead
of the loop index up to this tick, behind it up to the one before; a system that
is not due has the same quotient in both ticks (`NextMultiple`), so that passing
it over is as good as running it. `Commanded` is `Order` again, over the tick:
systems in turn, each with its `Update` before its operations. From these follow
the type invariant (no overflow), that no fault means whole ticks, that commands
settle between systems, that a step leaves nothing behind, and that each delta
covers the gap.

`EventsProofs`: every ring holds events exactly in the window of `size` slots
from `head` on, modulo its capacity, and zeros elsewhere, and the topic lists
exactly the open subscriptions (`TopicListsOpen`): as safety the refinement would
let a `Publish` fail for ever over a closed one, and this does not. The lemmas on
positions (`Wrap` and the ones after it) show that publishing appends to the
window and reading takes its first element; `EventsImplementBroadcast` is the
refinement: initial states map to initial states, and every step of `Events`
is a step of `Broadcast` or a stutter, under the mapping of a ring to its unread
events.

`PongMatchProofs`: a ball that comes at a side and is not in front of its paddle
any more has been within the paddle's reach at the end of some substep
(`PassedOK`). This needs that a substep is no longer than the reach is deep,
which is the part of `PongMatchAssumption` that stands for the code's numbers,
and that a returned or served ball starts in front of both paddles.

`WorldsProofs`: a loaded value that passed the check does not wrap, and won
identities are below or at the counter, which never falls; any number of
callers, any width of the counter. The worlds example uses the counter by the
allocator's own steps (`ExampleUsesIds`), so its identities are unique as well.
That nil means finished, with the collector holding the snapshot of each
match's last tick, needs `ExampleInv`: the position of a match is the one
its ticks account for wherever it is in a tick (`Played`); a match that cancelled
itself has sent the snapshot of its last tick, and this is the newest one of
that match, in the channel or with the collector (`Reported`, `NewestIn`); the
collector left its loops only when the channel was empty and every match done,
and an error that was reported is still to be read or was returned
(`Collected`).

`RunnerProofs`: `Exclusive` (the flag, its owner, and a timer that is closed
before the flag is released) and `Accounts` (what is overdue, that a fraction
of a step is all that stays between batches, and the sum of steps, dropped time
and backlog), which rests on the first because only one caller uses `Run`'s
locals.

`PongProofs`: the invariant of the hub has three parts, each of which uses those
before it. `CourtInv` is about the members: distinct, seated in the order of the
list, with two seats that agree with the sides and controls that belong to the
player and carry the newest sequence heard. `WithoutAt`, the lemma on closing the
gap, and the lemmas on `Promoted` say what `assignSeats` makes of a list that
lost one member or got one more. `QueueInv` is about what is on its way: a
session that was not admitted is not a member and has at most one join in the
channel (`JoinsAreFresh`), and a join whose handler has gone has that handler's
leave *behind* it (`LeavesFollow`). This order is what `MembersAreAlive` lacks to
be inductive: applying such a join makes a member without a handler, whose
leave must still be in the channel. `SlotInv` says that a waiting snapshot tells
the member's present seat; the action property `BrowsersKnowTheirSeat` follows,
with `Receive` the only step that empties a member's channel.
`ServeInv` adds which of its three events `serve` saw first and what it holds
since (`Shutting`). The server's steps are steps of the hub or leave it alone
(`ServerIsAHub`), so what is proved of the hub holds in the server.

Only model-checked: the liveness properties (`CancelEndsRun`, `NewWorldEnds`,
`RunReturns`, `ServeReturns`, `HandlersReturn`, `InputsNeverStarvePhysics`), since liveness under fairness and `ENABLED` are
beyond the prover. Induction theorems that take an operator as a parameter are
out of reach too. The one place that needs induction, the loop of `assignSeats`
over the members (`Seated`, a recursive function), is unfolded one member at a
time (`NextStage`) and counted up by the well-foundedness of the numbers
(`CountUp`). No module declares a `RECURSIVE` operator. Every invariant and action
property of a passing run is stated by a theorem.

## Findings

`scheduler_cancel`: the comment on `StepContext` (`scheduler.go:148-149`) and
`README.md:162-163` say that cancellation during a tick faults the scheduler. The
code looks at the context only before each system, so a cancellation during the
last due system, or while its commands are flushed, goes unnoticed: the step
returns nil, the tick is complete and the scheduler is not faulted. The
stronger reading is refuted; `NoFaultMeansWholeTicks` states what does hold.

Worth knowing, though no text of the repository says otherwise: in `serve` the
first result that is not nil decides. If the select takes the hub's `Canceled`
after an interrupt, a shutdown that times out or an HTTP failure that happened
at the same time is not reported. `NilMeansInterrupted` says what nil does
guarantee.

## Not modelled

Left out of the modelled components: error wording, `reflect` keys and the type
assertions they guard, argument validation that only returns an error (empty
names, nil systems, nil operations), a panic inside `OnBatch`, the internals of
Go's timers, copies of objects that must not be copied, and use of a world from
two goroutines, which the documentation forbids. Of Pong: JSON, headers, origin
checks and static files, which can only reject a request before it reaches the
hub; session identifiers, which are unique as far as the random source is; the
rally, round and serve counters that are only shown; the angle arithmetic of a
bounce. A send on the actions channel that the select prefers although `done` is
closed too is left out, since nobody reads that channel any more. The hub's
refusal of a browser beyond `MaxClients` is in the model, but no run reaches it.
Of the worlds example: the wall clock, which decides only when ticks come.

The browser client is not modelled: it draws and reads input devices, and what
the server sees of it (posts that are late, reordered, repeated or missing,
streams that break off) is what `PongHub` lets its handlers do. The combat and
economy examples are sequential demonstrations of operations modelled above.
