---------------------------- MODULE WorldsExample ----------------------------
(***************************************************************************)
(* The worlds example (examples/worlds/main.go): one goroutine per match,  *)
(* each with a world and a runner of its own, hands snapshots to a         *)
(* collector through one bounded channel, cancels itself in its last tick  *)
(* and reports its error; a deadline may cancel them all.  The worlds get  *)
(* their identities from WorldIDs, where other goroutines compete.         *)
(***************************************************************************)
EXTENDS WorldIDs

CONSTANTS
  Matches,    \* the matches: 20 Hz and 60 Hz in the code
  FinalTick,  \* hz/5 of each match
  Speed,      \* the one input of each match
  OutputCap,  \* cap(snapshots): 128 in the code
  None        \* nil, and a context that is not cancelled

ASSUME WorldsAssumption ==
  /\ Matches \subseteq Callers /\ IsFiniteSet(Matches)
  /\ FinalTick \in [Matches -> Nat \ {0}] /\ OutputCap \in Nat \ {0} /\ Speed \in Nat \ {0}
  /\ None \notin {"canceled", "deadline"}

VARIABLES
  at,          \* where each match is: see MatchPlaces
  tick,        \* each scheduler's tick
  inputs,      \* inputs left in the channel of each match
  velocity, position,  \* the components of each match's player, in input speeds and ticks
  ctxErr,      \* ctx.Err() of each match
  matchErr,    \* what runMatch returns, once it does
  snapshots,   \* the channel of snapshots
  errorsOut,   \* the channel of errors, with room for every match
  closer,      \* the goroutine that waits for the workers
  latest,      \* the newest snapshot of each match
  collector,   \* where run is: see CollectorPlaces
  result,      \* what run returns
  crashed      \* a panic ended the process

worldVars == <<velocity, position, inputs>>
matchVars == <<at, tick, worldVars, ctxErr, matchErr>>
runVars == <<closer, latest, collector, result, crashed>>
exampleVars == <<idVars, matchVars, snapshots, errorsOut, runVars>>

\* "world": in NewWorld.  "between": in Run, between ticks.  Then the
\* systems; "report": runMatch returned.  "done": after workers.Done.
MatchPlaces == {"start", "world", "between", "inputs", "movement", "output", "finish", "report", "done"}
CollectorPlaces == {"snapshots", "errors", "returned"}

ExampleInit ==
  /\ IdsInit
  /\ at = [m \in Matches |-> "start"]
  /\ tick = [m \in Matches |-> 0] /\ inputs = [m \in Matches |-> 1]
  /\ velocity = [m \in Matches |-> 0] /\ position = velocity
  /\ ctxErr = [m \in Matches |-> None] /\ matchErr = ctxErr
  /\ snapshots = <<>> /\ errorsOut = <<>> /\ closer = "waiting"
  /\ latest = [m \in Matches |-> None] /\ collector = "snapshots"
  /\ result = None /\ crashed = FALSE

MatchGoes(m, place) == at' = [at EXCEPT ![m] = place]

-----------------------------------------------------------------------------
(* The matches *)

\* runMatch calls NewWorld first and once; others any number of times.
CallNewWorld(c) ==
  /\ Call(c)
  /\ IF c \in Matches THEN at[c] = "start" /\ MatchGoes(c, "world") ELSE UNCHANGED at
  /\ UNCHANGED <<tick, worldVars, ctxErr, matchErr, snapshots, errorsOut, runVars>>

\* A match goes on with the world it got; a call that panics ends the process.
InNewWorld(c) ==
  /\ NewWorld(c)
  /\ IF c \in Matches /\ worlds' # worlds THEN MatchGoes(c, "between") ELSE UNCHANGED at
  /\ crashed' = (pc[c] = "load" /\ pc'[c] = "out")
  /\ UNCHANGED <<tick, worldVars, ctxErr, matchErr, snapshots, errorsOut, closer, latest, collector, result>>

\* runMatch returns what Run returned, and nothing for its own cancellation.
Ended(m) ==
  /\ MatchGoes(m, "report")
  /\ matchErr' = [matchErr EXCEPT ![m] = IF ctxErr[m] = "canceled" THEN None ELSE ctxErr[m]]
  /\ UNCHANGED <<idVars, tick, worldVars, ctxErr, snapshots, errorsOut, runVars>>

\* The context is looked at between ticks and before each system.
NoticeCancelled(m) ==
  /\ at[m] \in {"between", "inputs", "movement", "output", "finish"} /\ ctxErr[m] # None
  /\ Ended(m)

Runs(m, place) == at[m] = place /\ ctxErr[m] = None

TickBegins(m) ==
  /\ Runs(m, "between")
  /\ tick' = [tick EXCEPT ![m] = @ + 1]
  /\ MatchGoes(m, "inputs")
  /\ UNCHANGED <<idVars, worldVars, ctxErr, matchErr, snapshots, errorsOut, runVars>>

\* The system "inputs" takes what the closed channel still holds.
TakeInputs(m) ==
  /\ Runs(m, "inputs")
  /\ inputs' = [inputs EXCEPT ![m] = 0]
  /\ velocity' = IF inputs[m] = 0 THEN velocity ELSE [velocity EXCEPT ![m] = Speed]
  /\ MatchGoes(m, "movement")
  /\ UNCHANGED <<idVars, tick, position, ctxErr, matchErr, snapshots, errorsOut, runVars>>

Move(m) ==
  /\ Runs(m, "movement")
  /\ position' = [position EXCEPT ![m] = @ + velocity[m]]
  /\ MatchGoes(m, "output")
  /\ UNCHANGED <<idVars, tick, velocity, inputs, ctxErr, matchErr, snapshots, errorsOut, runVars>>

\* Mutant: a full channel loses the snapshot instead of blocking.
OutputOrDrop(m) ==
  /\ at[m] = "output"
  /\ snapshots' = IF Len(snapshots) < OutputCap
                  THEN Append(snapshots, [match |-> m, tick |-> tick[m], x |-> position[m]])
                  ELSE snapshots
  /\ MatchGoes(m, "finish")
  /\ UNCHANGED <<idVars, tick, worldVars, ctxErr, matchErr, errorsOut, runVars>>

\* The select of the system "output": it blocks while the channel is full, until
\* the context is cancelled; when both are possible, either (NoticeCancelled).
Output(m) ==
  /\ at[m] = "output" /\ Len(snapshots) < OutputCap
  /\ snapshots' = Append(snapshots, [match |-> m, tick |-> tick[m], x |-> position[m]])
  /\ MatchGoes(m, "finish")
  /\ UNCHANGED <<idVars, tick, worldVars, ctxErr, matchErr, errorsOut, runVars>>

\* The system "finish" cancels the match's own context; a context keeps its first error.
Finish(m) ==
  /\ Runs(m, "finish")
  /\ ctxErr' = IF tick[m] >= FinalTick[m] THEN [ctxErr EXCEPT ![m] = "canceled"] ELSE ctxErr
  /\ MatchGoes(m, "between")
  /\ UNCHANGED <<idVars, tick, worldVars, matchErr, snapshots, errorsOut, runVars>>

\* Mutant: nobody may send on errorsOut before it is received from.
ReportUnbuffered(m) ==
  /\ at[m] = "report" /\ collector = "errors"
  /\ errorsOut' = Append(errorsOut, matchErr[m])
  /\ MatchGoes(m, "done")
  /\ UNCHANGED <<idVars, tick, worldVars, ctxErr, matchErr, snapshots, runVars>>

\* The send on errorsOut, which has room for all, and the deferred Done.
Report(m) ==
  /\ at[m] = "report" /\ Len(errorsOut) < Cardinality(Matches)
  /\ errorsOut' = Append(errorsOut, matchErr[m])
  /\ MatchGoes(m, "done")
  /\ UNCHANGED <<idVars, tick, worldVars, ctxErr, matchErr, snapshots, runVars>>

MatchStep(m) == TickBegins(m) \/ TakeInputs(m) \/ Move(m) \/ Output(m) \/ Finish(m)
                \/ NoticeCancelled(m) \/ Report(m)

-----------------------------------------------------------------------------
(* run *)

\* Three seconds are over.
Deadline ==
  /\ collector # "returned"
  /\ ctxErr' = [m \in Matches |-> IF ctxErr[m] = None THEN "deadline" ELSE ctxErr[m]]
  /\ UNCHANGED <<idVars, at, tick, worldVars, matchErr, snapshots, errorsOut, runVars>>

\* After workers.Wait both channels are closed, snapshots first.
CloseChannels ==
  /\ \/ closer = "waiting" /\ (\A m \in Matches : at[m] = "done") /\ closer' = "closing"
     \/ closer = "closing" /\ closer' = "closed"
  /\ UNCHANGED <<idVars, matchVars, snapshots, errorsOut, latest, collector, result, crashed>>

Collect ==
  /\ collector = "snapshots" /\ snapshots # <<>>
  /\ latest' = [latest EXCEPT ![Head(snapshots).match] = Head(snapshots)]
  /\ snapshots' = Tail(snapshots)
  /\ UNCHANGED <<idVars, matchVars, errorsOut, closer, collector, result, crashed>>

CollectEnds ==
  /\ collector = "snapshots" /\ snapshots = <<>> /\ closer # "waiting"
  /\ collector' = "errors"
  /\ UNCHANGED <<idVars, matchVars, snapshots, errorsOut, closer, latest, result, crashed>>

\* The first error, or none, is what run returns.
TakeError ==
  /\ collector = "errors" /\ errorsOut # <<>>
  /\ errorsOut' = Tail(errorsOut)
  /\ result' = Head(errorsOut)
  /\ collector' = IF result' = None THEN "errors" ELSE "returned"
  /\ UNCHANGED <<idVars, matchVars, snapshots, closer, latest, crashed>>

ErrorsEnd ==
  /\ collector = "errors" /\ errorsOut = <<>> /\ closer = "closed"
  /\ collector' = "returned"
  /\ UNCHANGED <<idVars, matchVars, snapshots, errorsOut, closer, latest, result, crashed>>

RunStep == CloseChannels \/ Collect \/ CollectEnds \/ TakeError \/ ErrorsEnd

ExampleNext == ~crashed /\
  \/ \E c \in Callers : CallNewWorld(c) \/ InNewWorld(c)
  \/ \E m \in Matches : MatchStep(m)
  \/ Deadline
  \/ RunStep

ExampleSpec == ExampleInit /\ [][ExampleNext]_exampleVars

\* Every goroutine is scheduled and ticks come; the deadline need not.
ExampleFairSpec ==
  /\ ExampleSpec
  /\ \A c \in Callers : WF_exampleVars(~crashed /\ InNewWorld(c))
  /\ \A m \in Matches : WF_exampleVars(~crashed /\ (MatchStep(m) \/ CallNewWorld(m)))
  /\ WF_exampleVars(~crashed /\ RunStep)

-----------------------------------------------------------------------------
(* Properties *)

\* If run returns nil, the newest snapshot it collected of each match is that of
\* the match's last tick, and the input moved the player in every tick: neither
\* a match that was cut off nor a snapshot that was lost goes unreported.
NilMeansFinished == collector = "returned" /\ result = None =>
  \A m \in Matches :
    latest[m] = [match |-> m, tick |-> FinalTick[m], x |-> FinalTick[m] * Speed]

\* Each call of NewWorld returns, unless a panic ends the process: a caller loses
\* the race only to one that wins an identity, and there are finitely many.
NewWorldEnds == \A c \in Callers : pc[c] # "out" ~> pc[c] = "out" \/ crashed

\* run returns, unless a panic ends the process: the matches that block on the
\* channel of snapshots, the goroutine that waits for them, and the collector
\* that waits for both do not wait for each other in a circle.
RunReturns == <>(crashed \/ collector = "returned")
=============================================================================
