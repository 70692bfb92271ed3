------------------------------ MODULE Scheduler ------------------------------
(***************************************************************************)
(* One Scheduler (scheduler.go) stepping a world: registration, the tick   *)
(* loop over systems with their intervals, each system's Update, and the   *)
(* flush of its commands operation by operation.  Systems and operations   *)
(* are user code: they may defer, clear, flush, traverse, call Step again, *)
(* return an error or panic; the context may be cancelled at any moment by *)
(* another goroutine.  A call that is rejected changes nothing and is a    *)
(* stuttering step.                                                        *)
(***************************************************************************)
EXTENDS CommandBuffer, FiniteSets

CONSTANTS
  Names,     \* system names
  Intervals, \* arguments offered to Every
  StepLen,   \* the fixed step duration
  MaxTime,   \* the largest Duration: MaxInt64 in the code
  MaxOps     \* bound on operations one Update defers

ASSUME SchedulerAssumption ==
  /\ Intervals \subseteq Nat \ {0}
  /\ StepLen \in Nat \ {0}
  /\ MaxTime \in Nat /\ MaxTime >= StepLen
  /\ MaxOps \in Nat

None == "none"

VARIABLES
  systems,    \* registered systems in execution order
  tick, elapsed, started, stepping,
  failed,     \* the permanent fault, or None
  commands,   \* the scheduler's command buffer
  frame,      \* the Frame lent to the running system, zero outside
  queryDepth, \* world.queryDepth, changed by traversals of user code
  cancelled,  \* whether the context of the step in progress is cancelled
  pc,         \* where the step is: see Places
  at,         \* the loop's system index
  accepted,   \* history of the tick: operations deferred, in order
  discarded,  \* history of the tick: operations dropped without running
  trace,      \* history of the tick: Updates and operations, in order
  lastRun,    \* history: the tick each system last ran in
  runs        \* history: how often each system's Update began

config      == <<systems, started>>
clock       == <<tick, elapsed>>
history     == <<accepted, discarded, trace, lastRun, runs>>
schedVars   == <<systems, tick, elapsed, started, stepping, failed, commands, frame,
                 queryDepth, cancelled, pc, at, accepted, discarded, trace, lastRun, runs>>

\* "idle": the caller's code.  "loop": the top of the system loop.  "update":
\* inside system at's Update.  "flush": inside an operation of the scheduler's
\* own Flush.  "ownflush": inside an operation of a Flush the system called.
Places == {"idle", "loop", "update", "flush", "ownflush"}

Faults == {"cancelled", "system", "command", "panicked", "overflow"}

System == [name : Names, every : Intervals, delta : 0..MaxTime]

\* What a tick does, in its history: an operation, named by the system that
\* deferred it and its number in the tick, or an Update, which has number 0.
Op == [system : Nat, n : Nat]

FrameType == [tick : Nat, time : 0..MaxTime, delta : 0..MaxTime]

ZeroFrame == [tick |-> 0, time |-> 0, delta |-> 0]

IsOp(x) == x.n # 0

UpdateEvent(i) == [system |-> i, n |-> 0]

\* Every variable has its type; in particular simulation time and every delta
\* stay Durations (Add's interval check, StepContext's overflow check).
SchedTypeOK ==
  /\ systems \in Seq(System)
  /\ tick \in Nat /\ elapsed \in 0..MaxTime
  /\ started \in BOOLEAN /\ stepping \in BOOLEAN /\ cancelled \in BOOLEAN
  /\ failed \in Faults \cup {None}
  /\ commands \in Buffer(Op)
  /\ frame \in FrameType
  /\ queryDepth \in 0..1
  /\ pc \in Places
  /\ at \in Nat
  /\ accepted \in Seq(Op) /\ discarded \subseteq Op /\ trace \in Seq(Op)
  /\ lastRun \in Seq(Nat) /\ runs \in Seq(Nat)

SchedInit ==
  /\ systems = <<>> /\ tick = 0 /\ elapsed = 0
  /\ started = FALSE /\ stepping = FALSE /\ failed = None
  /\ commands = EmptyBuffer /\ frame = ZeroFrame
  /\ queryDepth = 0 /\ cancelled = FALSE
  /\ pc = "idle" /\ at = 0
  /\ accepted = <<>> /\ discarded = {} /\ trace = <<>> /\ lastRun = <<>> /\ runs = <<>>

\* User code is running: the only places a call into the scheduler comes from.
UserCode == pc # "loop"

\* Mutant: intervals are counted from the first tick.
DueFromFirst(i) == (tick - 1) % systems[i].every = 0

Due(i) == tick % systems[i].every = 0

-----------------------------------------------------------------------------
(* Registration *)

\* Add: frozen once a step started, unique names, and an interval whose delta
\* fits a Duration.
Add(name, every) ==
  /\ UserCode
  /\ ~started
  /\ \A i \in DOMAIN systems : systems[i].name # name
  /\ every <= MaxTime \div StepLen
  /\ systems' = Append(systems, [name |-> name, every |-> every, delta |-> every * StepLen])
  /\ lastRun' = Append(lastRun, 0)
  /\ runs' = Append(runs, 0)
  /\ UNCHANGED <<clock, started, stepping, failed, commands, frame, queryDepth, cancelled,
                 pc, at, accepted, discarded, trace>>

-----------------------------------------------------------------------------
(* StepContext *)

\* The checks a call passes first, with a context not cancelled so far.
Admitted == UserCode /\ failed = None /\ ~stepping /\ queryDepth = 0

\* Another step would overflow simulation time: a fault before anything runs.
StepOverflow ==
  /\ Admitted
  /\ elapsed > MaxTime - StepLen
  /\ failed' = "overflow"
  /\ UNCHANGED <<config, clock, stepping, commands, frame, queryDepth, cancelled, pc, at, history>>

\* Mutant: simulation time is not checked for overflow.
StepBeginUnchecked ==
  /\ Admitted
  /\ started' = TRUE /\ stepping' = TRUE
  /\ tick' = tick + 1
  /\ elapsed' = elapsed + StepLen
  /\ cancelled' = FALSE
  /\ pc' = "loop" /\ at' = 1
  /\ accepted' = <<>> /\ discarded' = {} /\ trace' = <<>>
  /\ UNCHANGED <<systems, failed, commands, frame, queryDepth, lastRun, runs>>

StepBegin ==
  /\ Admitted
  /\ elapsed <= MaxTime - StepLen
  /\ started' = TRUE /\ stepping' = TRUE
  /\ tick' = tick + 1
  /\ elapsed' = elapsed + StepLen
  /\ cancelled' = FALSE
  /\ pc' = "loop" /\ at' = 1
  /\ accepted' = <<>> /\ discarded' = {} /\ trace' = <<>>
  /\ UNCHANGED <<systems, failed, commands, frame, queryDepth, lastRun, runs>>

\* Mutant: the buffer is not cleared.
ExitUncleared(finished, failure, left) ==
  /\ stepping' = FALSE
  /\ commands' = left
  /\ frame' = ZeroFrame
  /\ failed' = IF ~finished /\ failure = None THEN "panicked" ELSE failure
  /\ pc' = "idle" /\ at' = 0
  /\ UNCHANGED <<config, clock, cancelled>>

\* The deferred function, with the failure the body recorded or None (a body
\* that neither finished nor failed panicked) and the buffer as it leaves it.
Exit(finished, failure, left) ==
  /\ stepping' = FALSE
  /\ commands' = Cleared(left)
  /\ frame' = ZeroFrame
  /\ failed' = IF ~finished /\ failure = None THEN "panicked" ELSE failure
  /\ pc' = "idle" /\ at' = 0
  /\ UNCHANGED <<config, clock, cancelled>>

\* Mutant: cancellation between systems ends the step without a fault.
StopCancelledClean ==
  /\ pc = "loop" /\ at <= Len(systems)
  /\ cancelled
  /\ Exit(TRUE, None, commands)
  /\ UNCHANGED <<queryDepth, history>>

\* The loop's context check, ahead of the interval check.
StopCancelled ==
  /\ pc = "loop" /\ at <= Len(systems)
  /\ cancelled
  /\ Exit(FALSE, "cancelled", commands)
  /\ UNCHANGED <<queryDepth, history>>

SkipSystem ==
  /\ pc = "loop" /\ at <= Len(systems)
  /\ ~cancelled
  /\ ~Due(at)
  /\ at' = at + 1
  /\ UNCHANGED <<config, clock, stepping, failed, commands, frame, queryDepth, cancelled, pc, history>>

UpdateBegin ==
  /\ pc = "loop" /\ at <= Len(systems)
  /\ ~cancelled
  /\ Due(at)
  /\ frame' = [tick |-> tick, time |-> elapsed, delta |-> systems[at].delta]
  /\ pc' = "update"
  /\ trace' = Append(trace, UpdateEvent(at))
  /\ lastRun' = [lastRun EXCEPT ![at] = tick]
  /\ runs' = [runs EXCEPT ![at] = @ + 1]
  /\ UNCHANGED <<config, clock, stepping, failed, commands, queryDepth, cancelled, at, accepted, discarded>>

\* The context is cancelled, by another goroutine or by the running system.
Cancel ==
  /\ stepping
  /\ ~cancelled
  /\ cancelled' = TRUE
  /\ UNCHANGED <<config, clock, stepping, failed, commands, frame, queryDepth, pc, at, history>>

\* After the last system: the step returns nil.
StepFinish ==
  /\ pc = "loop" /\ at > Len(systems)
  /\ Exit(TRUE, None, commands)
  /\ UNCHANGED <<queryDepth, history>>

-----------------------------------------------------------------------------
(* User code inside a step *)

\* Operations the running system has deferred in this tick, and the next
\* operation of the tick.
OwnOps == {op \in ToSet(accepted) : op.system = at}

NextOp == [system |-> at, n |-> Len(accepted) + 1]

\* Defer from Update.  From a running operation it panics (Writable).
SystemDefer ==
  /\ pc \in {"update", "flush", "ownflush"}
  /\ Writable(commands)
  /\ Cardinality(OwnOps) < MaxOps
  /\ commands' = Deferred(commands, NextOp)
  /\ accepted' = Append(accepted, NextOp)
  /\ UNCHANGED <<config, clock, stepping, failed, frame, queryDepth, cancelled, pc, at,
                 discarded, trace, lastRun, runs>>

\* What has not started is dropped.
DiscardWaiting ==
  /\ discarded' = discarded \cup Waiting(commands)
  /\ UNCHANGED <<accepted, trace, lastRun, runs>>

SystemClear ==
  /\ pc = "update"
  /\ Writable(commands)
  /\ commands' = Cleared(commands)
  /\ DiscardWaiting
  /\ UNCHANGED <<config, clock, stepping, failed, frame, queryDepth, cancelled, pc, at>>

\* A traversal begins or ends in user code, an operation's included.
SetDepth(d) ==
  /\ UserCode
  /\ queryDepth = 1 - d
  /\ queryDepth' = d
  /\ UNCHANGED <<config, clock, stepping, failed, commands, frame, cancelled, pc, at, history>>

BeginTraversal == SetDepth(1)
EndTraversal   == SetDepth(0)

\* Flush, by the scheduler or by the system itself, at its first operation.
FlushBegin(place) ==
  /\ commands.pending # <<>>
  /\ commands' = FlushStarted(commands)
  /\ trace' = Append(trace, Head(commands.pending))
  /\ pc' = place
  /\ UNCHANGED <<config, clock, stepping, failed, frame, queryDepth, cancelled, at,
                 accepted, discarded, lastRun, runs>>

SystemFlush ==
  /\ pc = "update"
  /\ Flushable(commands, queryDepth)
  /\ FlushBegin("ownflush")

\* Mutant: the next system starts before the operations are flushed.
UpdateReturnsUnflushed ==
  /\ pc = "update" /\ queryDepth = 0
  /\ pc' = "loop" /\ at' = at + 1
  /\ UNCHANGED <<config, clock, stepping, failed, commands, frame, queryDepth, cancelled, history>>

\* Update returns nil: the scheduler flushes what the system deferred.
UpdateReturns ==
  /\ pc = "update" /\ queryDepth = 0
  /\ FlushBegin("flush")

\* Update returns nil with nothing deferred: on to the next system.
UpdateReturnsEmpty ==
  /\ pc = "update" /\ queryDepth = 0
  /\ commands.pending = <<>>
  /\ pc' = "loop" /\ at' = at + 1
  /\ UNCHANGED <<config, clock, stepping, failed, commands, frame, queryDepth, cancelled, history>>

UpdateFails ==
  /\ pc = "update" /\ queryDepth = 0
  /\ Exit(FALSE, "system", commands)
  /\ DiscardWaiting
  /\ UNCHANGED queryDepth

\* An operation returns nil and the next one starts.
OperationNext ==
  /\ pc \in {"flush", "ownflush"} /\ queryDepth = 0
  /\ MoreToRun(commands)
  /\ commands' = FlushAdvanced(commands)
  /\ trace' = Append(trace, Current(FlushAdvanced(commands)))
  /\ UNCHANGED <<config, clock, stepping, failed, frame, queryDepth, cancelled, pc, at,
                 accepted, discarded, lastRun, runs>>

\* The last operation returns nil: back to the loop, or to the Update that
\* called Flush.
FlushReturns ==
  /\ pc \in {"flush", "ownflush"} /\ queryDepth = 0
  /\ ~MoreToRun(commands)
  /\ commands' = FlushEnded(commands)
  /\ IF pc = "flush" THEN pc' = "loop" /\ at' = at + 1 ELSE pc' = "update" /\ UNCHANGED at
  /\ UNCHANGED <<config, clock, stepping, failed, frame, queryDepth, cancelled, history>>

\* An operation of the scheduler's flush returns an error.
OperationFails ==
  /\ pc = "flush" /\ queryDepth = 0
  /\ Exit(FALSE, "command", FlushEnded(commands))
  /\ DiscardWaiting
  /\ UNCHANGED queryDepth

\* An operation of the system's own flush fails or panics, and Update goes on:
\* what had not run is discarded.
OwnFlushAborts ==
  /\ pc = "ownflush"
  /\ commands' = FlushEnded(commands)
  /\ DiscardWaiting
  /\ pc' = "update"
  /\ queryDepth' = 0
  /\ UNCHANGED <<config, clock, stepping, failed, frame, cancelled, at>>

\* A panic leaves Update or an operation and propagates out of the step; the
\* traversals it crosses restore the depth.
StepPanics ==
  /\ pc \in {"update", "flush", "ownflush"}
  /\ Exit(FALSE, None, IF pc = "update" THEN commands ELSE FlushEnded(commands))
  /\ DiscardWaiting
  /\ queryDepth' = 0

UserReturns == UpdateReturns \/ UpdateReturnsEmpty \/ OperationNext \/ FlushReturns

LoopStep == StopCancelled \/ SkipSystem \/ UpdateBegin \/ StepFinish

SchedNext ==
  \/ \E name \in Names, every \in Intervals : Add(name, every)
  \/ StepOverflow
  \/ StepBegin
  \/ LoopStep
  \/ Cancel
  \/ SystemDefer
  \/ SystemClear
  \/ BeginTraversal
  \/ EndTraversal
  \/ SystemFlush
  \/ UserReturns
  \/ UpdateFails
  \/ OperationFails
  \/ OwnFlushAborts
  \/ StepPanics

SchedSpec == SchedInit /\ [][SchedNext]_schedVars

-----------------------------------------------------------------------------
(* Properties *)

\* A step that has returned without a fault applied whole ticks only: every
\* system ran exactly on its multiples up to the current tick.  So Err() = nil
\* makes the world a valid snapshot, after cancellations, panics and errors.
NoFaultMeansWholeTicks ==
  pc = "idle" /\ failed = None =>
    \A i \in DOMAIN systems : runs[i] = tick \div systems[i].every

\* x comes before y in a tick: systems in their order, each first updated and
\* then its operations in the order they were deferred.
Before(x, y) == x.system < y.system \/ (x.system = y.system /\ x.n < y.n)

\* Between systems, and after a step without a fault, every operation accepted
\* in this tick has run once, in order and before the next system's Update, or
\* was discarded by the system itself (Clear, or a Flush of its own that failed).
CommandsSettled ==
  pc = "loop" \/ (pc = "idle" /\ failed = None) =>
    /\ {x \in ToSet(trace) : IsOp(x)} = ToSet(accepted) \ discarded
    /\ \A k, l \in DOMAIN trace : k < l => Before(trace[k], trace[l])
    /\ commands.pending = <<>>

\* However a step ends, it leaves no operation, no lent frame and no flag that
\* would change what a later step does (StepContext's deferred function).
StepLeavesNothing ==
  pc = "idle" =>
    /\ commands = EmptyBuffer
    /\ frame = ZeroFrame
    /\ ~stepping

\* Each Update is told the time that passed since its system last ran and the
\* end time of its tick, across skipped ticks and rejected steps.
DeltaCoversGap ==
  [][UpdateBegin => /\ frame'.delta = (tick - lastRun[at]) * StepLen
                    /\ frame'.time = tick * StepLen]_schedVars

\* scheduler.go's comment on StepContext: "Cancellation during a tick faults
\* it".  A step whose context was cancelled during a tick that ran a system
\* ends with a fault.
CancelDuringTickFaults ==
  [][stepping /\ ~stepping' /\ cancelled /\ trace # <<>> => failed' # None]_schedVars
=============================================================================
