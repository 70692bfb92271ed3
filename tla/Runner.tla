-------------------------------- MODULE Runner --------------------------------
(***************************************************************************)
(* tick.Runner (tick/runner.go): callers that may all call Run on one      *)
(* Runner, the loop that turns wall time into scheduler steps with bounded *)
(* catch-up, the clock's timer, and the deferred close and release.  Wall  *)
(* time passes and contexts are cancelled at any moment; a step takes time *)
(* and may fault or panic.                                                 *)
(***************************************************************************)
EXTENDS Integers

CONSTANTS
  Callers,    \* goroutines that may call Run
  StepLen,    \* scheduler.StepDuration
  MaxCatchUp, \* Config.MaxCatchUpSteps, defaults applied
  MaxDur,     \* the largest Duration: MaxInt64 in the code
  MaxWall     \* bound on wall time

ASSUME RunnerAssumption ==
  /\ StepLen \in Nat \ {0}
  /\ MaxCatchUp \in Nat \ {0}
  /\ MaxDur \in Nat /\ MaxDur >= StepLen
  /\ MaxWall \in Nat

VARIABLES
  running,   \* Runner.running
  pc,        \* where each caller's Run is: see Places
  cancelled, \* whether each caller's context is cancelled
  wall,      \* what clock.Now returns
  timer,     \* the armed timer's deadline, or NoTimer
  faulted,   \* scheduler.Err() # nil
  previous, backlog,  \* Run's local variables
  steps,     \* stats.Steps of the batch in progress
  start,     \* history: when the current Run took its first reading
  reported,  \* history: the sums of Steps and Dropped over this Run's reports
  lost       \* history: wall time beyond the longest Duration in this Run

runLocals  == <<previous, backlog, steps>>
runHistory == <<start, reported, lost>>
runnerVars == <<running, pc, cancelled, wall, timer, faulted,
                previous, backlog, steps, start, reported, lost>>

NoTimer == -1

\* "out": not in Run.  "claimed": the flag is won.  "top": the loop's context
\* check.  "waiting": in clock.Wait.  "batch": the catch-up loop.  "step":
\* inside StepContext.  "closing" and "releasing": the deferred calls.
Places == {"out", "claimed", "top", "waiting", "batch", "step", "closing", "releasing"}

\* Every variable has its type: the backlog fits a Duration and a batch its
\* limit (Run).
RunnerTypeOK ==
  /\ running \in BOOLEAN /\ faulted \in BOOLEAN
  /\ pc \in [Callers -> Places]
  /\ cancelled \in [Callers -> BOOLEAN]
  /\ wall \in Nat /\ timer \in Nat \cup {NoTimer}
  /\ previous \in Nat /\ backlog \in 0..MaxDur /\ steps \in 0..MaxCatchUp
  /\ start \in Nat /\ lost \in Nat
  /\ reported \in [steps : Nat, dropped : Nat]

RunnerInit ==
  /\ running = FALSE /\ faulted = FALSE
  /\ pc = [c \in Callers |-> "out"]
  /\ cancelled = [c \in Callers |-> FALSE]
  /\ wall = 0 /\ timer = NoTimer
  /\ previous = 0 /\ backlog = 0 /\ steps = 0
  /\ start = 0 /\ lost = 0
  /\ reported = [steps |-> 0, dropped |-> 0]

Goto(c, place) == pc' = [pc EXCEPT ![c] = place]

\* Mutant: the flag is set without being tested.
ClaimUntested(c) ==
  /\ pc[c] = "out"
  /\ running' = TRUE
  /\ \E x \in BOOLEAN : cancelled' = [cancelled EXCEPT ![c] = x]
  /\ Goto(c, "claimed")
  /\ UNCHANGED <<wall, timer, faulted, runLocals, runHistory>>

\* Run with a fresh context wins the flag; a call that loses it returns
\* ErrAlreadyRunning and changes nothing.
Claim(c) ==
  /\ pc[c] = "out"
  /\ ~running
  /\ running' = TRUE
  /\ \E x \in BOOLEAN : cancelled' = [cancelled EXCEPT ![c] = x]
  /\ Goto(c, "claimed")
  /\ UNCHANGED <<wall, timer, faulted, runLocals, runHistory>>

\* A faulted scheduler is refused; otherwise the first clock reading.
Prepare(c) ==
  /\ pc[c] = "claimed"
  /\ IF faulted
     THEN Goto(c, "closing") /\ UNCHANGED <<runLocals, runHistory>>
     ELSE /\ Goto(c, "top")
          /\ previous' = wall /\ backlog' = 0 /\ steps' = 0
          /\ start' = wall /\ lost' = 0
          /\ reported' = [steps |-> 0, dropped |-> 0]
  /\ UNCHANGED <<running, cancelled, wall, timer, faulted>>

TopCancelled(c) ==
  /\ pc[c] = "top" /\ cancelled[c]
  /\ Goto(c, "closing")
  /\ UNCHANGED <<running, cancelled, wall, timer, faulted, runLocals, runHistory>>

ClockBackwards(c) ==
  /\ pc[c] = "top" /\ ~cancelled[c]
  /\ wall < previous
  /\ Goto(c, "closing")
  /\ previous' = wall
  /\ UNCHANGED <<running, cancelled, wall, timer, faulted, backlog, steps, runHistory>>

\* The backlog with the time since the last reading, saturated.
Grown(elapsed) == IF elapsed > MaxDur - backlog THEN MaxDur ELSE backlog + elapsed

\* What of the time since the last reading no Duration can hold.
Excess(elapsed) == IF backlog + elapsed > MaxDur THEN backlog + elapsed - MaxDur ELSE 0

\* One reading of the clock: wait for the rest of a step, or run a batch.
Measure(c) ==
  LET b == Grown(wall - previous)
  IN  /\ pc[c] = "top" /\ ~cancelled[c]
      /\ wall >= previous
      /\ previous' = wall
      /\ backlog' = b
      /\ lost' = lost + Excess(wall - previous)
      /\ IF b < StepLen
         THEN Goto(c, "waiting") /\ timer' = wall + (StepLen - b)
         ELSE Goto(c, "batch") /\ UNCHANGED timer
      /\ UNCHANGED <<running, cancelled, wall, faulted, steps, start, reported>>

\* Mutant: Wait sleeps through a cancellation until its timer fires.
WaitCancelledLate(c) ==
  /\ pc[c] = "waiting" /\ cancelled[c]
  /\ wall >= timer
  /\ Goto(c, "closing")
  /\ UNCHANGED <<running, cancelled, wall, timer, faulted, runLocals, runHistory>>

WaitCancelled(c) ==
  /\ pc[c] = "waiting" /\ cancelled[c]
  /\ Goto(c, "closing")
  /\ UNCHANGED <<running, cancelled, wall, timer, faulted, runLocals, runHistory>>

WaitFired(c) ==
  /\ pc[c] = "waiting"
  /\ timer # NoTimer /\ wall >= timer
  /\ Goto(c, "top")
  /\ UNCHANGED <<running, cancelled, wall, timer, faulted, runLocals, runHistory>>

CatchUp == backlog >= StepLen /\ steps < MaxCatchUp

\* The report of the batch in progress.
Report(dropped) ==
  /\ reported' = [steps |-> reported.steps + steps, dropped |-> reported.dropped + dropped]
  /\ steps' = 0

StepStart(c) ==
  /\ pc[c] = "batch" /\ CatchUp
  /\ ~cancelled[c] /\ ~faulted
  /\ Goto(c, "step")
  /\ UNCHANGED <<running, cancelled, wall, timer, faulted, runLocals, runHistory>>

\* StepContext refuses without a fault, a cancelled context or a Run that was
\* called from inside a query or a step: the failed batch is reported.
StepRefused(c) ==
  /\ pc[c] = "batch" /\ CatchUp
  /\ Report(0)
  /\ Goto(c, "closing")
  /\ UNCHANGED <<running, cancelled, wall, timer, faulted, previous, backlog, start, lost>>

StepDone(c) ==
  /\ pc[c] = "step"
  /\ backlog' = backlog - StepLen
  /\ steps' = steps + 1
  /\ Goto(c, "batch")
  /\ UNCHANGED <<running, cancelled, wall, timer, faulted, previous, runHistory>>

\* A system or command error, overflow, or cancellation between systems.
StepFault(c) ==
  /\ pc[c] = "step"
  /\ faulted' = TRUE
  /\ Report(0)
  /\ Goto(c, "closing")
  /\ UNCHANGED <<running, cancelled, wall, timer, previous, backlog, start, lost>>

\* A panic faults the scheduler and leaves Run without a report.
StepPanic(c) ==
  /\ pc[c] = "step"
  /\ faulted' = TRUE
  /\ Goto(c, "closing")
  /\ UNCHANGED <<running, cancelled, wall, timer, runLocals, runHistory>>

\* Mutant: the fraction of a step is dropped and kept.
BatchEndDropsFraction(c) ==
  /\ pc[c] = "batch" /\ ~CatchUp
  /\ Report(backlog)
  /\ backlog' = backlog % StepLen
  /\ Goto(c, "top")
  /\ UNCHANGED <<running, cancelled, wall, timer, faulted, previous, start, lost>>

\* Mutant: overdue steps stay in the backlog.
BatchEndKeepsDebt(c) ==
  /\ pc[c] = "batch" /\ ~CatchUp
  /\ Report(0)
  /\ Goto(c, "top")
  /\ UNCHANGED <<running, cancelled, wall, timer, faulted, previous, backlog, start, lost>>

\* The catch-up limit or the backlog is reached: whole overdue steps are
\* dropped and the fraction is kept.
BatchEnd(c) ==
  /\ pc[c] = "batch" /\ ~CatchUp
  /\ Report((backlog \div StepLen) * StepLen)
  /\ backlog' = backlog % StepLen
  /\ Goto(c, "top")
  /\ UNCHANGED <<running, cancelled, wall, timer, faulted, previous, start, lost>>

\* Mutant: the timer is not stopped.
CloseClockForgotten(c) ==
  /\ pc[c] = "closing"
  /\ Goto(c, "releasing")
  /\ UNCHANGED <<running, cancelled, wall, timer, faulted, runLocals, runHistory>>

\* Deferred, in this order: clock.Close stops the timer, then the flag is
\* released.
CloseClock(c) ==
  /\ pc[c] = "closing"
  /\ timer' = NoTimer
  /\ Goto(c, "releasing")
  /\ UNCHANGED <<running, cancelled, wall, faulted, runLocals, runHistory>>

Release(c) ==
  /\ pc[c] = "releasing"
  /\ running' = FALSE
  /\ Goto(c, "out")
  /\ UNCHANGED <<cancelled, wall, timer, faulted, runLocals, runHistory>>

Cancel(c) ==
  /\ pc[c] # "out" /\ ~cancelled[c]
  /\ cancelled' = [cancelled EXCEPT ![c] = TRUE]
  /\ UNCHANGED <<running, pc, wall, timer, faulted, runLocals, runHistory>>

\* The clock reads a later time, or (a test's clock) an earlier one.
Clock ==
  /\ wall' \in {wall - 1, wall + 1, wall + 2 * StepLen} \cap (0..MaxWall)
  /\ UNCHANGED <<running, pc, cancelled, timer, faulted, runLocals, runHistory>>

\* What Run's own goroutine does next.
RunStep(c) ==
  \/ Prepare(c) \/ TopCancelled(c) \/ ClockBackwards(c) \/ Measure(c)
  \/ WaitCancelled(c)
  \/ StepStart(c) \/ StepRefused(c) \/ BatchEnd(c)
  \/ CloseClock(c) \/ Release(c)

StepReturns(c) == StepDone(c) \/ StepFault(c) \/ StepPanic(c)

RunnerNext ==
  \/ \E c \in Callers : Claim(c) \/ RunStep(c) \/ WaitFired(c) \/ StepReturns(c) \/ Cancel(c)
  \/ Clock

RunnerSpec == RunnerInit /\ [][RunnerNext]_runnerVars

\* Goroutines in Run are scheduled and steps return; nothing obliges the
\* clock to advance or a context to be cancelled.
RunnerFairSpec ==
  /\ RunnerSpec
  /\ \A c \in Callers : WF_runnerVars(RunStep(c)) /\ WF_runnerVars(StepReturns(c))

-----------------------------------------------------------------------------
(* Properties *)

Owner(c) == pc[c] # "out"

\* At most one Run is active, and the flag says exactly when: a second caller
\* is never admitted and none is refused for ever after a panic or an error.
OneRun ==
  /\ \A c, d \in Callers : Owner(c) /\ Owner(d) => c = d
  /\ running = (\E c \in Callers : Owner(c))

\* A waiting Run has its own timer armed: no earlier Run's clock.Close can
\* stop it (the order of the deferred calls), and none stays armed when
\* nobody runs.
TimerIsOwned ==
  /\ \A c \in Callers : pc[c] = "waiting" => timer # NoTimer
  /\ ~running => timer = NoTimer

\* The owner has taken its first reading and not begun to leave.
InLoop == \E c \in Callers : pc[c] \in {"top", "waiting", "batch", "step"}

\* Wall time is conserved: what passed since Run began is the steps run and
\* the time dropped, as OnBatch was told, plus the batch in progress and the
\* backlog.  Only what exceeds the longest Duration is lost ("Saturate only at
\* the duration representation's limit", Run).
WallTimeConserved ==
  InLoop =>
    previous - start = (reported.steps + steps) * StepLen + reported.dropped + backlog + lost

\* No debt outlives its batch: between batches less than one step is overdue,
\* whatever time the steps themselves took.
NoDebtBetweenBatches ==
  \A c \in Callers :
    pc[c] \in {"top", "waiting"} => backlog < StepLen /\ steps = 0

\* A Run whose context is cancelled returns, also out of a wait whose timer
\* would never fire.
CancelEndsRun ==
  \A c \in Callers : Owner(c) /\ cancelled[c] ~> ~Owner(c)
=============================================================================
