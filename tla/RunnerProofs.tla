---------------------------- MODULE RunnerProofs -----------------------------
(***************************************************************************)
(* One active Run, a timer nobody else can stop, and the accounting of     *)
(* wall time, for any number of callers, step length, catch-up limit and   *)
(* clock.                                                                  *)
(***************************************************************************)
EXTENDS Runner, TLAPS

\* A step is only started for a full step of backlog under the limit.
StepsAreDue == \A c \in Callers : pc[c] = "step" => CatchUp

\* The deferred Close has run before the flag is released.
ClosedBeforeRelease == \A c \in Callers : pc[c] = "releasing" => timer = NoTimer

Exclusive == OneRun /\ TimerIsOwned /\ ClosedBeforeRelease

Accounts == StepsAreDue /\ NoDebtBetweenBatches /\ WallTimeConserved

IInv == RunnerTypeOK /\ Exclusive /\ Accounts

-----------------------------------------------------------------------------
(* Arithmetic *)

\* Whole steps and the fraction add up to the backlog.
LEMMA DivMod ==
  ASSUME NEW b \in Nat
  PROVE  /\ (b \div StepLen) \in Nat
         /\ b % StepLen \in Nat
         /\ b % StepLen < StepLen
         /\ b % StepLen <= b
         /\ (b \div StepLen) * StepLen \in Nat
         /\ (b \div StepLen) * StepLen + (b % StepLen) = b
<1>1. StepLen \in Nat /\ StepLen > 0
  BY RunnerAssumption
<1>2. b % StepLen \in Nat /\ b % StepLen < StepLen
  BY <1>1, Z3
<1>3. (b \div StepLen) \in Nat
  BY <1>1, Z3
<1>4. b = StepLen * (b \div StepLen) + (b % StepLen)
  BY <1>1, Z3
<1>5. StepLen * (b \div StepLen) = (b \div StepLen) * StepLen
  BY <1>1, <1>3
<1>6. (b \div StepLen) * StepLen \in Nat
  BY <1>1, <1>3
<1> QED
  BY <1>1, <1>2, <1>3, <1>4, <1>5, <1>6

\* One more step is one more step length.
LEMMA OneMore ==
  ASSUME NEW m \in Nat, NEW n \in Nat
  PROVE  /\ (m + (n + 1)) * StepLen = (m + n) * StepLen + StepLen
         /\ (m + n) * StepLen \in Nat
         /\ ((m + n) + 0) * StepLen = (m + n) * StepLen
  BY RunnerAssumption, Z3

\* Saturation loses exactly what does not fit.
LEMMA GrownProps ==
  ASSUME RunnerTypeOK, NEW e \in Nat
  PROVE  /\ Grown(e) \in 0..MaxDur
         /\ Excess(e) \in Nat /\ Excess(e) = backlog + e - Grown(e)
  BY RunnerAssumption DEF RunnerTypeOK, Grown, Excess

-----------------------------------------------------------------------------
(* Exclusive *)

\* Moves of one caller inside Run that leave the flag and the timer alone.
LEMMA MoveExclusive ==
  ASSUME IInv, NEW c \in Callers, NEW p \in Places \ {"out", "waiting", "releasing"},
         pc[c] # "out", pc' = [pc EXCEPT ![c] = p], UNCHANGED <<running, timer>>
  PROVE  Exclusive'
  BY DEF IInv, Exclusive, OneRun, Owner, TimerIsOwned, ClosedBeforeRelease, RunnerTypeOK

LEMMA StayExclusive ==
  ASSUME IInv, UNCHANGED <<pc, running, timer>> PROVE Exclusive'
  BY DEF IInv, Exclusive, OneRun, Owner, TimerIsOwned, ClosedBeforeRelease

LEMMA ClaimExclusive ==
  ASSUME IInv, NEW c \in Callers, Claim(c) PROVE Exclusive'
  BY DEF IInv, Exclusive, OneRun, Owner, TimerIsOwned, ClosedBeforeRelease, RunnerTypeOK,
         Claim, Goto

LEMMA CloseExclusive ==
  ASSUME IInv, NEW c \in Callers, CloseClock(c) PROVE Exclusive'
  BY DEF IInv, Exclusive, OneRun, Owner, TimerIsOwned, ClosedBeforeRelease, RunnerTypeOK,
         CloseClock, Goto

LEMMA ReleaseExclusive ==
  ASSUME IInv, NEW c \in Callers, Release(c) PROVE Exclusive'
  BY DEF IInv, Exclusive, OneRun, Owner, TimerIsOwned, ClosedBeforeRelease, RunnerTypeOK,
         Release, Goto

\* Arming the timer: only the waiting caller's Run is active.
LEMMA MeasureExclusive ==
  ASSUME IInv, NEW c \in Callers, Measure(c) PROVE Exclusive'
<1> DEFINE b == Grown(wall - previous)
<1>1. wall \in Nat /\ StepLen \in Nat /\ b \in 0..MaxDur /\ MaxDur \in Nat
  BY GrownProps, RunnerAssumption DEF IInv, RunnerTypeOK, Measure
<1>2. pc[c] = "top" /\ UNCHANGED running
  BY DEF Measure
<1> HIDE DEF b
<1>3. CASE b < StepLen
  <2>1. timer' # NoTimer /\ pc' = [pc EXCEPT ![c] = "waiting"]
    BY <1>1, <1>3 DEF Measure, Goto, NoTimer, b
  <2> QED
    BY <1>2, <2>1 DEF IInv, Exclusive, OneRun, Owner, TimerIsOwned, ClosedBeforeRelease, RunnerTypeOK
<1>4. CASE ~(b < StepLen)
  BY <1>2, <1>4, MoveExclusive DEF Measure, Goto, Places, b
<1> QED
  BY <1>3, <1>4

-----------------------------------------------------------------------------
(* Accounts *)

\* Nobody but the owner is in Run.
LEMMA OthersOut ==
  ASSUME IInv, NEW c \in Callers, pc[c] # "out", NEW d \in Callers \ {c}
  PROVE  pc[d] = "out"
  BY DEF IInv, Exclusive, OneRun, Owner

\* Leaving the loop settles the accounts of nobody.
LEMMA LeaveAccounts ==
  ASSUME IInv, NEW c \in Callers, pc[c] # "out",
         NEW p \in {"closing", "releasing", "out", "claimed"}, pc' = [pc EXCEPT ![c] = p]
  PROVE  Accounts'
<1>1. \A d \in Callers : pc'[d] \notin {"top", "waiting", "batch", "step"}
  BY OthersOut DEF IInv, RunnerTypeOK
<1> QED
  BY <1>1 DEF Accounts, StepsAreDue, NoDebtBetweenBatches, WallTimeConserved, InLoop

LEMMA StayAccounts ==
  ASSUME IInv, UNCHANGED <<pc, runLocals, runHistory>> PROVE Accounts'
  BY DEF IInv, Accounts, StepsAreDue, CatchUp, NoDebtBetweenBatches, WallTimeConserved, InLoop,
         runLocals, runHistory

LEMMA ClaimAccounts ==
  ASSUME IInv, NEW c \in Callers, Claim(c) PROVE Accounts'
<1>1. \A d \in Callers : pc'[d] \notin {"top", "waiting", "batch", "step"}
  BY DEF IInv, RunnerTypeOK, Exclusive, OneRun, Owner, Claim, Goto
<1> QED
  BY <1>1 DEF Accounts, StepsAreDue, NoDebtBetweenBatches, WallTimeConserved, InLoop

LEMMA PrepareAccounts ==
  ASSUME IInv, NEW c \in Callers, Prepare(c) PROVE Accounts'
<1>1. CASE faulted
  BY <1>1, LeaveAccounts DEF Prepare, Goto
<1>2. CASE ~faulted
  <2>1. /\ \A d \in Callers : d # c => pc'[d] = "out"
        /\ pc'[c] = "top"
    BY <1>2, OthersOut DEF Prepare, Goto, IInv, RunnerTypeOK
  <2>2. /\ previous' = wall /\ backlog' = 0 /\ steps' = 0 /\ start' = wall /\ lost' = 0
        /\ reported'.steps = 0 /\ reported'.dropped = 0
    BY <1>2 DEF Prepare
  <2>3. wall \in Nat /\ StepLen \in Nat /\ StepLen > 0
    BY RunnerAssumption DEF IInv, RunnerTypeOK
  <2>4. StepsAreDue' /\ NoDebtBetweenBatches'
    BY <2>1, <2>2, <2>3 DEF StepsAreDue, NoDebtBetweenBatches
  <2>5. WallTimeConserved'
    BY <2>2, <2>3 DEF WallTimeConserved
  <2> QED
    BY <2>4, <2>5 DEF Accounts
<1> QED
  BY <1>1, <1>2

LEMMA WaitFiredAccounts ==
  ASSUME IInv, NEW c \in Callers, WaitFired(c) PROVE Accounts'
<1>1. /\ \A d \in Callers : d # c => pc'[d] = "out"
      /\ pc[c] = "waiting" /\ pc'[c] = "top"
      /\ UNCHANGED <<runLocals, runHistory>>
  BY OthersOut DEF WaitFired, Goto, IInv, RunnerTypeOK
<1>2. InLoop
  BY <1>1 DEF InLoop
<1> QED
  BY <1>1, <1>2 DEF IInv, Accounts, StepsAreDue, NoDebtBetweenBatches, WallTimeConserved,
                    runLocals, runHistory

LEMMA StepStartAccounts ==
  ASSUME IInv, NEW c \in Callers, StepStart(c) PROVE Accounts'
<1>1. /\ \A d \in Callers : d # c => pc'[d] = "out"
      /\ pc[c] = "batch" /\ pc'[c] = "step" /\ CatchUp
      /\ UNCHANGED <<runLocals, runHistory>>
  BY OthersOut DEF StepStart, Goto, IInv, RunnerTypeOK
<1>2. InLoop
  BY <1>1 DEF InLoop
<1> QED
  BY <1>1, <1>2 DEF IInv, Accounts, StepsAreDue, CatchUp, NoDebtBetweenBatches,
                    WallTimeConserved, runLocals, runHistory

LEMMA MeasureAccounts ==
  ASSUME IInv, NEW c \in Callers, Measure(c) PROVE Accounts'
<1> DEFINE b == Grown(wall - previous)
<1>1. /\ wall \in Nat /\ previous \in Nat /\ wall - previous \in Nat
      /\ StepLen \in Nat /\ start \in Nat /\ backlog \in Nat /\ lost \in Nat
      /\ reported.steps \in Nat /\ reported.dropped \in Nat /\ steps \in Nat
      /\ b \in Nat
  BY GrownProps, RunnerAssumption DEF IInv, RunnerTypeOK, Measure
<1>2. /\ previous' = wall /\ backlog' = b
      /\ lost' = lost + (backlog + (wall - previous) - b)
      /\ UNCHANGED <<steps, start, reported>>
      /\ pc[c] = "top"
  BY GrownProps DEF IInv, RunnerTypeOK, Measure
<1>3. pc' = [pc EXCEPT ![c] = IF b < StepLen THEN "waiting" ELSE "batch"]
  BY DEF Measure, Goto
<1> HIDE DEF b
<1>4. /\ \A d \in Callers : d # c => pc'[d] = "out"
      /\ pc'[c] = IF b < StepLen THEN "waiting" ELSE "batch"
  BY <1>2, <1>3, OthersOut DEF IInv, RunnerTypeOK
<1>5. steps = 0
  BY <1>2 DEF IInv, Accounts, NoDebtBetweenBatches
<1>6. StepsAreDue' /\ NoDebtBetweenBatches'
  BY <1>2, <1>4, <1>5 DEF StepsAreDue, NoDebtBetweenBatches
<1>7. WallTimeConserved'
  <2>1. previous - start = (reported.steps + steps) * StepLen + reported.dropped + backlog + lost
    BY <1>2 DEF IInv, Accounts, WallTimeConserved, InLoop
  <2> DEFINE ran == (reported.steps + steps) * StepLen
  <2>2. ran \in Nat
    BY <1>1, OneMore
  <2>3. (reported'.steps + steps') * StepLen = ran
    BY <1>2
  <2> HIDE DEF ran
  <2>4. previous - start = ran + reported.dropped + backlog + lost
    BY <2>1 DEF ran
  <2>5. previous' - start' = ran + reported'.dropped + backlog' + lost'
    BY <1>1, <1>2, <2>2, <2>4
  <2> QED
    BY <2>3, <2>5 DEF WallTimeConserved
<1> QED
  BY <1>6, <1>7 DEF Accounts

LEMMA StepDoneAccounts ==
  ASSUME IInv, NEW c \in Callers, StepDone(c) PROVE Accounts'
<1>1. /\ \A d \in Callers : d # c => pc'[d] = "out"
      /\ pc[c] = "step" /\ pc'[c] = "batch"
      /\ backlog' = backlog - StepLen /\ steps' = steps + 1
      /\ UNCHANGED <<previous, start, reported, lost>>
  BY OthersOut DEF StepDone, Goto, IInv, RunnerTypeOK, runHistory
<1>2. StepsAreDue' /\ NoDebtBetweenBatches'
  BY <1>1 DEF StepsAreDue, NoDebtBetweenBatches
<1>3. WallTimeConserved'
  <2>1. previous - start = (reported.steps + steps) * StepLen + reported.dropped + backlog + lost
    BY <1>1 DEF IInv, Accounts, WallTimeConserved, InLoop
  <2>2. /\ reported.steps \in Nat /\ steps \in Nat /\ StepLen \in Nat /\ reported.dropped \in Nat
        /\ backlog \in Nat /\ lost \in Nat
    BY RunnerAssumption DEF IInv, RunnerTypeOK
  <2>3. /\ (reported.steps + (steps + 1)) * StepLen = (reported.steps + steps) * StepLen + StepLen
        /\ (reported.steps + steps) * StepLen \in Nat
    BY <2>2, OneMore
  <2> QED
    BY <1>1, <2>1, <2>2, <2>3 DEF WallTimeConserved
<1> QED
  BY <1>2, <1>3 DEF Accounts

LEMMA BatchEndAccounts ==
  ASSUME IInv, NEW c \in Callers, BatchEnd(c) PROVE Accounts'
<1> DEFINE whole == (backlog \div StepLen) * StepLen
           rest  == backlog % StepLen
<1>1. /\ \A d \in Callers : d # c => pc'[d] = "out"
      /\ pc[c] = "batch" /\ pc'[c] = "top"
      /\ backlog' = rest /\ steps' = 0
      /\ reported'.steps = reported.steps + steps
      /\ reported'.dropped = reported.dropped + whole
      /\ UNCHANGED <<previous, start, lost>>
  BY OthersOut DEF BatchEnd, Report, Goto, IInv, RunnerTypeOK
<1>2. whole \in Nat /\ rest \in Nat /\ rest < StepLen /\ whole + rest = backlog
  BY DivMod, RunnerAssumption DEF IInv, RunnerTypeOK
<1> HIDE DEF whole, rest
<1>3. StepsAreDue' /\ NoDebtBetweenBatches'
  BY <1>1, <1>2 DEF StepsAreDue, NoDebtBetweenBatches
<1>4. WallTimeConserved'
  <2>1. previous - start = (reported.steps + steps) * StepLen + reported.dropped + backlog + lost
    BY <1>1 DEF IInv, Accounts, WallTimeConserved, InLoop
  <2>2. /\ reported.steps \in Nat /\ steps \in Nat /\ StepLen \in Nat /\ reported.dropped \in Nat
        /\ backlog \in Nat /\ lost \in Nat
    BY RunnerAssumption DEF IInv, RunnerTypeOK
  <2> DEFINE ran == (reported.steps + steps) * StepLen
  <2>3. ran \in Nat
    BY <2>2, OneMore
  <2>4. (reported'.steps + steps') * StepLen = ran
    BY <1>1, <2>2
  <2> HIDE DEF ran
  <2>5. previous - start = ran + reported.dropped + backlog + lost
    BY <2>1 DEF ran
  <2>6. previous' - start' = ran + reported'.dropped + backlog' + lost'
    BY <1>1, <1>2, <2>2, <2>3, <2>5
  <2> QED
    BY <2>4, <2>6 DEF WallTimeConserved
<1> QED
  BY <1>3, <1>4 DEF Accounts

-----------------------------------------------------------------------------
(* Types *)

LEMMA InitInv == RunnerInit => IInv
<1> SUFFICES ASSUME RunnerInit PROVE IInv
  OBVIOUS
<1>1. RunnerTypeOK
  <2>1. pc \in [Callers -> Places] /\ cancelled \in [Callers -> BOOLEAN]
    BY DEF RunnerInit, Places
  <2>2. 0 \in 0..MaxDur /\ 0 \in 0..MaxCatchUp
    BY RunnerAssumption
  <2>3. reported \in [steps : Nat, dropped : Nat]
    BY DEF RunnerInit
  <2> QED
    BY <2>1, <2>2, <2>3 DEF RunnerInit, RunnerTypeOK
<1>2. Exclusive
  BY DEF RunnerInit, Exclusive, OneRun, Owner, TimerIsOwned, ClosedBeforeRelease
<1>3. Accounts
  BY DEF RunnerInit, Accounts, StepsAreDue, NoDebtBetweenBatches, WallTimeConserved, InLoop
<1> QED
  BY <1>1, <1>2, <1>3 DEF IInv

LEMMA MeasureTyped ==
  ASSUME IInv, NEW c \in Callers, Measure(c) PROVE RunnerTypeOK'
<1> DEFINE b == Grown(wall - previous)
<1>1. /\ wall \in Nat /\ previous \in Nat /\ wall - previous \in Nat
      /\ b \in 0..MaxDur /\ Excess(wall - previous) \in Nat
      /\ StepLen \in Nat
  BY GrownProps, RunnerAssumption DEF IInv, RunnerTypeOK, Measure
<1>2. /\ previous' = wall /\ backlog' = b
      /\ lost' = lost + Excess(wall - previous)
      /\ UNCHANGED <<running, cancelled, wall, faulted, steps, start, reported>>
      /\ pc' = [pc EXCEPT ![c] = IF b < StepLen THEN "waiting" ELSE "batch"]
      /\ timer' = IF b < StepLen THEN wall + (StepLen - b) ELSE timer
  BY DEF Measure, Goto
<1> HIDE DEF b
<1>3. timer' \in Nat \cup {NoTimer}
  BY <1>1, <1>2, RunnerAssumption DEF IInv, RunnerTypeOK
<1>4. pc' \in [Callers -> Places]
  BY <1>2 DEF IInv, RunnerTypeOK, Places
<1>5. lost' \in Nat
  BY <1>1, <1>2 DEF IInv, RunnerTypeOK
<1> QED
  BY <1>1, <1>2, <1>3, <1>4, <1>5 DEF IInv, RunnerTypeOK

\* Report adds up naturals.
LEMMA ReportTyped ==
  ASSUME RunnerTypeOK, NEW dropped \in Nat, Report(dropped)
  PROVE  reported' \in [steps : Nat, dropped : Nat] /\ steps' \in 0..MaxCatchUp
  BY RunnerAssumption DEF RunnerTypeOK, Report

LEMMA RunStepTyped ==
  ASSUME IInv, NEW c \in Callers, RunStep(c) PROVE RunnerTypeOK'
<1> USE RunnerAssumption DEF IInv, RunnerTypeOK, Goto, Places, runLocals, runHistory
<1>1. CASE Prepare(c)
  BY <1>1 DEF Prepare
<1>2. CASE TopCancelled(c) \/ WaitCancelled(c) \/ StepStart(c)
  BY <1>2 DEF TopCancelled, WaitCancelled, StepStart
<1>3. CASE ClockBackwards(c)
  BY <1>3 DEF ClockBackwards
<1>4. CASE Measure(c)
  BY <1>4, MeasureTyped
<1>5. CASE StepRefused(c)
  <2>1. reported' \in [steps : Nat, dropped : Nat] /\ steps' \in 0..MaxCatchUp
    BY <1>5, ReportTyped DEF StepRefused
  <2> QED
    BY <1>5, <2>1 DEF StepRefused
<1>6. CASE BatchEnd(c)
  <2>1. backlog \in Nat /\ (backlog \div StepLen) * StepLen \in Nat
    BY DivMod
  <2>2. reported' \in [steps : Nat, dropped : Nat] /\ steps' \in 0..MaxCatchUp
    BY <1>6, <2>1, ReportTyped DEF BatchEnd
  <2>3. backlog' \in 0..MaxDur
    BY <1>6, <2>1, DivMod DEF BatchEnd
  <2> QED
    BY <1>6, <2>2, <2>3 DEF BatchEnd
<1>7. CASE CloseClock(c)
  BY <1>7 DEF CloseClock
<1>8. CASE Release(c)
  BY <1>8 DEF Release
<1> QED
  BY <1>1, <1>2, <1>3, <1>4, <1>5, <1>6, <1>7, <1>8 DEF RunStep

LEMMA StepReturnsTyped ==
  ASSUME IInv, NEW c \in Callers, StepReturns(c) PROVE RunnerTypeOK'
<1>1. CASE StepDone(c)
  <2>1. CatchUp
    BY <1>1 DEF IInv, Accounts, StepsAreDue, StepDone
  <2>2. backlog' \in 0..MaxDur /\ steps' \in 0..MaxCatchUp
    BY <1>1, <2>1, RunnerAssumption DEF StepDone, CatchUp, IInv, RunnerTypeOK
  <2> QED
    BY <1>1, <2>2 DEF StepDone, IInv, RunnerTypeOK, Goto, Places, runHistory
<1>2. CASE StepFault(c)
  <2>1. reported' \in [steps : Nat, dropped : Nat] /\ steps' \in 0..MaxCatchUp
    BY <1>2, ReportTyped DEF StepFault, IInv
  <2> QED
    BY <1>2, <2>1 DEF StepFault, IInv, RunnerTypeOK, Goto, Places
<1>3. CASE StepPanic(c)
  BY <1>3 DEF StepPanic, IInv, RunnerTypeOK, Goto, Places, runLocals, runHistory
<1> QED
  BY <1>1, <1>2, <1>3 DEF StepReturns

-----------------------------------------------------------------------------
(* The invariant *)

LEMMA RunStepInv ==
  ASSUME IInv, NEW c \in Callers, RunStep(c) PROVE IInv'
<1>1. RunnerTypeOK'
  BY RunStepTyped
<1>2. Exclusive'
  <2>1. CASE \/ Prepare(c) \/ TopCancelled(c) \/ ClockBackwards(c) \/ WaitCancelled(c)
             \/ StepStart(c) \/ StepRefused(c) \/ BatchEnd(c)
    BY <2>1, MoveExclusive DEF Prepare, TopCancelled, ClockBackwards, WaitCancelled, StepStart,
                               StepRefused, BatchEnd, Goto, Places
  <2> QED
    BY <2>1, MeasureExclusive, CloseExclusive, ReleaseExclusive DEF RunStep
<1>3. Accounts'
  <2>1. CASE \/ TopCancelled(c) \/ ClockBackwards(c) \/ WaitCancelled(c) \/ StepRefused(c)
             \/ CloseClock(c) \/ Release(c)
    BY <2>1, LeaveAccounts DEF TopCancelled, ClockBackwards, WaitCancelled, StepRefused,
                               CloseClock, Release, Goto
  <2> QED
    BY <2>1, PrepareAccounts, MeasureAccounts, StepStartAccounts, BatchEndAccounts DEF RunStep
<1> QED
  BY <1>1, <1>2, <1>3 DEF IInv

LEMMA StepReturnsInv ==
  ASSUME IInv, NEW c \in Callers, StepReturns(c) PROVE IInv'
<1>1. RunnerTypeOK'
  BY StepReturnsTyped
<1>2. Exclusive'
  BY MoveExclusive DEF StepReturns, StepDone, StepFault, StepPanic, Goto, Places
<1>3. Accounts'
  BY StepDoneAccounts, LeaveAccounts DEF StepReturns, StepFault, StepPanic, Goto
<1> QED
  BY <1>1, <1>2, <1>3 DEF IInv

\* Steps of the callers around their Runs and of their contexts.
LEMMA EnvironmentInv ==
  ASSUME IInv,
         NEW c \in Callers, Claim(c) \/ WaitFired(c) \/ Cancel(c)
  PROVE  IInv'
<1>1. CASE Claim(c)
  <2>1. RunnerTypeOK'
    BY <1>1 DEF Claim, IInv, RunnerTypeOK, Goto, Places, runLocals, runHistory
  <2> QED
    BY <1>1, <2>1, ClaimExclusive, ClaimAccounts DEF IInv
<1>2. CASE WaitFired(c)
  <2>1. RunnerTypeOK'
    BY <1>2 DEF WaitFired, IInv, RunnerTypeOK, Goto, Places, runLocals, runHistory
  <2>2. Exclusive'
    BY <1>2, MoveExclusive DEF WaitFired, Goto, Places
  <2> QED
    BY <1>2, <2>1, <2>2, WaitFiredAccounts DEF IInv
<1>3. CASE Cancel(c)
  <2>1. RunnerTypeOK'
    BY <1>3 DEF Cancel, IInv, RunnerTypeOK, runLocals, runHistory
  <2> QED
    BY <1>3, <2>1, StayExclusive, StayAccounts DEF Cancel, IInv
<1> QED
  BY <1>1, <1>2, <1>3

LEMMA ClockInv == IInv /\ Clock => IInv'
<1> SUFFICES ASSUME IInv, Clock PROVE IInv'
  OBVIOUS
<1>1. RunnerTypeOK'
  BY RunnerAssumption DEF Clock, IInv, RunnerTypeOK, runLocals, runHistory
<1> QED
  BY <1>1, StayExclusive, StayAccounts DEF Clock, IInv

LEMMA NextInv == IInv /\ [RunnerNext]_runnerVars => IInv'
<1> SUFFICES ASSUME IInv, [RunnerNext]_runnerVars PROVE IInv'
  OBVIOUS
<1>1. CASE UNCHANGED runnerVars
  <2>1. RunnerTypeOK'
    BY <1>1 DEF runnerVars, IInv, RunnerTypeOK
  <2>2. UNCHANGED <<pc, running, timer>> /\ UNCHANGED <<pc, runLocals, runHistory>>
    BY <1>1 DEF runnerVars, runLocals, runHistory
  <2> QED
    BY <2>1, <2>2, StayExclusive, StayAccounts DEF IInv
<1>2. ASSUME NEW c \in Callers,
             Claim(c) \/ RunStep(c) \/ WaitFired(c) \/ StepReturns(c) \/ Cancel(c)
      PROVE  IInv'
  BY <1>2, RunStepInv, StepReturnsInv, EnvironmentInv
<1> QED
  BY <1>1, <1>2, ClockInv DEF RunnerNext

\* The inductive invariant holds always.
THEOREM RunnerInvariant == RunnerSpec => []IInv
  BY InitInv, NextInv, PTL DEF RunnerSpec

\* Every variable keeps its type; in particular the saturated backlog stays a
\* Duration and a batch never exceeds its limit (Run).
THEOREM RunnerTyped == RunnerSpec => []RunnerTypeOK
<1>1. IInv => RunnerTypeOK
  BY DEF IInv
<1> QED
  BY <1>1, RunnerInvariant, PTL

\* For any number of callers at most one Run is active, and the flag says so
\* (Run's CompareAndSwap and its deferred Store).
THEOREM RunnerExclusive == RunnerSpec => []OneRun
<1>1. IInv => OneRun
  BY DEF IInv, Exclusive
<1> QED
  BY <1>1, RunnerInvariant, PTL

\* No Run's deferred Close can stop another Run's timer (the order of Run's
\* deferred calls).
THEOREM RunnerTimer == RunnerSpec => []TimerIsOwned
<1>1. IInv => TimerIsOwned
  BY DEF IInv, Exclusive
<1> QED
  BY <1>1, RunnerInvariant, PTL

\* For every step length and catch-up limit, wall time is run, dropped or kept
\* as a fraction of a step; only saturation loses any (Run's backlog).
THEOREM RunnerConservation == RunnerSpec => []WallTimeConserved
<1>1. IInv => WallTimeConserved
  BY DEF IInv, Accounts
<1> QED
  BY <1>1, RunnerInvariant, PTL

\* However long the steps of a batch took and however many were overdue, less
\* than one step is owed when the batch is over (the drop after Run's batch).
THEOREM RunnerNoDebt == RunnerSpec => []NoDebtBetweenBatches
<1>1. IInv => NoDebtBetweenBatches
  BY DEF IInv, Accounts
<1> QED
  BY <1>1, RunnerInvariant, PTL
=============================================================================
