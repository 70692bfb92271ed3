SPECIFICATION RunnerFairSpec
CONSTANTS
  Callers = {c1, c2}
  StepLen = 2
  MaxCatchUp = 2
  MaxDur = 7
  MaxWall = 9
INVARIANTS OneRun TimerIsOwned WallTimeConserved NoDebtBetweenBatches
PROPERTIES CancelEndsRun
