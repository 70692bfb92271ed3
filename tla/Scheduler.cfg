SPECIFICATION SchedSpec
CONSTANTS
  Names = {move, score}
  Intervals = {1, 2, 3, 5}
  StepLen = 2
  MaxTime = 9
  MaxOps = 2
INVARIANTS
  SchedTypeOK NoFaultMeansWholeTicks CommandsSettled StepLeavesNothing
PROPERTIES DeltaCoversGap
