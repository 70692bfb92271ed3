SPECIFICATION SchedSpec
CONSTANTS
  Names = {move, score}
  Intervals = {1, 2}
  StepLen = 2
  MaxTime = 4
  MaxOps = 1
PROPERTIES CancelDuringTickFaults
