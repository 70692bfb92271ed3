SPECIFICATION ExampleFairSpec
CONSTANTS
  m1 = m1
  m2 = m2
  other = other
  Callers = {m1, m2, other}
  Matches = {m1, m2}
  MaxId = 2
  FinalTick <- MCFinalTick
  Speed = 2
  OutputCap = 1
  None = None
INVARIANTS IdsUnique NilMeansFinished
PROPERTIES NewWorldEnds RunReturns
CHECK_DEADLOCK FALSE
