SPECIFICATION Spec
CONSTANTS
  Width = 16
  Height = 6
  PaddleX = 3
  HalfWidth = 1
  HalfHeight = 1
  Radius = 1
  Speeds = {1, 2}
  Slopes = {0, 1}
  PaddleSpeed = 1
  BotSpeed = 1
  Sub = 2
  TickLen = 5
  ServeLen = 3
  InputTimeout = 5
  WinningScore = 2
  Inputs <- MCInputs
  None = None
INVARIANTS MatchConsistent
PROPERTY NoTunnelling
