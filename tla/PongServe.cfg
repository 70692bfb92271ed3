SPECIFICATION ServeFairSpec
CONSTANTS
  Clients = {c1}
  Posts = {p1, p2}
  QueueCap = 1
  MaxClients = 1
  MaxSequence = 2
  None = None
INVARIANTS NilMeansInterrupted ControlsBelongToSeats
PROPERTIES ServeReturns HandlersReturn InputsNeverStarvePhysics
CHECK_DEADLOCK FALSE
