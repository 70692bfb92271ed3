SPECIFICATION Spec
CONSTANTS
  Clients = {c1, c2, c3, c4}
  Posts = {p1}
  QueueCap = 1
  MaxClients = 4
  MaxSequence = 1
  None = None
SYMMETRY Symmetry
INVARIANTS SeatsFollowJoinOrder MembersAreAlive ControlsBelongToSeats 
PROPERTY BrowsersKnowTheirSeat
CHECK_DEADLOCK FALSE
