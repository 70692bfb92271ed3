SPECIFICATION QuerySpec
CONSTANTS
  A = A
  B = B
  Types <- MCTypes
  Views <- MCViews
  Values = {v1, v2}
  WorldId = 1
  OtherIds = {}
  MaxSlots = 3
  MaxGen = 1
  MaxDepth = 2
SYMMETRY Symmetry
INVARIANTS DriverReachesSelected BorrowsValid
PROPERTIES CompleteVisitsEachOnce
