SPECIFICATION WorldSpec
CONSTANTS
  Types = {A, B}
  Values = {v1, v2}
  WorldId = 1
  OtherIds = {0, 2}
  MaxSlots = 3
  MaxGen = 2
  MaxDepth = 1
SYMMETRY Symmetry
INVARIANTS CountIsLive FreeListExact StorageCoherent
PROPERTIES HandlesNeverRevive ImplementsEntityMap
