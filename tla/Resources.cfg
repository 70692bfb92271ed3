SPECIFICATION ResourcesSpec
CONSTANTS
  ResourceTypes = {A, B}
  ResourceValues = {v1, v2}
  MaxCells = 4
INVARIANTS ReadersSeeLatest
