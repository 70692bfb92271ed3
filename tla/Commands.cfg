SPECIFICATION CommandsSpec
CONSTANTS
  Buffers = {b1, b2}
  Traversal = Traversal
  MaxOps = 3
  MaxStack = 4
SYMMETRY Symmetry
INVARIANTS FlagsMatchStack NoFlushInsideQuery OnceAndInOrder
