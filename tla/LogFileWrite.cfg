SPECIFICATION Spec
CONSTANTS
  Procs = {p1, p2}
  Blocks = {b1, b2, b3, b4, b5}
  Vals = {v1}
  LOGSIZE = 4
  Size = 6
  MAXOPBLOCKS = 2
  OpBlocks = 3
  NotCached = NotCached
SYMMETRY Symmetry
INVARIANTS
  NeverTooBig
