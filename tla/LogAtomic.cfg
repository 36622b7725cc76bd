SPECIFICATION FairSpec
CONSTANTS
  Procs = {p1, p2, p3}
  Blocks = {b1, b2}
  Vals = {v1, v2}
  LOGSIZE = 2
  Size = 3
  MAXOPBLOCKS = 1
  OpBlocks = 1
  NotCached = NotCached
INVARIANTS
  SleeperHasWaker
  QuietLogEmpty
PROPERTIES
  Atomic
  SleeperWoken
