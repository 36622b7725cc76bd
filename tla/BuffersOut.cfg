CONSTANTS
  Users = {u1, u2}
  NBUF = 3
  Blocks = {b1, b2, b3, b4}
  MaxPinned = 2
  MaxReads = 4
SPECIFICATION BuffersSpec
CHECK_DEADLOCK FALSE
INVARIANTS
  BuffersSuffice
