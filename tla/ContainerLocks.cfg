SPECIFICATION Spec
CONSTANTS
  Procs = {p1, p2}
  Nobody = Nobody
  Inum = {1, 2, 3, 4}
  Names = {"a", "b"}
  NOFILE = 1
  NFILE = 2
  Paths <- SomePaths
  NewNames <- Links
  Starts <- SomeStarts
  MaxCalls = 2
SYMMETRY Sym
CHECK_DEADLOCK FALSE
INVARIANT
  NoLockCycle
