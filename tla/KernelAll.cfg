CONSTANTS
  Users = {u1, u2}
  NBUF = 2
  Blocks = {b1, b2, b3}
  MaxPinned = 1
  MaxReads = 4
  Readers = {r1, r2}
  Free = Free
  INPUT_BUF = 2
  UIntMod = 4
  COLS = 2
  ROWS = 2
  Wanted = {1, 3}
  Procs = {p1, p2}
  First = p1
  Names = {a, b}
  NoName = NoName
  Frames = {f1, f2}
  Null = Null
  SHM_MAXNUM = 3
  MUX_MAXNUM = 2
  KERNBASE = 9
  ImageSize = 2
  SbrkArgs <- PageSteps
  Preempt = FALSE
  Careful = TRUE
  Calls <- ShareCalls
SPECIFICATION Spec
SYMMETRY Sym
CHECK_DEADLOCK FALSE
INVARIANTS
  PagesAccounted
  BwriteDurable
  BuffersAccounted
  SleepersAwaited
  ConsoleKeepsUp
  NoStuckModifier
PROPERTIES
  CacheIsStore
  ConsoleIsTerminal
