SPECIFICATION ShmSpec
CONSTANTS
  Procs = {p1, p2}
  First = p1
  Names = {a, b, c}
  NoName = NoName
  Frames = {f1, f2}
  Null = Null
  SHM_MAXNUM = 3
  MUX_MAXNUM = 2
  KERNBASE = 11
  ImageSize = 2
  SbrkArgs <- PageSteps
  Preempt = FALSE
  Careful = FALSE
  Calls <- ShareCalls
SYMMETRY Symmetry
CHECK_DEADLOCK FALSE
INVARIANTS
  NoRemap
