SPECIFICATION ShmSpec
CONSTANTS
  Procs = {p1, p2}
  First = p1
  Names = {a, b}
  NoName = NoName
  Frames = {f1, f2}
  Null = Null
  SHM_MAXNUM = 3
  MUX_MAXNUM = 2
  KERNBASE = 9
  ImageSize = 2
  SbrkArgs <- PageSteps
  Preempt = TRUE
  Careful = TRUE
  Calls <- ShareCalls
SYMMETRY Symmetry
CHECK_DEADLOCK FALSE
INVARIANTS
  SameNameSamePage
