SPECIFICATION Spec
CONSTANTS
  Procs = {p1, p2}
  None = None
  MUX_MAXNUM = 1
  MuxArgs = {0}
  Namespace <- OneNamespace
  Forked = {}
  Smp = FALSE
  Calls <- CvCalls
INVARIANTS
  MutualExclusion
CHECK_DEADLOCK FALSE
