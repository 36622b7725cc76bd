SPECIFICATION Spec
CONSTANTS
  Procs = {p1, p2, p3}
  None = None
  MUX_MAXNUM = 2
  MuxArgs = {0, 2}
  Namespace <- OneNamespace
  Forked = {}
  Smp = FALSE
  Calls <- TableCalls
SYMMETRY Symmetry
CHECK_DEADLOCK FALSE
INVARIANTS
  TypeOK
PROPERTIES
  CvStaysQueued
