SPECIFICATION FairSpec
CONSTANTS
  Procs = {p1, p2, p3}
  None = None
  MUX_MAXNUM = 2
  MuxArgs = {0}
  Namespace <- OneNamespace
  Forked = {}
  Smp = TRUE
  Calls <- LockCalls
INVARIANTS
  MutualExclusion
  NoLostWakeup
  FaultUnlocksAll
CHECK_DEADLOCK FALSE
PROPERTIES
  BlockedIsWoken
