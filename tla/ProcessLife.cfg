SPECIFICATION Spec
CONSTANTS
  NPROC = 4
  CPUs = {1, 2}
  PRIO_MAX = 1
  QUEUESIZE = 2
  MaxPid = 4
  KillArgs = {}
  PrioArgs = {0}
  Calls <- FamilyPrioCalls
INVARIANTS
  RunsOnce
  ChildrenAwaited
