SPECIFICATION Spec
CONSTANTS
  NPROC = 3
  CPUs = {1}
  PRIO_MAX = 1
  QUEUESIZE = 2
  MaxPid = 4
  KillArgs = {2, 3}
  PrioArgs = {}
  Calls <- FamilyCalls
INVARIANTS
  KillsOnlyNamed
