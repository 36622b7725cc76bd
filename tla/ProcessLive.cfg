SPECIFICATION FairSpec
CONSTANTS
  NPROC = 3
  CPUs = {1}
  PRIO_MAX = 1
  QUEUESIZE = 2
  MaxPid = 3
  KillArgs = {2, 3}
  PrioArgs = {}
  Calls <- SleepCalls
PROPERTIES
  OrphanReaped
  KilledLeavesWait
  RunnableRuns
