SPECIFICATION FairSpec
CONSTANTS
  Procs = {p1, p2}
  First = p1
  NOFILE = 2
  NFILE = 2
  Pages = {x}
  Null = Null
  PIPESIZE = 2
  UINT = 4
  Messages <- Words
  ReadArgs = {1, 2}
  Calls <- AllCalls
CHECK_DEADLOCK FALSE
INVARIANTS
  DescriptorsKeepEnds
  SleepersWait
PROPERTIES
  EofSeen
  PipeIsChannel
