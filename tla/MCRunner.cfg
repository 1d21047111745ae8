SPECIFICATION FairSpec
CONSTANTS
  Process = {p1, p2, p3}
  NoProcess = NoProcess
  Parallelism = 2
  ChannelCap = 3
INVARIANTS
  JobsBounded Accounted NoneSpared
PROPERTIES
  KeepsPromise Reaped AbortReturns
