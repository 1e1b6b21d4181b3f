SPECIFICATION FairSpec
CONSTANTS
  s1 = s1
  s2 = s2
  s3 = s3
  Shards = {s1, s2, s3}
  Gpus = {0, 1}
  NumTasks = 3
  TaskShards <- ThreeTasks
  Matches <- Powers
  Preloaded = {}
  HostUnits = 3
  MaxNumShardPerIter = 4
  DoubleBuffering = TRUE
CHECK_DEADLOCK FALSE
INVARIANTS
  IInv
  KernelHasItsShards
  NoCacheAccessAfterCleanup
  TotalIsComplete
PROPERTIES
  EndsUnlessTwoWait
  NullNodeOnlyWhileRegistering
  Implements
