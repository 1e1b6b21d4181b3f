SPECIFICATION Spec
CONSTANTS
  s1 = s1
  s2 = s2
  s3 = s3
  Shards = {s1, s2, s3}
  Gpus = {0, 1}
  NumTasks = 2
  TaskShards <- TwoTasks
  Matches <- Powers
  Preloaded = {s1, s2, s3}
  HostUnits = 0
  MaxNumShardPerIter = 4
  DoubleBuffering = FALSE
CHECK_DEADLOCK FALSE
INVARIANT
  NoCacheAccessAfterCleanup
