SPECIFICATION FairSpec
CONSTANTS
  s1 = s1
  s2 = s2
  s3 = s3
  Shards = {s1, s2, s3}
  Gpus = {0, 1}
  NumTasks = 2
  TaskShards <- TwoTasks
  Matches <- Powers
  Preloaded = {}
  HostUnits = 3
  MaxNumShardPerIter = 4
  DoubleBuffering = FALSE
CHECK_DEADLOCK FALSE
PROPERTY
  Terminates
