SPECIFICATION Spec
CONSTANTS
  s1 = s1
  s2 = s2
  s3 = s3
  NoShard = NoShard
  Shards = {s1, s2, s3}
  NumTasks = 2
  Matches <- Powers
  HostSlots = 2
  MaxNumShardPerIter = 4
  Configs <- SlidingTasks
CHECK_DEADLOCK FALSE
INVARIANT
  PendingCopiesIntact
