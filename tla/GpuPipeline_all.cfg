SPECIFICATION FairSpec
CONSTANTS
  s1 = s1
  s2 = s2
  s3 = s3
  NoShard = NoShard
  Shards = {s1, s2, s3}
  NumTasks = 3
  Matches <- Powers
  HostSlots = 2
  MaxNumShardPerIter = 3
  Configs <- AllConfigs
CHECK_DEADLOCK FALSE
INVARIANTS
  IInv
  DataInv
  PendingCopiesIntact
  KernelSeesItsTask
  CacheConsistent
PROPERTIES
  HeaderReadBeforeRewritten
  Implements
  Terminates
