SPECIFICATION FairSpec
CONSTANTS
  Shards <- FiveShards
  Size <- Sizes
  SizeModulus = 1000
  MaxNumTreeNodes = 17
  Configs <- AllConfigs
INVARIANTS
  IInv
  StagesWhatItNeeds
  EveryPathIsAMatch
  NodesAreChoices
  StopsShortOnlyForMemory
PROPERTIES
  Implements
  Terminates
CHECK_DEADLOCK FALSE
