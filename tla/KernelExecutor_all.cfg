SPECIFICATION FairSpec
CONSTANTS
  Null = 7
  Tasks <- AllTasks
INVARIANTS
  IInv
  TypeOK
  ShardsOfTheNode
  PrefixIsPartialMatch
PROPERTIES
  Implements
  Terminates
CHECK_DEADLOCK FALSE
