SPECIFICATION FairSpec
CONSTANTS
  GridBlockWidth = 4
  Inputs <- MCInputs
INVARIANTS
  TypeOK
  UndirectedAreRegular
  EveryMatchPlannedOnce
  NoDeadEnds
  RangesOfThePath
  LevelsFollowOrder
  PlanIsLoaded
PROPERTIES
  Terminates
CHECK_DEADLOCK FALSE
