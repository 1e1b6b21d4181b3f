SPECIFICATION Spec
CONSTANTS
  Null = 7
  Tasks <- ChainTask
INVARIANT
  CountsMatches
CHECK_DEADLOCK FALSE
