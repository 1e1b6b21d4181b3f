SPECIFICATION Spec
CONSTANTS
  Null = 7
  Tasks <- NegativeTask
INVARIANT
  CountsMatches
CHECK_DEADLOCK FALSE
