SPECIFICATION Spec
CONSTANTS
  Shards <- FiveShards
  Size <- Sizes
  SizeModulus = 1000
  MaxNumTreeNodes = 20
  Configs <- TightTriangles
INVARIANT
  TasksFitTheDevice
CHECK_DEADLOCK FALSE
