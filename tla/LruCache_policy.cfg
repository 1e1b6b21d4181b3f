SPECIFICATION Spec
CONSTANTS
  k1 = k1
  k2 = k2
  k3 = k3
  n1 = n1
  n2 = n2
  n3 = n3
  FreeHead = FreeHead
  LockHead = LockHead
  Null = Null
  Keys = {k1, k2, k3}
  Nodes = {FreeHead, LockHead, n1, n2, n3}
  MaxRef = 2
  SizeModulus = 4
SYMMETRY NodeSymmetry
INVARIANTS
  IInv
  ListsLinked
  NodesAccounted
PROPERTIES
  Implements
