SPECIFICATION Spec
CONSTANTS
  Node = {n1, n2}
  Iter = {i1}
  Value = {d1}
  Index = {0, 7}
  UIntMax = 7
  SizeMax = 15
  MallocFails = {}
  NULL = NULL
  Garbage = Garbage
PROPERTY NoIteratorOnEmptyList
