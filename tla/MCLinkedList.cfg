SPECIFICATION Spec
CONSTANTS
  Node = {n1, n2, n3, n4, n5, n6}
  Iter = {}
  Value = {d1, d2}
  Index <- MCIndex
  UIntMax = 7
  SizeMax = 15
  MallocFails = {"list"}
  NULL = NULL
  Garbage = Garbage
SYMMETRY Symmetry
INVARIANTS
  TypeOK
  WellLinked
  NeverCrashes
PROPERTIES
  ImplementsList
