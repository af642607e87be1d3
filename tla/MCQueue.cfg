SPECIFICATION Spec
CONSTANTS
  Node = {n1, n2, n3, n4, n5}
  Value = {d1, d2}
  UIntMax = 7
  SizeMax = 15
  MallocFails = {"queue", "list"}
  NULL = NULL
  Garbage = Garbage
SYMMETRY Symmetry
INVARIANTS
  TypeOK
  LengthsAgree
  NothingLeft
PROPERTY ImplementsFifo
