SPECIFICATION Spec
CONSTANTS
  ListSize = 24
  NodeSize = 24
  IteratorSize = 32
  SlabSize = 60
  MaxSlabs = 3
  Slab = {s1, s2, s3}
  Value = {d1, d2}
  Index <- MCIndex
  UIntMax = 15
  SizeMax = 15
  NULL = NULL
  Garbage = Garbage
SYMMETRY Symmetry
INVARIANTS
  BlocksAccounted
  AllReturned
  EndsOnlyRefused
  IteratorsOnNodes
PROPERTY IteratorsKeepStep
\* The program may end in a crash.
CHECK_DEADLOCK FALSE
