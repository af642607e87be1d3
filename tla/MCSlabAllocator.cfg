SPECIFICATION Spec
CONSTANTS
  Size <- MCSize
  Supported <- MCSupported
  SlabSize = 48
  MaxSlabs = 3
  Slab = {s1, s2, s3, s4}
  NULL = NULL
SYMMETRY SlabSymmetry
INVARIANTS
  TypeOK
  ListsConsistent
  NothingIdle
  OwnedBlocksFreeable
  BlocksPartition
PROPERTIES
  NoSpuriousFailure
  ImplementsMalloc
\* exit(1) ends the program.
CHECK_DEADLOCK FALSE
