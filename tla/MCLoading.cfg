SPECIFICATION FairSpec
CONSTANTS
  Files <- MCFiles
  MaxLinks = 5
  Nodes = 2
  Junk = {0, 1, 2, 3}
  Chunk = 3
  Fails = {"open", "nodes", "rows", "row", "cells", "realloc"}
INVARIANTS
  TypeOK
  RowsFit
  RowsHoldTheFile
  RowsInside
  AllFreed
PROPERTY ReadingEnds
\* The program ends.
CHECK_DEADLOCK FALSE
