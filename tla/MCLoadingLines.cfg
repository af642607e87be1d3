SPECIFICATION Spec
CONSTANTS
  Files <- MCFiles
  MaxLinks = 1
  Nodes = 2
  Junk = {0, 1, 2, 3}
  Chunk = 3
  Fails = {}
INVARIANT LinesReadAreLines
\* The program ends.
CHECK_DEADLOCK FALSE
