SPECIFICATION Spec
CONSTANTS
  Files <- MCFiles
  MaxLinks = 3
  Nodes = 2
  Junk = {0}
  Chunk = 3
  Fails = {"realloc"}
INVARIANT FailuresExit
\* The program ends.
CHECK_DEADLOCK FALSE
