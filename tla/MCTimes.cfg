SPECIFICATION Spec
CONSTANTS
  Second = 4
  MaxSec = 4
  Searches = 5
  MALLOC_MICRO_ITERATIONS = 2
  UIntMax = 3
INVARIANTS
  TypeOK
  ElapsedClose
  TotalNeverShort
\* The searches are over.
CHECK_DEADLOCK FALSE
