SPECIFICATION FairSpec
CONSTANTS
  Arith <- ModArith
  Source <- MCFunctions
INVARIANTS
  TypeOK
  LoweredCorrectly
  ValuesVisible
PROPERTIES
  LeavesNothing
CHECK_DEADLOCK FALSE
