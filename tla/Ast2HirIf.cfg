SPECIFICATION Spec
CONSTANTS
  Arith <- ModArith
  Source <- MuxFunctions
INVARIANT
  IfSelects
CHECK_DEADLOCK FALSE
