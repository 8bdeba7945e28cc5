SPECIFICATION Spec
CONSTANTS
  N = 2
  Apply <- MCApply
  Input <- MCInput
  Literal <- MCLiteral
  NoLiteral = NoLiteral
  Zero = 0
  One = 1
  Source <- ZeroPrograms
INVARIANT
  ZeroMinusOperand
CHECK_DEADLOCK FALSE
