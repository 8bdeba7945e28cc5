SPECIFICATION Spec
CONSTANTS
  N = 4
  Apply <- ModApply
  Input <- ModInput
  Literal <- MCLiteral
  NoLiteral = NoLiteral
  Zero = 0
  One = 1
  Source <- MCPrograms
INVARIANTS
  PassesFit
  CompiledCorrectly
  Vectorized
  LoweredFaithfully
  LowersCompletely
