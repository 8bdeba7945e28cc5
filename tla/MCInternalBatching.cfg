SPECIFICATION FairSpec
CONSTANTS
  N = 4
  Apply <- ModApply
  Input <- ModInput
  Literal <- MCLiteral
  NoLiteral = NoLiteral
  Source <- MCPrograms
INVARIANTS
  TypeOK
  MeaningPreserved
PROPERTIES
  Reduces
CHECK_DEADLOCK FALSE
