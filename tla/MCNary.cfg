SPECIFICATION FairSpec
CONSTANTS
  N = 1
  Apply <- ModApply
  Input <- ModInput
  Literal <- MCLiteral
  NoLiteral = NoLiteral
  Source <- MCPrograms
INVARIANTS
  TypeOK
  MeaningPreserved
PROPERTIES
  Collapses
CHECK_DEADLOCK FALSE
