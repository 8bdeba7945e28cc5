SPECIFICATION FairSpec
CONSTANTS
  N = 2
  Apply <- MCApply
  Input <- MCInput
  Literal <- MCLiteral
  NoLiteral = NoLiteral
  Zero = 0
  One = 1
  Source <- MCPrograms
INVARIANTS
  TypeOK
  MeaningPreserved
PROPERTIES
  ComesToRest
CHECK_DEADLOCK FALSE
