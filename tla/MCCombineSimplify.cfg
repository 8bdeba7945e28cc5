SPECIFICATION FairSpec
CONSTANTS
  N = 3
  Apply <- TermApply
  Input <- TermInput
  Literal <- MCLiteral
  NoLiteral = NoLiteral
  Source <- MCPrograms
INVARIANTS
  TypeOK
  MeaningPreserved
  FoldIsSound
  FilledVectorsAreCopies
PROPERTIES
  SimplifiesAll
CHECK_DEADLOCK FALSE
