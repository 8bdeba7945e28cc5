SPECIFICATION FairSpec
CONSTANTS
  N = 3
  Apply <- TermApply
  Input <- TermInput
  Literal <- MCLiteral
  NoLiteral = NoLiteral
  Source <- MCPrograms
INVARIANTS
  TypeOK
  MeaningPreserved
  ResultsLandWhereWanted
PROPERTIES
  Outcome
  KeepsContract
CHECK_DEADLOCK FALSE
