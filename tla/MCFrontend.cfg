SPECIFICATION FairSpec
CONSTANTS
  Identifier <- MCIdentifier
  LiteralClass <- MCLiteralClass
  Source <- MCSource
  MaxGrowth = 3
INVARIANTS
  TypeOK
  GivenBackInOrder
  TokensAreTheLexemes
  ReadAsWritten
  CreatedNodesAreTheTree
  EmitsTheTree
PROPERTIES
  Terminates
CHECK_DEADLOCK FALSE
