SPECIFICATION Spec
CONSTANTS
  a1 = a1
  a2 = a2
  a3 = a3
  a4 = a4
  a5 = a5
  a6 = a6
  Nodes <- MCNodes
  Null = Null
  Free = Free
  Heaps <- MCHeaps
  Built = {"Assignment", "Block", "Call"}
  MaxVector = 2
  MaxCalls = 3
SYMMETRY Symmetry
INVARIANTS
  TypeOK
  SoleOwner
  ParentIsOwner
  LinksAll
  RefusesOnlyMoved
CHECK_DEADLOCK FALSE
