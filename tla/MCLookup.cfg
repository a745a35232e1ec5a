SPECIFICATION Spec
CONSTANTS
  Schemas <- MCSchemas
  InitialSearchLimit = 1
  ExpandingFactor = 2
INVARIANTS
  EveryWordIsFound
  PreeditIsSpelt
  EveryExtensionIsFound
CHECK_DEADLOCK FALSE
