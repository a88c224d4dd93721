SPECIFICATION Spec
CONSTANTS
  IntLimit = 4
  LargestLimit = 8
  Roots <- MCRoots
  Seconds <- MCSeconds
  Scalars <- MCScalars
  Members = {4}
  MaxIndex = 2
  MaxNodes = 3
  Kept <- MCKept
  Paths <- MCPaths
INVARIANTS
  TypeOK
  Ordered
  ConversionsHonest
  WalksMeetAll
  MadePathsResolve
  PortsSorted
