SPECIFICATION Spec
CONSTANTS
  Headers <- MCHeaders
  Ports <- MCPorts
  Matches <- MCMatches
  match2bdd <- MCMatch2bdd
  Files <- MCFiles
  Directories <- MCDirectories
  NoFile = 0
  ShowDetail = FALSE
INVARIANTS
  TypeOK
  PriorityLookup
  DealtExact
  RoutedInportHasTable
  OrderIndependent
PROPERTIES
  NothingReassigned
