SPECIFICATION Spec
CONSTANTS
  Headers <- MCHeaders
  Ports <- MCPorts
  Matches <- MCMatches
  match2bdd <- MCMatch2bdd
  Files <- MCFiles
  Directories <- MCSmallDirectories
  NoFile = 0
  ShowDetail = FALSE
INVARIANT DocumentedPriority
