SPECIFICATION FairSpec
CONSTANTS
  Packets <- MCPackets
  Ports <- MCPorts
  Networks <- MCNetworks
  Headers <- MCHeaders
  ap_bdd_list <- MCAtoms
INVARIANTS
  TypeOK
  PrintsAreReal
  CompleteUnlessCut
  QuietMeansLoopFree
PROPERTY QueryReturns
