SPECIFICATION Spec
CONSTANTS
  Packets <- MCPackets
  Ports <- MCPorts
  Networks <- MCNetworks
  Headers <- MCHeaders
  ap_bdd_list <- MCAtoms
INVARIANT ContinuesOnAllOutports
