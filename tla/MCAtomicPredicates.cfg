SPECIFICATION FairSpec
CONSTANTS
  Headers <- MCHeaders
  PredicateLists <- MCPredicateLists
INVARIANTS
  TypeOK
  Partition
  Resolved
  Coarsest
  ConversionExact
PROPERTIES
  ImplementsAtoms
  AtomsTerminate
