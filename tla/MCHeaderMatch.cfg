SPECIFICATION Spec
CONSTANTS
  HdrLen = 2
  ByteBits = 2
  MatchStrings <- MCStrings
INVARIANTS
  TypeOK
  BitsInPlace
