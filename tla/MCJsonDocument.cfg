SPECIFICATION Spec
CONSTANTS
  IntLimit = 8
  LargestLimit = 16
  RightMargin = 9
  Samples <- MCSamples
  Tokens <- MCTokens
  Numerals <- MCNumerals
  Roots <- MCRoots
  Values <- MCValues
  Texts <- MCTexts
  CodePoints <- MCCodePoints
  MaxTokens = 5
  MaxBeyond = 1
INVARIANTS
  TypeOK
  ReadsJson
  CommentsKept
  RoundTrip
  NothingMixed
