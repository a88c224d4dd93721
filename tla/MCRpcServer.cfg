SPECIFICATION Spec
CONSTANTS
  IntLimit = 32768
  LargestLimit = 65536
  Base = 2
  ULongRange = 16
  Protocols = {"TCP", "UDP"}
  Formats = {"RAW", "NETSTRING"}
  Messages <- MCMessages
  Sends = {"c"}
  TextOf <- MCTextOf
  Reads <- MCReads
  Replies <- HandlerReplies
  Name <- MCName
  Conns = {1, 2, 3}
  MaxFd = 2
  BufSize = 12
  MaxSent = 2
  MaxMethods = 2
  MaxArrivals = 3
INVARIANTS
  TypeOK
  Answered
PROPERTIES
  EveryoneServed
