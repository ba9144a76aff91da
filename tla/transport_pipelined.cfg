SPECIFICATION FairSpec
CONSTANTS
  MaxBatch = 2
  MaxBreaks = 1
  MaxFaults = 1
  MaxAttempt = 1
  SendCap = 2
  RespCap = 2
  RecvCap = 1
  Window = 2
  orders = orders
  items = items
  Subscribe <- MCBothTables
  Publishable <- MCWhole
INVARIANTS
  HandshakeInv
  AckInv
  AckedNeverResent
  AnswerHasRoom
  CopyInv
  WiresAreShort
PROPERTIES
  ReadersExit
