SPECIFICATION FairSpec
CONSTANTS
  MaxBatch = 3
  MaxBreaks = 1
  MaxFaults = 2
  MaxAttempt = 1
  SendCap = 1
  RespCap = 1
  RecvCap = 1
  Window = 1
  orders = orders
  items = items
  Subscribe <- MCBothTables
  Publishable <- MCWholeOrPart
INVARIANTS
  TypeOK
  AckMeansCommitted
  NoBatchLost
  AckedNeverResent
  AnswerHasRoom
  ReadersHaveRoom
  StreamsOnlyToHandler
  OnlyPublishedCommitted
PROPERTIES
  CancelStopsRun
  LinkSpec
  LinkLiveSpec
