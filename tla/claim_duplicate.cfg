SPECIFICATION Spec
CONSTANTS
  MaxBatch = 2
  MaxBreaks = 1
  MaxFaults = 1
  MaxAttempt = 1
  SendCap = 1
  RespCap = 1
  RecvCap = 1
  Window = 1
  orders = orders
  items = items
  Subscribe <- MCBothTables
  Publishable <- MCWhole
PROPERTIES
  RowNeverRegresses
