SPECIFICATION DeadlineSpec
CONSTANTS
  orders = orders
  items = items
  audit = audit
  k1 = k1
  k2 = k2
  NoCursor = NoCursor
  Mechanisms <- MCEither
  Statements <- MCAsWritten
  Captured = TRUE
  TableOrder <- MCOnlyOrders
  Tables <- MCOrderAndAudit
  Keys <- MCOneKey
  Ops <- OpNames
  MaxCommits = 1
  Retention = 1
  Lagged = FALSE
  MaxFaults = 0
  MaxCrashes = 0
PROPERTIES
  ChangesArrive
