SPECIFICATION Spec
CONSTANTS
  orders = orders
  items = items
  audit = audit
  k1 = k1
  k2 = k2
  NoCursor = NoCursor
  Mechanisms <- MCJustCDC
  Statements <- MCAsMeant
  Captured = TRUE
  TableOrder <- MCOnlyOrders
  Tables <- MCOrderAndAudit
  Keys <- MCTwoKeys
  Ops <- OpNames
  MaxCommits = 2
  Retention = 2
  Lagged = FALSE
  MaxFaults = 0
  MaxCrashes = 1
INVARIANTS
  SavedIsProcessed
