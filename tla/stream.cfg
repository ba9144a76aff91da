SPECIFICATION DeadlineSpec
CONSTANTS
  orders = orders
  items = items
  audit = audit
  k1 = k1
  k2 = k2
  NoCursor = NoCursor
  Mechanisms <- MCEither
  Statements <- MCBothTexts
  Captured = TRUE
  TableOrder <- MCBoth
  Tables <- MCThreeTables
  Keys <- MCOneKey
  Ops <- OpNames
  MaxCommits = 3
  Retention = 1
  Lagged = TRUE
  MaxFaults = 2
  MaxCrashes = 1
INVARIANTS
  TypeOK
  SavedIsProcessed
  DrainedMirrors
PROPERTIES
  FeedSpec
  FeedCompletes
