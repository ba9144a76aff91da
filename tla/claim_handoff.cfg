SPECIFICATION Spec
CONSTANTS
  table = table
  NoKey = NoKey
  Tables <- MCTables
  Ops <- OpNames
  Keys <- MCKeys
  PrimaryKeys <- MCOneColumn
  Mechanisms <- MCJustCDC
  CursorFirst = FALSE
  MaxCommits = 2
  Retention = 2
  Buffer = 1
  MaxFaults = 0
INVARIANTS
  SyncedMirrors
