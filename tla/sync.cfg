SPECIFICATION FairSpec
CONSTANTS
  table = table
  NoKey = NoKey
  Tables <- MCTables
  Ops <- OpNames
  Keys <- MCKeys
  PrimaryKeys <- MCOneOrTwoColumns
  Mechanisms <- MCEither
  CursorFirst = TRUE
  MaxCommits = 3
  Retention = 1
  Buffer = 2
  MaxFaults = 2
INVARIANTS
  TypeOK
  SyncedMirrors
  ResumeSkipsDelivered
PROPERTIES
  SyncEnds
