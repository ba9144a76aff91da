SPECIFICATION FairSpec
CONSTANTS
  w1 = w1
  w2 = w2
  w3 = w3
  k1 = k1
  k2 = k2
  old = old
  new = new
  NoRow = NoRow
  NoWrite = NoWrite
  Workers <- MCWorkers
  Keys <- MCKeys
  Contents <- MCContents
  Stream <- MCStream
  MaxFaults = 3
INVARIANTS
  TypeOK
  TableIsPrefix
PROPERTIES
  ContractSpec
  EveryBatchApplied
