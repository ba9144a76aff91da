SPECIFICATION FairSpec
CONSTANTS
  None = None
  Qualified <- MCQualified
  Configs <- MCConfigs
  MaxChanges = 1
  MaxRestarts = 1
INVARIANTS
  TypeOK
  NothingLeaks
  EveryPoolHasACloser
  RunsOnWhatIsThere
  RefusedOnlyIfOverlooked
PROPERTIES
  StartReturns
  StopEndsRun
