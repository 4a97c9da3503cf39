CONSTANTS
  Platforms = {"unix", "windows"}
  Kid = {k1}
  PipeCap = 1
  LogLimit = 2
  MaxLines = 2
SPECIFICATION FairSpec
INVARIANTS
  TypeOK
  LogsHaveNoGaps
PROPERTIES
  CleanedForGood
  Returns
  JobEmptied
  GroupKilled
CHECK_DEADLOCK FALSE
