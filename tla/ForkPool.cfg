SPECIFICATION FairSpec
CONSTANTS
  j1 = j1
  j2 = j2
  j3 = j3
  Jobs = {j1, j2, j3}
  Start = 2
  MinLimit = 1
  MaxLimit = 3
  Retries = 1
  Reworks = 1
  Watchdogs = 1
INVARIANTS
  TypeOK
  OneForkPerCall
PROPERTIES
  PermitsCounted
  GrowthEarned
  AllReturn
CHECK_DEADLOCK FALSE
