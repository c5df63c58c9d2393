SPECIFICATION FairSpec
CONSTANTS
  c1 = c1
  c2 = c2
  Cases = {c1, c2}
  Dispositions <- Submitted
  MaxRounds = 2
  MaxCalls = 1
  MaxCrashes = 0
  OutNameFromEnv = FALSE
  AskAgain = FALSE
  Zombies = TRUE
  ToolFaults = FALSE
  DigestFaults = FALSE
INVARIANTS
  VolumeHoldsLocked
PROPERTIES
  MovesAreLegal
  CallReturns
CHECK_DEADLOCK FALSE
