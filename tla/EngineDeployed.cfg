SPECIFICATION FairSpec
CONSTANTS
  c1 = c1
  c2 = c2
  Cases = {c1, c2}
  Dispositions <- Submitted
  MaxRounds = 2
  MaxCalls = 2
  MaxCrashes = 1
  OutNameFromEnv = TRUE
  AskAgain = FALSE
  Zombies = FALSE
  ToolFaults = TRUE
  DigestFaults = TRUE
PROPERTIES
  CallReturns
CHECK_DEADLOCK FALSE
