SPECIFICATION Spec
CONSTANTS
  c1 = c1
  c2 = c2
  Cases = {c1, c2}
  Dispositions <- Submitted
  MaxRounds = 2
  MaxCalls = 2
  MaxCrashes = 0
  OutNameFromEnv = TRUE
  AskAgain = TRUE
  Zombies = FALSE
  ToolFaults = FALSE
  DigestFaults = FALSE
SYMMETRY Symmetry
PROPERTIES
  NamedVolume
CHECK_DEADLOCK FALSE
