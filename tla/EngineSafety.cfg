SPECIFICATION Spec
CONSTANTS
  c1 = c1
  c2 = c2
  Cases = {c1, c2}
  Dispositions <- Submitted
  MaxRounds = 2
  MaxCalls = 3
  MaxCrashes = 1
  OutNameFromEnv = FALSE
  AskAgain = TRUE
  Zombies = FALSE
  ToolFaults = FALSE
  DigestFaults = FALSE
SYMMETRY Symmetry
INVARIANTS
  TypeOK
  AllPassVerified
  AllPassInLibrary
  FlipRecorded
  ConsumesOwnRun
  NoLimbo
PROPERTIES
  LedgerRefines
  ReflowWithinBudget
CHECK_DEADLOCK FALSE
