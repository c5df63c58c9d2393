SPECIFICATION Spec
CONSTANTS
  MaxTurns = 2
  MaxEvents = 2
INVARIANTS
  ResumedShown
CHECK_DEADLOCK FALSE
