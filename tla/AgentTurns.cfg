SPECIFICATION Spec
CONSTANTS
  Cap = 8
  Retries = 3
  MaxTurns = 3
INVARIANTS
  TypeOK
  StepsWithinLimit
  RunsBounded
  VerdictBehindReview
CHECK_DEADLOCK FALSE
