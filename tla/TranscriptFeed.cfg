SPECIFICATION FairSpec
CONSTANTS
  MaxTurns = 2
  MaxEvents = 3
INVARIANTS
  TypeOK
  RenderedInOrder
  SettlesOnLatest
  NoGapsUnstreamed
PROPERTIES
  CancelFrees
CHECK_DEADLOCK FALSE
