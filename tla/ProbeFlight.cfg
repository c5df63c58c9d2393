SPECIFICATION FairSpec
CONSTANTS
  c1 = c1
  c2 = c2
  c3 = c3
  c4 = c4
  r1 = r1
  None = None
  Callers = {c1, c2, c3, c4}
  Runs = {r1}
  Owner <- ThreeAndOne
INVARIANTS
  TypeOK
  OneProbe
PROPERTIES
  FailuresNotServed
  CallsAnswered
CHECK_DEADLOCK FALSE
