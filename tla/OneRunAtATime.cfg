SPECIFICATION Spec
CONSTANTS
  c1 = c1
  c2 = c2
  c3 = c3
  p1 = p1
  p2 = p2
  e1 = e1
  e2 = e2
  None = None
  Calls = {c1, c2}
  Procs = {p1, p2}
  ProcOf <- OneEach
  Envs = {e1}
  Faults = {"unpooled"}
INVARIANTS
  OneRunAtATime
CHECK_DEADLOCK FALSE
