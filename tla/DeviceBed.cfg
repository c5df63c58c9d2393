SPECIFICATION FairSpec
CONSTANTS
  c1 = c1
  c2 = c2
  c3 = c3
  p1 = p1
  p2 = p2
  e1 = e1
  e2 = e2
  None = None
  Calls = {c1, c2, c3}
  Procs = {p1, p2}
  ProcOf <- TwoAndOne
  Envs = {e1}
  Faults = {"setsid"}
INVARIANTS
  TypeOK
  OneRunAtATime
  VerdictsOfOwnVolume
PROPERTIES
  ServesVolumes
  CallsReturn
CHECK_DEADLOCK FALSE
