SPECIFICATION FairSpec
CONSTANTS
  m1 = m1
  m2 = m2
  m3 = m3
  u1 = u1
  u2 = u2
  None = None
  Msgs = {m1, m2, m3}
  Users = {u1, u2}
  MaxTurns = 2
  Scripts <- Conversations
INVARIANTS
  TypeOK
  RegisteredAreAtWork
  TurnsPerSession
PROPERTIES
  AnswerStands
  HandlersReturn
CHECK_DEADLOCK FALSE
