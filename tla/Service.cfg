SPECIFICATION Spec
CONSTANTS
  b1 = b1
  b2 = b2
  f1 = f1
  x = x
  y = y
  m1 = m1
  m2 = m2
  m3 = m3
  r1 = r1
  r2 = r2
  r3 = r3
  Bridge = {b1, b2, f1}
  Agent = {x, y}
  Msg = {m1, m2, m3}
  Reg = {r1, r2, r3}
  Code = {"old", "new"}
  Foreign = f1
  Task <- MCTask
  AgentOf <- MCAgentOf
  MsgAgent <- MCMsgAgent
  Pool <- MCPool
  MaxDecl = 2
  SnapKeep = 1
  Bounds <- MCBounds
INVARIANTS TypeOK QueueStays EndStays NoOrphan Observed
PROPERTIES ScenesOnlyAdvance CallsEnd
CHECK_DEADLOCK FALSE
