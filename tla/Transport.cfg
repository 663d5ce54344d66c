SPECIFICATION Spec
CONSTANTS
  c1 = c1
  c2 = c2
  c3 = c3
  a1 = a1
  a2 = a2
  Account = {a1, a2}
  Client = {c1, c2, c3}
  AccountOf <- MCAccountOf
  Leased <- MCLeased
  MaxEarly = 1
  Bounds <- AllBounds
  Chunks = 2
  NoConn = NoConn
  NoClient = NoClient
  NoEntry = NoEntry
  NoSocket = NoSocket
  NoTransfer = NoTransfer
INVARIANTS TypeOK ActiveConnected OwnerAddressed NoAnswerMissed SentIsAcked
PROPERTIES DegradeSparesOthers RoundsReachAll SendEndIsFinal RecvEndHolds SendEnds
CHECK_DEADLOCK FALSE
