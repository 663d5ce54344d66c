SPECIFICATION Spec
CONSTANTS
  a1 = a1
  a2 = a2
  Account = {a1, a2}
  Msg <- OneMessage
  Media <- NoMedia
  Home <- MCHome
  AckRequired = {a1}
  JsonStore = FALSE
  MaxRetry = 1
  RetryLimit = 1
  MaxStops = 1
  MaxCrashes = 1
  MaxFaults = 1
  MaxSaves = 1
  MaxOwed = 1
  NoMsg = NoMsg
  NoEntry = NoEntry
INVARIANTS SavePending NoSilentLoss NoStrandedEntry
PROPERTY KeepsPromise
