SPECIFICATION Spec
CONSTANTS
  a1 = a1
  a2 = a2
  Account = {a1, a2}
  Msg <- TwoMessages
  Media <- NoMedia
  Home <- MCHome
  AckRequired = {a1}
  JsonStore = TRUE
  MaxRetry = 1
  RetryLimit = 1
  MaxStops = 0
  MaxCrashes = 0
  MaxFaults = 0
  MaxSaves = 0
  MaxOwed = 2
  NoMsg = NoMsg
  NoEntry = NoEntry
INVARIANTS TypeOK TextSettledOnce OneAttempt NoStrandedEntry PushBudget
