SPECIFICATION FairSpec
CONSTANTS
  a1 = a1
  a2 = a2
  Account = {a1, a2}
  Msg <- OneMessage
  Media <- NoMedia
  Home <- MCHome
  AckRequired = {a1}
  JsonStore = TRUE
  MaxRetry = 2
  RetryLimit = 1
  MaxStops = 0
  MaxCrashes = 0
  MaxFaults = 1
  MaxSaves = 0
  MaxOwed = 2
  NoMsg = NoMsg
  NoEntry = NoEntry
INVARIANTS NoStrandedEntry
PROPERTY Settles
