SPECIFICATION Spec
CONSTANTS
  k1 = k1
  k2 = k2
  Key = {k1, k2}
  Msg <- TwoMessages
  KeyOf <- MCKeyOf
  Shard <- TwoShards
  Limit = 2
  Cap = 3
  MaxAttempts = 2
  MaxLoads = 2
  MaxStops = 1
  MaxCrashes = 1
  MaxTroubles = 9
  MaxFails = 2
  MaxStalls = 1
  MaxDbErrors = 1
  NoShard = NoShard
  NoOwner = NoOwner
  NotLoading = NotLoading
PROPERTY RestartRecoversAll
CHECK_DEADLOCK FALSE
