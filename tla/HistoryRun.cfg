SPECIFICATION Spec
CONSTANTS
  k1 = k1
  k2 = k2
  Key = {k1}
  Msg <- FourMessages
  KeyOf <- OneKey
  Shard <- TwoShards
  Limit = 2
  Cap = 3
  MaxAttempts = 1
  MaxLoads = 2
  MaxStops = 1
  MaxCrashes = 0
  MaxTroubles = 2
  MaxFails = 1
  MaxStalls = 0
  MaxDbErrors = 0
  NoShard = NoShard
  NoOwner = NoOwner
  NotLoading = NotLoading
INVARIANTS  ConsumedStaysConsumed
PROPERTIES RestartSparesUploads
CHECK_DEADLOCK FALSE
