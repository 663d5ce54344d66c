SPECIFICATION FairSpec
CONSTANTS
  k1 = k1
  k2 = k2
  Key = {k1, k2}
  Msg <- TwoMessages
  KeyOf <- MCKeyOf
  Shard <- TwoShards
  Limit = 2
  Cap = 3
  MaxAttempts = 2
  MaxLoads = 1
  MaxStops = 0
  MaxCrashes = 1
  MaxTroubles = 3
  MaxFails = 1
  MaxStalls = 1
  MaxDbErrors = 1
  NoShard = NoShard
  NoOwner = NoOwner
  NotLoading = NotLoading
INVARIANTS SentOnce
PROPERTY ShardSettles
CHECK_DEADLOCK FALSE
