SPECIFICATION FairSpec
CONSTANTS
  a = a
  b = b
  c = c
  d = d
  ta = ta
  tc = tc
  td = td
  east = east
  None = None
  Calls <- MCCalls
  Threads <- MCThreads
  ThreadOf <- MCThreadOf
  Shards <- MCShards
  ShardOf <- MCShardOf
  MaxInflight = 2
  MaxQueue = 1
  Threshold = 2
  Cooldown = 1
  MaxAborts = 2
INVARIANTS TypeOK NothingLost
PROPERTIES OpenGrantsProbe CloseSettles
\* All calls may have settled with nothing left to do.
CHECK_DEADLOCK FALSE
