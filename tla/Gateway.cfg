SPECIFICATION FairSpec
CONSTANTS
  planner = planner
  worker = worker
  judge = judge
  main = main
  side = side
  Calls <- MCCalls
  Threads <- MCThreads
  ThreadOf <- MCThreadOf
  MaxAttempts = 2
  MaxTurns = 2
  Min = 1
  Initial = 1
  Max = 2
  GrowEvery = 1
  GrowBy = 1
  Cooldown = 1
  RetryAfter <- MCRetryAfter
  MaxCommands = 1
  MaxFaults = 1
INVARIANTS TypeOK PermitsMatchCalls
PROPERTIES StopsHoldLaunches CallsSettle
\* All calls may have settled with nothing left to do.
CHECK_DEADLOCK FALSE
