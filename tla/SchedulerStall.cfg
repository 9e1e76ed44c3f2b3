\* No trouble at all: a retry that waits at the wrong moment ends the run.
CONSTANTS
  a = a
  b = b
  c = c
  Tasks <- Three
  Deps <- Join
  MaxAttempts <- Equal
  MaxTroubles = 0
SPECIFICATION FairSpec
PROPERTY SchedulerNeverStalls
CHECK_DEADLOCK FALSE
