SPECIFICATION FairSpec
CONSTANTS
  a = a
  b = b
  c = c
  ta = ta
  tc = tc
  Calls <- MCCalls
  Threads <- MCThreads
  ThreadOf <- MCThreadOf
  MaxConcurrency = 1
  WithImages <- MCImages
INVARIANTS TypeOK 
PROPERTIES AbortReleases
\* All calls may have settled with nothing left to do.
CHECK_DEADLOCK FALSE
