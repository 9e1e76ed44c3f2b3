\* Two tasks and one that depends on both; one of the two has a single attempt.
\* A finished run stops.
CONSTANTS
  a = a
  b = b
  c = c
  Tasks <- Three
  Deps <- Join
  MaxAttempts <- Unequal
  MaxTroubles = 3
SPECIFICATION FairSpec
INVARIANTS TypeOK StartsAfterDependencies WorkOrderAgrees 
PROPERTIES ExecutesGraph LateResultsDiscarded RunSettles
CHECK_DEADLOCK FALSE
