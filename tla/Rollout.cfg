SPECIFICATION Spec
CONSTANTS
  run1 = run1
  r1 = r1
  r2 = r2
  q1 = q1
  Operator = Operator
  None = None
  Procs <- MCRuns
  Rollouts <- MCRollouts
  Requests <- MCRequests
  MaxGen = 3
  MaxFaults = 1
SYMMETRY MCSymmetry
INVARIANTS TypeOK RecoveryInOrder
 
CHECK_DEADLOCK FALSE
