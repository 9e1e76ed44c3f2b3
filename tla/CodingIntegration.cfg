SPECIFICATION Spec
CONSTANTS
  p1 = p1
  p2 = p2
  o1 = o1
  o2 = o2
  Procs <- MCProcs
  Orders <- MCOrders
  f1 = f1
  f2 = f2
  Findings <- MCFindings
  MaxAttempts = 3
  MaxFaults = 2
  MaxMoves = 1
SYMMETRY MCSymmetry
INVARIANTS TypeOK TruthfulAnswers
PROPERTIES StopsForGood IntegratesOnce
CHECK_DEADLOCK FALSE
