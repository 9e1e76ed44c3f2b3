SPECIFICATION Spec
CONSTANTS
  p1 = p1
  p2 = p2
  a1 = a1
  a2 = a2
  c1 = c1
  c2 = c2
  Procs <- MCProcs
  Artifacts <- MCArtifacts
  Contents <- MCContents
  MaxRevision = 2
  MaxFaults = 1
SYMMETRY MCSymmetry
INVARIANTS TypeOK PublishedReadable BlockedOnlyWhenCut
PROPERTIES PublishesAtomically
CHECK_DEADLOCK FALSE
