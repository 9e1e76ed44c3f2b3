\* Two processes, revisions 0..3: enough for two compactions with a
\* transition between them; any two faults and one event outside the outbox.
SPECIFICATION FairSpec
CONSTANTS
  runner = runner
  observer = observer
  NoOne = NoOne
  Processes <- MCProcesses
  MaxRev = 3
  MaxFaults = 2
  MaxPlain = 1
  CutTails <- MCTorn
INVARIANTS
  TypeOK
  
  MemoryIsDurable
  UnreadableOnlyWhenCut
PROPERTIES
  NoLostUpdate
  
  OperationsEnd
  
CHECK_DEADLOCK FALSE
