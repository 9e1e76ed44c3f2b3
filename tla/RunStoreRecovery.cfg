\* The promise of the comment at src/src/store.ts:230-233, and one crash.
SPECIFICATION Spec
CONSTANTS
  runner = runner
  observer = observer
  NoOne = NoOne
  Processes <- MCProcesses
  MaxRev = 3
  MaxFaults = 1
  MaxPlain = 1
  CutTails <- MCTorn
INVARIANT
  CrashRecoverable
CHECK_DEADLOCK FALSE
