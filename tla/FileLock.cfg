SPECIFICATION FairSpec
CONSTANTS
  cli = cli
  ui = ui
  runner = runner
  NoOne = NoOne
  Processes <- MCProcesses
  Protocols <- MCBoth
  MaxAttempts = 2
INVARIANTS TypeOK ExclusionUnlessMistaken
PROPERTY AbandonedLockIsTaken
\* Every process may have died or used its attempts.
CHECK_DEADLOCK FALSE
