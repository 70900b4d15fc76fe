SPECIFICATION FairSpec
CONSTANTS
  Job = {j1, j2, j3}
  Keyless = {}
  Immediate = {}
  RetryThenDlq = {j3}
  Worker = {w1, w2}
  Attempts = 2
  Delay = 1
  LockTtl = 3
  MaxStalled = 1
  MaxFaults = 1
  NULL = NULL
INVARIANTS TypeOK WrittenOnce CompletedWasWritten FailedIsDeadLettered
PROPERTY EventIsWritten
CHECK_DEADLOCK FALSE
