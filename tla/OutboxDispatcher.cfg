SPECIFICATION FairSpec
CONSTANTS
  Row = {1, 2}
  Unknown = {2}
  Worker = {w1, w2}
  Limit = 2
  MaxAttempts = 2
  StaleLock = 1
  RetryDelay = 1
  MaxFaults = 1
  NULL = NULL
INVARIANTS TypeOK SentWasQueued FailedUsedAllAttempts SoleClaim
PROPERTIES DeliverySpec EveryRowSettles
