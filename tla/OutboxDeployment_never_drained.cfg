SPECIFICATION Deployed
CONSTANTS
  Process = {p1}
  Ttl = 2
  MaxLag = 1
  UNOWNED = UNOWNED
  GONE = GONE
  Slot = {s1}
  STOP = STOP
  Context = {c1}
  MaxFaults = 0
  NULL = NULL
  Row = {1}
  Unknown = {}
  Limit = 1
  MaxAttempts = 2
  StaleLock = 1
  RetryDelay = 1
PROPERTY StaleRowIsSent
