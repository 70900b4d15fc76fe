SPECIFICATION FairSpec
CONSTANTS
  Process = {p1, p2}
  Ttl = 2
  MaxLag = 2
  UNOWNED = UNOWNED
  GONE = GONE
  Slot = {s1}
  STOP = STOP
  Context = {c1, c2}
  MaxFaults = 2
  NULL = NULL
INVARIANTS TypeOK LeaseIsExclusive StrayOnlyAtExit
PROPERTIES LeaderStepsDown FailOver
