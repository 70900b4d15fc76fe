SPECIFICATION FairSpec
CONSTANTS
  Process = {p1, p2}
  Ttl = 2
  MaxLag = 2
  UNOWNED = UNOWNED
  GONE = GONE
  Slot = {s1, s2}
  MaxFaults = 2
INVARIANTS TypeOK OverlapNeedsOverrun
PROPERTIES LeaseSpec JobKeepsRunning
