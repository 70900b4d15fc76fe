SPECIFICATION Spec
CONSTANTS
  Process = {p1, p2}
  Ttl = 2
  MaxLag = 2
  UNOWNED = UNOWNED
  GONE = GONE
  Slot = {s1, s2}
  STOP = STOP
  Context = {c1, c2}
  MaxFaults = 0
  NULL = NULL
SYMMETRY Symmetry
INVARIANT OneContext
