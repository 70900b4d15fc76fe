SPECIFICATION Spec
CONSTANTS
  Request = {r1, r2, r3}
  Booking = {b1, b2}
  Staff = {s1}
  Service = {v1}
  Key = {k1}
  Start = {0, 1}
  Total = {1, 2}
  Legacy = {}
  Notice = 1
  MaxNow = 0
  NULL = NULL
SYMMETRY Symmetry
INVARIANTS TypeOK NoDoubleBooking OpenMovesFit RecordsTrackRow StoredAnswersHappened
PROPERTY DiarySpec
CHECK_DEADLOCK FALSE
