SPECIFICATION Spec
CONSTANTS
  Request = {r1, r2}
  Booking = {b1, b2}
  Staff = {s1}
  Service = {v1}
  Key = {k1}
  Start = {0, 1}
  Total = {1}
  Legacy = {b1}
  Notice = 1
  MaxNow = 0
  NULL = NULL
INVARIANT RescheduleAnswerHappened
CHECK_DEADLOCK FALSE
