SPECIFICATION Spec
CONSTANTS
  Request = {r1, r2, r3}
  Booking = {b1}
  Staff = {s1}
  Service = {v1}
  Key = {k1}
  Start = {1}
  Total = {1}
  Legacy = {}
  Notice = 1
  MaxNow = 0
  NULL = NULL
PROPERTY CancelledNeverConfirmed
CHECK_DEADLOCK FALSE
