SPECIFICATION FairSpec
CONSTANTS
  Request = {r1, r2}
  Booking = {b1, b2, b3}
  Staff = {s1}
  Service = {v1}
  Key = {k1}
  Start = {1}
  Total = {1}
  Legacy = {b1}
  Notice = 1
  MaxNow = 1
  NULL = NULL
PROPERTIES DiarySpec EveryRequestAnswered
CHECK_DEADLOCK FALSE
