SPECIFICATION Spec
CONSTANTS
  Address = {a1, a2}
  Worker = {w1, w2}
  Dispatcher = {d1}
  Request = {r1, r2}
  MaxMessages = 1
PROPERTY
  RetrySkipsSent
CHECK_DEADLOCK FALSE
