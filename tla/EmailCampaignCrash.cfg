SPECIFICATION Spec
CONSTANTS
  Address = {a1}
  Worker = {w1}
  Dispatcher = {d1}
  Request = {r1}
  MaxMessages = 1
INVARIANT
  InterruptedRowsAreRetryable
CHECK_DEADLOCK FALSE
