SPECIFICATION Spec
CONSTANTS
  User = {1, 2}
  Guest = {}
  Request = {r1}
PROPERTY
  RemovedStaysOut
CHECK_DEADLOCK FALSE
