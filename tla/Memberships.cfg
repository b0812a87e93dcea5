SPECIFICATION Spec
CONSTANTS
  User = {1, 2}
  Guest = {}
  Request = {r1, r2}
INVARIANTS
  OwnerIsKept
PROPERTIES
  RequestsEnd
  BridgeRespectsDeactivation
CHECK_DEADLOCK FALSE
