SPECIFICATION Spec
CONSTANTS
  Writer = {w1}
  Reader = {r1}
  MaxChanges = 2
INVARIANT
  AllInvalidatedChangesShow
CHECK_DEADLOCK FALSE
