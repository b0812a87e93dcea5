SPECIFICATION Spec
CONSTANTS
  Writer = {w1, w2}
  Reader = {r1}
  MaxChanges = 3
INVARIANT
  InvalidatedChangesShow
CHECK_DEADLOCK FALSE
