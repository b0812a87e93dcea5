SPECIFICATION Spec
CONSTANTS
  Writer = {w1}
  Reader = {r1, r2}
  MaxChanges = 2
INVARIANTS
  InvalidatedChangesShow
PROPERTIES
  AnswersCatchUp
CHECK_DEADLOCK FALSE
