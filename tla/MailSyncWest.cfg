SPECIFICATION Spec
CONSTANTS
  Mail = {m1}
  Sync = {k1}
  Overlap = 1
  Backfill = {2}
  Day = 2
  Zone = 1
  Patience = 1
  MaxTime = 4
INVARIANTS
  NothingSkipped
CHECK_DEADLOCK FALSE
