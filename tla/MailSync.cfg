SPECIFICATION Spec
CONSTANTS
  Mail = {m1}
  Sync = {k1, k2}
  Overlap = 1
  Backfill = {1}
  Day = 1
  Zone = 0
  Patience = 1
  MaxTime = 2
INVARIANTS
  NothingSkipped
PROPERTIES
  MailArrives
  EmptyMailboxFails
CHECK_DEADLOCK FALSE
