SPECIFICATION Spec
CONSTANTS
  Address = {a1, a2}
  Worker = {w1, w2}
  Dispatcher = {d1, d2}
  Request = {r1}
  MaxMessages = 1
INVARIANTS
  SoleSender
  DuplicateNeedsFault
PROPERTIES
  OptOutHonoured
  ImplementsLedger
  CampaignSettles
CHECK_DEADLOCK FALSE
