SPECIFICATION Spec
CONSTANTS
  b1 = b1
  c1 = c1
  Mail = {m1, b1}
  Copy = {c1, c2}
  Sender <- MCSender
  Topic <- MCTopic
  Bounces <- MCBounces
  Thread = {t1, t2}
  SyncRun = {s1}
  Reply = {r1}
  MaxTries = 2
  MaxLeads = 1
INVARIANTS
  TypeOK
  SentIsOnRecord
  DuplicateReplyNeedsFault
PROPERTIES
  CountHeals
  BounceIsNoAnswer
  RepliesEnd
CHECK_DEADLOCK FALSE
