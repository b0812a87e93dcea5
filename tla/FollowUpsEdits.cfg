SPECIFICATION Spec
CONSTANTS
  Task = {t1, t2}
  Member = {m1}
  Rule = {quote}
  Thread = {reply}
  Visit = {}
  Sweeper = {s1}
  Scheduler = {c1, c2}
  Editor = {e1}
  Reminder = {r1, r2}
  MaxTime = 1
INVARIANTS
  OneOpenPerRule
  OneReminderPerThread
CHECK_DEADLOCK FALSE
