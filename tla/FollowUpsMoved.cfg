SPECIFICATION Spec
CONSTANTS
  Task = {t1, t2}
  Member = {m1}
  Rule = {}
  Thread = {reply}
  Visit = {}
  Sweeper = {}
  Scheduler = {}
  Editor = {e1}
  Reminder = {r1}
  MaxTime = 0
INVARIANT
  OneTaskPerThread
CHECK_DEADLOCK FALSE
