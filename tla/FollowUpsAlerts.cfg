SPECIFICATION Spec
CONSTANTS
  Task = {t1, t2}
  Member = {m1}
  Rule = {quote}
  Thread = {}
  Visit = {}
  Sweeper = {s1, s2}
  Scheduler = {c1, c2}
  Editor = {}
  Reminder = {}
  MaxTime = 2
PROPERTY
  OverdueAlerts
CHECK_DEADLOCK FALSE
