SPECIFICATION Spec
CONSTANTS
  Task = {t1, t2}
  Member = {m1}
  Rule = {quote}
  Thread = {reply}
  Visit = {}
  Sweeper = {s1}
  Scheduler = {c1}
  Editor = {e1}
  Reminder = {r1}
  MaxTime = 1
PROPERTY
  ClosedIsTerminal
CHECK_DEADLOCK FALSE
