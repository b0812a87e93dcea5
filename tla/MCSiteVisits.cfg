SPECIFICATION VisitSpec
CONSTANTS
  Task = {t1, t2}
  Member = {m1, m2}
  Rule = {}
  Thread = {}
  Visit = {v1}
  Sweeper = {s1}
  Scheduler = {}
  Editor = {}
  Reminder = {}
  MaxTime = 3
INVARIANTS
  AlertsMatchTasks
  OpenReminderHasVisit
  ReminderIsAligned
  VisitHasReminder
SYMMETRY Symmetry
CHECK_DEADLOCK FALSE
