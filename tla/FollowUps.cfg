SPECIFICATION Spec
CONSTANTS
  Task = {t1, t2, t3}
  Member = {m1}
  Rule = {quote}
  Thread = {}
  Visit = {}
  Sweeper = {s1}
  Scheduler = {c1}
  Editor = {}
  Reminder = {}
  MaxTime = 2
INVARIANTS
  OneOpenPerRule
  AlertsMatchTasks
  CompletionHasOneSuccessor
PROPERTIES
  ClosedIsTerminal
  LapsedIsFlagged
  RuleIsAnswered
CHECK_DEADLOCK FALSE
