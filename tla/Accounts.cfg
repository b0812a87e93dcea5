SPECIFICATION Spec
CONSTANTS
  Password = {p1}
  Guess = {g1, g2}
  Client = {q1}
  Token = {k1, k2}
  Editor = {e1}
  NoPassword = NoPassword
  MaxAttempts = 2
  Cooldown = 1
  Lifetime = 2
INVARIANTS
  GuessesAreBounded
  CodeWorksOnce
  ChangeSignsOut
PROPERTIES
  CodesGetThrough
CHECK_DEADLOCK FALSE
