SPECIFICATION Spec
CONSTANTS
  Password = {p1, p2}
  Guess = {g1}
  Client = {q1}
  Token = {k1}
  Editor = {e1}
  NoPassword = NoPassword
  MaxAttempts = 1
  Cooldown = 1
  Lifetime = 1
PROPERTY
  OwnerSetsPassword
CHECK_DEADLOCK FALSE
