SPECIFICATION Spec
CONSTANTS
  Lead = {l1}
  Manager = {b1}
  Agent = {a1, a2}
  Request = {q1}
  Reason = {r1}
  None = None
  MaxEntries = 2
INVARIANT
  SystemEntriesAreMade
