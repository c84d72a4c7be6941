SPECIFICATION Spec
CONSTANTS
  r1 = r1
  r2 = r2
  a = a
  b = b
  t = t
  Runs = {r1, r2}
  Files = {a, t}
  TestFiles = {t}
  PlansOf <- Sharing
  Faults = {}
  MaxEdits = 0
  Absent = Absent
  Torn = Torn
  Base = Base
  Edited = Edited
  None = None
INVARIANTS
  NoFalsePass
CHECK_DEADLOCK FALSE
