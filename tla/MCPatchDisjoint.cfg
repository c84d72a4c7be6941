SPECIFICATION Spec
CONSTANTS
  r1 = r1
  r2 = r2
  a = a
  b = b
  t = t
  Runs = {r1, r2}
  Files = {b, t}
  TestFiles = {t}
  PlansOf <- Disjoint
  Faults = {"write", "restore", "commit", "crash", "cache", "editor"}
  MaxEdits = 1
  Absent = Absent
  Torn = Torn
  Base = Base
  Edited = Edited
  None = None
INVARIANTS
  NoTraceOfFailure
PROPERTIES
  OnlyReviewedFilesChange
CHECK_DEADLOCK FALSE
