SPECIFICATION Spec
CONSTANTS
  r1 = r1
  r2 = r2
  a = a
  b = b
  t = t
  Runs = {r1}
  Files = {a, t}
  TestFiles = {t}
  PlansOf <- OneRun
  Faults = {"write", "restore", "commit", "crash"}
  MaxEdits = 2
  Absent = Absent
  Torn = Torn
  Base = Base
  Edited = Edited
  None = None
INVARIANTS
  TypeOK
  NoTraceOfFailure
  CommittedIsTested
PROPERTIES
  RolledBackIsRestored
  SuccessIsTested
  ImplementsAtomicPatch
CHECK_DEADLOCK FALSE
