SPECIFICATION FairSpec
CONSTANTS
  AskTasks = {a}
  TalkTasks = {k}
  PilotTasks = {}
  Workers = {w1, w2}
  Plans = {p1}
  Texts = {x}
  None = None
  MaxCalls = 2
  MaxRestarts = 1
INVARIANTS
  RunningHasWorker
PROPERTIES
  ClosedIsFinal
  SettledOnlyReopenedByLateThread
  RunSettles
  WorkersReturn
  ImplementsTaskLife
CHECK_DEADLOCK FALSE
