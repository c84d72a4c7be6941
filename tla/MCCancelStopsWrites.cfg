SPECIFICATION Spec
CONSTANTS
  AskTasks = {a}
  TalkTasks = {}
  PilotTasks = {}
  Workers = {w1, w2}
  Plans = {p1}
  Texts = {x}
  None = None
  MaxCalls = 1
  MaxRestarts = 0
PROPERTIES
  CancelStopsWrites
CHECK_DEADLOCK FALSE
