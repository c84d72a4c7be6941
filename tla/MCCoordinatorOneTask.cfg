SPECIFICATION Spec
CONSTANTS
  AskTasks = {a}
  TalkTasks = {}
  PilotTasks = {}
  Workers = {w1, w2, w3}
  Plans = {p1, p2}
  Texts = {x, y}
  None = None
  MaxCalls = 3
  MaxRestarts = 1
SYMMETRY Symmetry
INVARIANTS
  TypeOK
  WritesApproved
  ExecuteFindsApproval
PROPERTIES
  ApprovalSingleUse
CHECK_DEADLOCK FALSE
