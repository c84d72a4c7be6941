SPECIFICATION FairSpec
CONSTANTS
  Tasks = {1, 2}
  AskTasks = {1, 2}
  Plans = {p}
  Digests = {d1, d2}
  None = None
  Old = {1}
  Polls = {q}
  MaxAtOnce = 1
  MaxDetours = 1
PROPERTIES
  ApprovalIsNotHidden
CHECK_DEADLOCK FALSE
