SPECIFICATION FairSpec
CONSTANTS
  Tasks = {a, b}
  TalkTasks = {b}
  MaxTasks = 1
  None = None
  Holder = h
  Requests = {w}
  Streams = {s}
  MaxPolls = 2
  MaxEvents = 3
INVARIANTS
  TypeOK
  SentIsPrefix
  StatusComesWithHistory
  CompletedShowsChanges
PROPERTIES
  LogGrowsAtItsEnd
  StreamEnds
CHECK_DEADLOCK FALSE
