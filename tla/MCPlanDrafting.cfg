SPECIFICATION FairSpec
CONSTANTS
  api = api
  sub = sub
  my = my
  lib = lib
  tapi = tapi
  tflow = tflow
  tmisc = tmisc
  doc = doc
  bsub = bsub
  bflow = bflow
  l = l
  c = c
  g = g
  n = n
  Files = {api, sub, my, lib, tapi, tflow, tmisc, doc}
  Python = {api, sub, my, lib, tapi, tflow, tmisc}
  Tests = {tapi, tflow, tmisc}
  BaseName <- Base
  ByConvention <- Usual
  Importers <- Users
  Names <- Spelled
  Means <- Meaning
  Filename <- InFull
  PyFile <- BareTail
  ApiFiles = {api, sub}
  Fixtures = {tapi}
  None = None
  Models = {l, c, g, n}
  CloudModels = {c, g}
  CloudNames = {c, n}
  ChatModels = {l, c, g, n}
  BuilderModels = {l, c}
  Nobody = Nobody
  Requests <- Sent
  Availabilities <- Reported
  Projects <- Trees
  Turns = 2
  CloudTurns = 1
  MaxEdits = 1
INVARIANTS
  TypeOK
  OfflineStaysLocal
  ReservedWhileAsked
PROPERTIES
  TaskIsNotTalkedAway
  NamedFileIsTarget
  PlannedTestIsDecided
  RecommendedIsAccepted
  DraftAnswers
CHECK_DEADLOCK FALSE
