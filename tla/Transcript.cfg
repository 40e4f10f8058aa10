SPECIFICATION Spec
CONSTANTS
  t1 = t1
  t2 = t2
  call1 = call1
  call1x = call1x
  call10 = call10
  call2 = call2
  functionsTask0 = functionsTask0
  Task = {t1, t2}
  Main = Main
  NoId = NoId
  IdPairs <- MCIdPairs
  ToolId = {call10, NoId}
  Rough <- MCRough
  TaskLike = {functionsTask0}
  Index = {0}
  Limit = 60
  HeadLen = 10
  ChunkLen = 12
  TextTail = 20
  Marker = 16
  StatusLen = {0, 8, 30}
  MaxEvents = 6
INVARIANTS
  SubagentsQuiet
  MainIsHeardAgain
  BlocksKeepApart
  RenderShowsTheEnd
CHECK_DEADLOCK FALSE
