SPECIFICATION FairSpec
CONSTANTS
  Node = {n1, n2}
  Command = {c1}
  Clear = {c1}
  Lifespan = Lifespan
  Nobody = Nobody
INVARIANTS
  EveryProcessInReach
  NoOrphan
  SessionsReleased
  ExitKills
PROPERTIES
  StoppedTasksEnd
CHECK_DEADLOCK FALSE
