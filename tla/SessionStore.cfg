SPECIFICATION FairSpec
CONSTANTS
  Root = {n1}
  Node = {n1, n2}
  Msg = {m1, m2}
  Cap = 1
  Timer = {t1, t2, t3}
  Main = main
  NoTimer = NoTimer
  MaxChanges = 3
  MaxFailures = 1
  MaxCrashes = 1
INVARIANTS
  NoLostUpdate
  DirtyIsScheduled
  QuietIsSaved
  LogIdsAgree
PROPERTIES
  ChangesAreSaved
CHECK_DEADLOCK FALSE
