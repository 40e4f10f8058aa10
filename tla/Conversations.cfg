SPECIFICATION Spec
CONSTANTS
  Msg = {m1, m2, m3, m4}
  Voice = {m4}
  None = None
  MaxClears = 2
SYMMETRY TextSymmetry
INVARIANTS
  BothIdsResolve
  StoreInStep
  ClearedStaysCleared
  WithdrawnNeverRuns
  StoredTreesRebuild
CHECK_DEADLOCK FALSE
