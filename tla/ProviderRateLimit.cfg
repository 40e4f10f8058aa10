SPECIFICATION Spec
CONSTANTS
  Stream = {s1, s2, s3}
  Native = {s3}
  Rate = 2
  Window = 3
  MaxConcurrency = 2
  MaxRetries = 1
  BaseDelay = 1
  MaxDelay = 2
  Jitter = 1
  Cooldown = 3
  MaxTime = 5
SYMMETRY StreamSymmetry
INVARIANTS
  StrictWindow
  SlotAccounting
  CallsBounded
CHECK_DEADLOCK FALSE
