SPECIFICATION FairSpec
CONSTANTS
  Request = {r1, r2, r3}
  Key = {k1, k2}
  NoRequest = NoRequest
  NoKey = NoKey
  Rate = 1
  Window = 1
  MaxRetries = 1
  Asked = {2}
  DefaultWait = 1
INVARIANTS
  NoFutureForgotten
  LatestIsShownUnlessRetried
PROPERTIES
  PauseRespected
  RequestsEnd
CHECK_DEADLOCK FALSE
