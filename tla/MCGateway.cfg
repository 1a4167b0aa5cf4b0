SPECIFICATION FairSpec
CONSTANTS
  q1 = q1
  q2 = q2
  p = p
  x = x
  y = y
  None = None
  Requests = {q1, q2}
  Retries = 1
  Seeds = {p}
  Keys = {x, y}
  SeedKey <- MCSeedKey
  MaxFailures = 1
CHECK_DEADLOCK FALSE
INVARIANTS OkTookEffect FailureIsTruthful NoTwins MadeTwiceOnlyIfLate
PROPERTIES OldWritesOnlyIfLate EveryRequestAnswered RetryIsAnRpc
