SPECIFICATION FairSpec
CONSTANTS
  r1 = r1
  r2 = r2
  i1 = i1
  i2 = i2
  None = None
  Fallback = Fallback
  Requests = {r1, r2}
  Instances = {i1, i2}
  Static = i2
  Registering = {i1}
  TTL = 2
  LookupTimeout = 2
  MaxTime = 4
  MaxFailures = 2
CHECK_DEADLOCK FALSE
INVARIANTS AtMostOnce AnswerIsTruthful
PROPERTIES TargetsAreRecent EveryRequestAnswered
