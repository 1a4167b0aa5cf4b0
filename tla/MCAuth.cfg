SPECIFICATION FairSpec
CONSTANTS
  admin = admin
  jane = jane
  w1 = w1
  w2 = w2
  None = None
  s1 = s1
  States = {s1}
  Workers = {w1, w2}
  MaxRequests = 3
  Emails = {admin, jane}
  Defaults <- MCDefaults
  TokenLife = 1
  RowLife = 1
  StateLife = 0
  MaxTime = 1
  MaxFailures = 1
INVARIANTS RegistrationStands LoginHonoured RefreshHonoured StateUsedOnce
PROPERTY EveryWorkerServes
