SPECIFICATION FairSpec
CONSTANTS
  Runs = {r1, r2}
  NoRun = NoRun
  MaxConn = 1
  MayExpire = FALSE
  MayLogout = FALSE
PROPERTIES  LeaseIsExclusive
CHECK_DEADLOCK FALSE
