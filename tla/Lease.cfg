SPECIFICATION Spec
CONSTANTS
  Runs = {r1, r2}
  NoRun = NoRun
  MaxConn = 2
  MayExpire = FALSE
  MayLogout = FALSE
INVARIANTS TypeOK QuiescentLeaseIsFree ReadyLeaseHasItsChrome LiveRunGetsOwnBrowser
PROPERTIES LeaseKeptWhileUsed
SYMMETRY RunSymmetry
CHECK_DEADLOCK FALSE
