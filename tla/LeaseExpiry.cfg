SPECIFICATION Spec
CONSTANTS
  Runs = {r1, r2}
  NoRun = NoRun
  MaxConn = 1
  MayExpire = TRUE
  MayLogout = TRUE
INVARIANTS ProxyBelongsToLease
SYMMETRY RunSymmetry
CHECK_DEADLOCK FALSE
