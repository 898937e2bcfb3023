SPECIFICATION Spec
CONSTANTS
  Runs = {r1, r2}
  NoRun = NoRun
  MaxConn = 1
  MayExpire = FALSE
  MayLogout = FALSE
PROPERTIES StartReturnsOwnLease
CHECK_DEADLOCK FALSE
