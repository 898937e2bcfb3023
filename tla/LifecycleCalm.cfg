SPECIFICATION Spec
CONSTANTS
  Runs = {r1, r2}
  NoRun = NoRun
  MaxMem = 2
  PurgeLive = FALSE
  MayCrash = TRUE
INVARIANTS TrainedRunHasReplay
SYMMETRY RunSymmetry
CHECK_DEADLOCK FALSE
