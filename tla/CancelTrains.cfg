SPECIFICATION Spec
CONSTANTS
  Runs = {r1, r2}
  NoRun = NoRun
  MaxMem = 2
  PurgeLive = FALSE
  MayCrash = FALSE
INVARIANTS CancelledRunDoesNotTrain
CHECK_DEADLOCK FALSE
