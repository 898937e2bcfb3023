SPECIFICATION FairSpec
CONSTANTS
  Runs = {r1}
  NoRun = NoRun
  MaxMem = 1
  PurgeLive = TRUE
  MayCrash = TRUE
PROPERTIES CancelledRunEnds
CHECK_DEADLOCK FALSE
