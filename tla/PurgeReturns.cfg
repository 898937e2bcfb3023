SPECIFICATION Spec
CONSTANTS
  Runs = {r1, r2}
  NoRun = NoRun
  MaxMem = 2
  PurgeLive = TRUE
  MayCrash = FALSE
PROPERTIES PurgedRunStaysGone
CHECK_DEADLOCK FALSE
