SPECIFICATION Spec
CONSTANTS
  Runs = {r1, r2}
  NoRun = NoRun
  MaxMem = 1
  PurgeLive = TRUE
  MayCrash = TRUE
INVARIANTS TypeOK OneRunAtWork RunAtWorkIsControllable OutcomeIsPersisted
PROPERTIES SourceReplayIsKept
SYMMETRY RunSymmetry
CHECK_DEADLOCK FALSE
