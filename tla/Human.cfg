SPECIFICATION FairHumanSpec
CONSTANTS
  Modes = {"auto", "manual"}
  Submitted = 2
  MaxSteps = 3
  PlanEvery = 2
  MaxFailures = 2
  MaxHuman = 2
  MaxFaults = 1
INVARIANTS HumanTypeOK  InterruptHasACause 
PROPERTIES AutoRunEnds
CHECK_DEADLOCK FALSE
