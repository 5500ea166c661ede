SPECIFICATION Spec
CONSTANTS
  NAgents = 1
  MaxRuns = 3
  MaxStarts = 3
  MaxAgents = 1
  Intent = {"followup"}
  NFinals = 0
  CanStop = FALSE
  CanCrash = FALSE
PROPERTIES ResumesInactive
CHECK_DEADLOCK FALSE
