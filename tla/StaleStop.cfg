SPECIFICATION Spec
CONSTANTS
  NAgents = 1
  MaxRuns = 2
  MaxStarts = 2
  MaxAgents = 1
  Intent = {"followup"}
  NFinals = 1
  CanStop = FALSE
  CanCrash = FALSE
PROPERTIES StopEndsTheRun
CHECK_DEADLOCK FALSE
