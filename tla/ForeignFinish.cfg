SPECIFICATION Spec
CONSTANTS
  NAgents = 2
  MaxRuns = 2
  MaxStarts = 3
  MaxAgents = 2
  Intent = {"followup"}
  NFinals = 1
  CanStop = FALSE
  CanCrash = FALSE
PROPERTIES FinishedByItself
CHECK_DEADLOCK FALSE
