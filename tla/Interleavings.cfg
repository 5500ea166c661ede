SPECIFICATION Spec
CONSTANTS
  NAgents = 2
  MaxRuns = 2
  MaxStarts = 3
  MaxAgents = 1
  Intent = {"followup"}
  NFinals = 1
  CanStop = TRUE
  CanCrash = TRUE
INVARIANTS TypeOK NoZombie CapacityKept NothingForgotten
PROPERTIES FollowsLifecycle
CHECK_DEADLOCK FALSE
