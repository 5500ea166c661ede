SPECIFICATION FairSpec
CONSTANTS
  NAgents = 1
  MaxRuns = 2
  MaxStarts = 2
  MaxAgents = 2
  Intent = {"message", "followup"}
  NFinals = 2
  CanStop = TRUE
  CanCrash = FALSE
INVARIANTS Registered NoLeak LockExclusive
PROPERTIES StopSettles FinalizersEnd ShutdownEnds
CHECK_DEADLOCK FALSE
