SPECIFICATION Spec
CONSTANTS
  Run = {s1, s2}
  Starters = {s1}
  MaxTerminals = 1
  MaxStarted = 2
  Client = {c1}
  Stoppable = {s1}
  Grouped = {}
  MaxSides = 2
INVARIANTS TypeOK NoZombie ShutdownIsClean
PROPERTIES OneOutcome StopIsComplete FinalizersEnd
CHECK_DEADLOCK FALSE
