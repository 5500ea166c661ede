SPECIFICATION Spec
CONSTANTS
  Run = {s1}
  Starters = {s1}
  MaxTerminals = 1
  MaxStarted = 1
  Client = {c1}
  Stoppable = {s1}
  Grouped = {s1}
  MaxSides = 1
PROPERTIES NeverSurvive
CHECK_DEADLOCK FALSE
