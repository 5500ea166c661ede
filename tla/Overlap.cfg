SPECIFICATION Spec
CONSTANTS
  Process = {p1, p2}
  Conn = {c1}
  None = None
INVARIANTS OneDaemon
CHECK_DEADLOCK FALSE
