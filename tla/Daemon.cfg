SPECIFICATION Spec
CONSTANTS
  Process = {p1, p2, p3}
  Conn = {c1, c2}
  None = None
INVARIANTS TypeOK Exclusive StoppedIsStopped
PROPERTY ShutdownEnds
CHECK_DEADLOCK FALSE
