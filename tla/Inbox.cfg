SPECIFICATION Spec
CONSTANTS
  Watchdog = Watchdog
  Agents = {a1}
  Keep = 2
  Batch = 2
  Limit = 1
  MaxNotes = 1
  MaxProgress = 1
  Overlap = FALSE
  MaxAck = 2
INVARIANTS TypeOK FollowsAll PagesAgree PublishedOnce
PROPERTIES EndIsPublished FollowerCatchesUp
CHECK_DEADLOCK FALSE
