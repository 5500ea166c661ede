SPECIFICATION Spec
CONSTANTS
  MaxMessages = 2
  MaxRuns = 3
  MaxLog = 6
  MaxCalls = 2
INVARIANTS TypeOK RecordsAgree ResultsFollowCalls SnapshotsComplete
PROPERTIES StopLeavesNothing KeepsOrder
CHECK_DEADLOCK FALSE
