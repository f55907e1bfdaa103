SPECIFICATION Spec
CONSTANTS
  MaxConns = 3
  MaxStarts = 2
INVARIANTS
  SessionFollowsClient
  StopLeavesNothing
PROPERTIES
  StoppedClientLeaves
CHECK_DEADLOCK FALSE
