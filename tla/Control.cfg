SPECIFICATION Spec
CONSTANTS
  MaxRequests = 2
  MaxFaults = 1
  MaxCuts = 1
  MaxTokens = 2
  Ttl = 3
  MaxFailures = 2
  Lockout = 2
  MaxTime = 7
  MaxWrong = 5
  MaxIssued = 4
  MaxRestarts = 1
  Sources = {1, 2}
  CmdQueueLen = 2
  MaxSessions = 4
  MaxCommands = 4
  MaxLevel = 2
  QueueLen = 2
  MaxEdges = 3
  MaxEvents = 3
  MaxClock = 8
  Duration = 4
INVARIANTS
  
  AccessKept
  CommandsReachSource
  HeardAsSet
  PositionHonest
CHECK_DEADLOCK FALSE
