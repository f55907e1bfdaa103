SPECIFICATION Spec
CONSTANTS
  AccessPoints = {"a", "b"}
  Threshold = 2
  MaxChanges = 4
  MaxRefusals = 3
  Chunks = 3
  MaxUpdates = 3
  MaxCuts = 2
  RingSize = 4
  MaxWsClients = 2
  Fds = {1, 2, 3}
  Chunk = 2
  MaxLogged = 6
  MaxOpened = 3
  MaxTimeouts = 1
  Masters = {"m1", "m2"}
  Tolerance = 1
  Delays = {0, 2}
  MinSamples = 2
  MaxCalls = 2
  Slots = {1, 2}
  MaxClients = 3
  MaxConnections = 3
  MaxExchanges = 5
  MaxCommands = 4
  MaxBlocks = 2
  MaxOom = 2
INVARIANT
  PtpServes
CHECK_DEADLOCK FALSE
