SPECIFICATION Steps
CONSTANTS
  Parts = {"gates"}
  Bands = {1, 2}
  Gains = {0, 1}
  MaxEqChanges = 2
  MaxEdges = 2
  QueueLen = 2
  MaxLinks = 2
  MaxNetEdges = 1
  MaxClients = 1
  MaxRtp = 4
  Targets = {0, 4}
  MaxSeeks = 2
  MaxSock = 1
  Capacity = 1
  MaxExpected = 5
  MaxLead = 2
  SeekThreshold = 1
  gate_window = 2
INVARIANTS
  GatesExact
CHECK_DEADLOCK FALSE
