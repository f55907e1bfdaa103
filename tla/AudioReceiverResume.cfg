SPECIFICATION Spec
CONSTANTS
  MaxRtp = 4
  Targets = {0, 1, 4}
  MaxSeeks = 2
  MaxSock = 1
  Capacity = 1
  MaxExpected = 6
  MaxLead = 2
  SeekThreshold = 1
  gate_window = 2
INVARIANT
  ResumeKeepsBuffer
CHECK_DEADLOCK FALSE
