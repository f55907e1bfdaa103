SPECIFICATION Spec
CONSTANTS
  Parts = {"onboarding", "pog", "ha", "lights"}
  Phones = {"p", "q"}
  MaxParts = 3
  MaxFrames = 5
  MaxLinks = 2
  MaxFaults = 1
  MaxCuts = 1
  Addresses = {"one", "two"}
  MaxMishaps = 2
  MaxSecrets = 8
  Wrap = 4
  Groups = {"g"}
  MaxCommands = 1
  MaxChanges = 3
  SeqWrap = 8
  Capacity = 2
  Timeout = 1
  Lead = 1
  Window = 2
  MaxFrame = 10
  MaxTime = 3
  MaxRequests = 2
  MaxMessages = 4
INVARIANTS
  NetworkAuthorised
  
PROPERTIES
  Enrols
  BusRecovers
  HaCatchesUp
  
CHECK_DEADLOCK FALSE
