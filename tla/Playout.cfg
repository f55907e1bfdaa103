SPECIFICATION Spec
CONSTANTS
  MaxTs = 1
  MaxRequests = 4
  Anchors <- MCAnchors
  Capacity = 2
  Target = 2
  Fallback = 1
  MaxPendingEarly = 1
INVARIANTS
  TakenFramesComeBack
PROPERTIES
  
  PlayoutStarts
