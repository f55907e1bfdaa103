SPECIFICATION Spec
CONSTANTS
  Producers = {recv}
  Flushers = {rtsp}
  Capacity = 3
  ChunkMax = 2
  MaxSamples = 3
  HalfRange = 4
  Origin = 6
  Span = 2
INVARIANTS
  TypeOK
  SlotsPartitioned
  PlaysInOrder
  CountersExact
  BinarySearchFindsPosition
PROPERTIES
  ImplementsFrameQueue
