SPECIFICATION Spec
CONSTANTS
  Capacity = 2
  ByteCapacity = 3
  BatchMax = 2
  ProgressMax = 1
  Sizes = {1, 2}
  MaxFrames = 3
  MaxFaults = 2
  PipeTimeout = TRUE
INVARIANTS
  TypeOK
  AckedIsCommitted
  StoppedSessionIsDrained
  CleanExitIsComplete
PROPERTIES
  IngestSpec
  OverflowStopsOrIsTold
