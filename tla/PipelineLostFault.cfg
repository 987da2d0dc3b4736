SPECIFICATION Spec
CONSTANTS
  Capacity = 2
  ByteCapacity = 2
  BatchMax = 2
  ProgressMax = 2
  Sizes = {1}
  MaxFrames = 3
  MaxFaults = 2
  PipeTimeout = TRUE
INVARIANTS
  CollectedMeansComplete
