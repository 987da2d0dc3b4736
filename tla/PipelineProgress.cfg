SPECIFICATION FairSpec
CONSTANTS
  Capacity = 2
  ByteCapacity = 2
  BatchMax = 2
  ProgressMax = 1
  Sizes = {1}
  MaxFrames = 3
  MaxFaults = 2
  PipeTimeout = FALSE
INVARIANTS
  CollectedMeansComplete
PROPERTIES
  ShutdownTerminates
  WorkerLossEndsRun
