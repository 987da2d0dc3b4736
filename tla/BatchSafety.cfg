SPECIFICATION Spec
CONSTANTS
  Keys = {k1, k2}
  Hours = 2
  BatchMax = 2
  MaxFrames = 3
  MaxStarts = 3
INVARIANTS
  TypeOK
  CheckpointNeverOverstates
  TailsAreNoted
  CollectedDayIsExact

CHECK_DEADLOCK FALSE
PROPERTY
  ArchiveSpec
