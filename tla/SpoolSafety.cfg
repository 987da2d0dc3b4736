SPECIFICATION Spec
CONSTANTS
  SegmentBytes = 4
  MaxBytes = 10
  LineSizes = {2, 3}
  BatchSizes = {1, 2}
  MaxFrames = 4
  MaxStarts = 3
INVARIANTS
  TypeOK
  RecordReplays
  DiskIsBounded
PROPERTY
  LogSpec
