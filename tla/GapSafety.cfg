SPECIFICATION Spec
CONSTANTS
  Days = 3
  FirstFrozen = 3
  MaxStarts = 3
INVARIANTS
  TypeOK
  LossIsNoted
  CollectedDayHasNoLoss
CHECK_DEADLOCK FALSE
