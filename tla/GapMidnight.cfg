SPECIFICATION Spec
CONSTANTS
  Days = 3
  FirstFrozen = 2
  MaxStarts = 2
INVARIANTS
  FrozenDayHasNoLoss
CHECK_DEADLOCK FALSE
