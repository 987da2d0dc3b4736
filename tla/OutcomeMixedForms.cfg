SPECIFICATION Spec
CONSTANTS
  Mints = {m1}
  Pools = {p1, p2}
  Horizons = {2, 4}
  Instants = {0, 1, 2, 3}
  MaxFrames = 3
  MaxStarts = 2
INVARIANTS
  CapturedIsCausal
CHECK_DEADLOCK FALSE
