SPECIFICATION DataSpec
CONSTANTS
  Mints = {m1}
  Pools = {p1, p2}
  Horizons = {2, 4}
  Instants = {1, 2, 3, 5}
  MaxFrames = 4
  MaxStarts = 2
  LastHour = 1
  Blocks = 1
  Workers = 1
  MaxDayRuns = 2
  Nothing = Nothing
  Broken = Broken
INVARIANTS
  DataTypeOK
  CapturedToTheSecond
  StatesAreNewest
  PendingIsQueued
  DayIsWhole
PROPERTIES
  RecordsAreFinal
CHECK_DEADLOCK FALSE
