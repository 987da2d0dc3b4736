SPECIFICATION Spec
CONSTANTS
  Keys = {k1}
  Shorts = {k1}
  Plans <- MCPlans
  NoPlan = NoPlan
  MaxAge = 2
  Programs = {cron, hermes}
  Senders = {cron}
  Prices = {0, 1, 2}
  MaxRuns = 4
  MaxOverlapping = 2
  Callers = {c1, c2}
  Outputs = {o1, o2}
  Queries = {q1}
  NoQuery = NoQuery
  Nobody = Nobody
  Estimates = {1, 2}
  HardStop = 1
  CheckpointCap = 1
  Included = 1
  CacheAge = 0
  BudgetAge = 0
  MaxTime = 1
  MaxExecutions = 2
  d1 = d1
  d2 = d2
  d3 = d3
  f1 = f1
  f2 = f2
  Disclosures = {d1, d2, d3}
  Filings = {f1, f2}
  FilingOf <- MCFilingOf
  Scanners = {daily, assistant}
  Reviewer = reviewer
  Verdicts = {"closed"}
  NoDraft = NoDraft
  MaxScans = 2
  MaxMarks = 1
  Trades = {t1, t2}
  Editor = editor
  Syncers = {s1, s2}
  NoEdit = NoEdit
  MaxUpdates = 1
  MaxSyncs = 3
  a = a
  b = b
  Tickers = {a, b}
  Reports <- MCReports
  Recorders = {report}
  Markers = {m1, m2}
  Offsets = {1, 2}
  OffsetLists <- MCOffsetLists
  Exits = {1}
  MarkAge = 1
  LastDay = 1
  MaxRecordings = 2
  MaxMarkings = 2
INVARIANTS
  TypeOK
  Deduplicated
  TouchIsAnswered
  GeometryIsHeld
  SpendIsBounded
  JournalKeeps
  SyncedOnce
  TrackerAgrees
PROPERTIES
  NoDoubleSpend
CHECK_DEADLOCK FALSE
