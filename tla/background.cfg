\* Two opportunities and two faults; two setups, one slot and one row; two
\* workers; a clock of four; two threads; one reader and two writers.
SPECIFICATION MCSpec
CONSTANTS
  Opportunities = {1, 2}
  OrdersPerRun = 1
  FunnelFaults = 2
  Setups = {1, 2}
  DailyCap = 1
  MaxRows = 1
  Presses = {p1}
  LedgerFaults = 1
  Workers = {w1, w2}
  Symbols = {a, b}
  Defaults = {a}
  MaxSymbols = 1
  Calls = {c1}
  NoWorker = NoWorker
  StreamFaults = 1
  Requests = {r1}
  Ttl = 1
  Stale = 2
  Timeout = 1
  MaxClock = 4
  None = None
  Poller = Poller
  Slots = {s1, s2}
  Tickers = {t1}
  Nobody = Nobody
  Scan = Scan
  MaxQueue = 1
  PoolFaults = 1
  Procs = {1, 2}
  Readers = {11}
  Writers = {21, 22}
  Home <- HomeOf
  KeepsStamp = TRUE
  OneWriter = TRUE
  MaxWrites = 3
INVARIANTS
  EveryOpportunityIsTold
  LiveIsAccountedFor
  WatchedIsSubscribed
  LabelsAreTrue
  OneRefreshPerKey
  ReadsAreRecent
PROPERTIES
  GradeStands
  AwaitingEnds
  StreamRecovers
  PagesAreRenewed
CHECK_DEADLOCK FALSE
