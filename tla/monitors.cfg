\* Two runs and one fault; two accounts, three requests and one fault.
SPECIFICATION MonitorsSpec
CONSTANTS
  Runs = {r1, r2}
  NoRun = NoRun
  WorkerStale = 1
  StaleAfter = 1
  MaxGap = 2
  BeatFaults = 1
  AccountCount = 2
  Scanned = {1}
  TurnRequests = {r1, r2, r3}
  NoTurn = NoTurn
  LockRetries = 1
  Posts = 2
  TurnFaults = 1
INVARIANTS
  HealthIsEarned
PROPERTIES
  SilenceIsNoticed
  StaysWatched
CHECK_DEADLOCK FALSE
