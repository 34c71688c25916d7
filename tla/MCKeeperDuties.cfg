SPECIFICATION MCSafe
CHECK_DEADLOCK FALSE
CONSTANTS
  Parts = {"publish", "duties", "health"}
  Endpoints = 2 MaxRetries = 2 SendAttempts = 2 PollAttempts = 1 BaseFee = 2 MaxFee = 3 MaxTxFaults = 1
  MaxId <- PositionIds ChunkSize = 1 PageStreak = 2 MaxDiscoveryFaults = 1
  Iso = {p} Cross = {c} Orders = {o} Worlds = {{p}, {c}, {o}} Levels = {1, 2, 3, 4}
  BankruptAt = 1 LiqAt = 2 CandAt = 3 WinAt = 4 ConfirmReads = 2 SweepEvery = 2 StuckCycles = 2
  MaxClosesPerCycle = 1 MaxMoves = 2 MaxScanFaults = 1
  Assets = {a} TopPrice = 7 StartPrice = 3 MinPrice = 1 MaxPrice = 6 MaxMove = 1 Window = 5 SaveEvery = 2
  SyncMove = 2 FullSyncEvery = 2 MaxClock = 3 MaxPubFaults = 2
  ContractInterval = 4 FundingInterval = 5 NotDueRetry = 3 FailedRetry = 1 CustodyStreak = 2 AlertWindow = 3
  DarkAfter = 2 DarkThrottle = 2 FrameMaxAge = 1 BackoffMax = 4 RelayPages = {2} MaxTime = 11 MaxDutyFaults = 3
  Precision = 10 BasisPoints = 100 MmBps = 15 Buffer = 2 TriggerBps = 100 ClearBps = 120
  Sizes = {7, 20} Entries = {3, 7} Collaterals = {2, 5} Marks = {1, 3, 4, 8, 11} Fundings = {0, 1, 3} Coverages = {0, 6, 40}
INVARIANTS  DutiesKept
PROPERTY LocalMathSafe
