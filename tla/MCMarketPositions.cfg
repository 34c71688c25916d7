SPECIFICATION Spec
CONSTANTS
  t1 = t1
  xlm = xlm
  Config <- DeepBooks
  VaultConfig <- PoolConfig
  PRECISION = 100
  FEE_PRECISION = 100000
  MAX_OPEN_POSITIONS_TOTAL = 3
  MAX_OPEN_POSITIONS_PER_TRADER = 2
  MAX_OPEN_ORDERS_TOTAL = 3
  MAX_OPEN_ORDERS_PER_TRADER = 2
  FULL_FREEZE_MAX_SECS = 2
  InitialLiquidity = 240
  InitialBuffer = 1
  InitialRisk <- NoRisk
  Traders = {t1}
  Assets = {xlm}
  Prices = {80, 100}
  Collaterals = {40}
  Leverages = {4}
  Fees = {0}
  Payouts = {0}
  CloseSizes = {61}
  Amounts = {12}
  OrderTypes <- None
  Triggers <- None
  Tolerances <- None
  TimesInForce <- None
  Trails <- None
  RiskParams <- None
  FundingSteps <- None
  NoeAmounts <- None
  PauseModes <- None
  Halts <- None
  MaxPositions = 2
  MaxOrders = 0
  MaxCollateral = 40
  MaxFunding = 0
  MaxTime = 1
INVARIANT Custody
INVARIANT BooksFollowPositions
INVARIANT TrancheHelps
CHECK_DEADLOCK FALSE
