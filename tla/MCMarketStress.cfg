SPECIFICATION Spec
CONSTANTS
  t1 = t1
  t2 = t2
  xlm = xlm
  Config <- BaseConfig
  VaultConfig <- PoolConfig
  PRECISION = 12
  FEE_PRECISION = 100000
  MAX_OPEN_POSITIONS_TOTAL = 3
  MAX_OPEN_POSITIONS_PER_TRADER = 2
  MAX_OPEN_ORDERS_TOTAL = 3
  MAX_OPEN_ORDERS_PER_TRADER = 2
  FULL_FREEZE_MAX_SECS = 2
  InitialLiquidity = 20
  InitialBuffer = 1
  InitialRisk <- NoRisk
  Traders = {t1, t2}
  Assets = {xlm}
  Prices = {2, 5}
  Collaterals = {4}
  Leverages = {2}
  Fees = {0}
  Payouts = {0}
  CloseSizes <- None
  Amounts <- None
  OrderTypes <- None
  Triggers <- None
  Tolerances <- None
  TimesInForce <- None
  Trails <- None
  RiskParams <- None
  FundingSteps <- None
  NoeAmounts = {4}
  PauseModes <- None
  Halts <- None
  MaxPositions = 3
  MaxOrders = 0
  MaxCollateral = 8
  MaxFunding = 0
  MaxTime = 1
SYMMETRY TraderSymmetry
INVARIANT WayOutCommits
CHECK_DEADLOCK FALSE
