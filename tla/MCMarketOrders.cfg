SPECIFICATION Spec
CONSTANTS
  t1 = t1
  xlm = xlm
  Config <- BaseConfig
  VaultConfig <- PoolConfig
  PRECISION = 12
  FEE_PRECISION = 100000
  MAX_OPEN_POSITIONS_TOTAL = 3
  MAX_OPEN_POSITIONS_PER_TRADER = 2
  MAX_OPEN_ORDERS_TOTAL = 3
  MAX_OPEN_ORDERS_PER_TRADER = 2
  FULL_FREEZE_MAX_SECS = 2
  InitialLiquidity = 16
  InitialBuffer = 1
  InitialRisk <- NoRisk
  Traders = {t1}
  Assets = {xlm}
  Prices = {3, 4}
  Collaterals = {4}
  Leverages = {2}
  Fees = {1}
  Payouts = {0}
  CloseSizes <- None
  Amounts <- None
  OrderTypes = {"LimitEntry", "StopLimit", "StopLoss", "TakeProfit", "TrailingStop"}
  Triggers = {4}
  Tolerances = {2000}
  TimesInForce = {"GTC", "IOC", "PostOnly"}
  Trails = {2500}
  RiskParams <- None
  FundingSteps <- None
  NoeAmounts <- None
  PauseModes <- None
  Halts <- None
  MaxPositions = 1
  MaxOrders = 2
  MaxCollateral = 8
  MaxFunding = 0
  MaxTime = 1
INVARIANT Custody
INVARIANT OrderBookExact
CHECK_DEADLOCK FALSE
