SPECIFICATION Spec
CONSTANTS
  t1 = t1
  xlm = xlm
  Config <- SmallBooks
  VaultConfig <- PoolConfig
  PRECISION = 100
  FEE_PRECISION = 100000
  MAX_OPEN_POSITIONS_TOTAL = 3
  MAX_OPEN_POSITIONS_PER_TRADER = 2
  MAX_OPEN_ORDERS_TOTAL = 3
  MAX_OPEN_ORDERS_PER_TRADER = 2
  FULL_FREEZE_MAX_SECS = 2
  InitialLiquidity = 200
  InitialBuffer = 1
  InitialRisk <- BookRisk
  Traders = {t1}
  Assets = {xlm}
  Prices = {85, 100}
  Collaterals = {11}
  Leverages = {4}
  Fees = {1}
  Payouts = {0}
  CloseSizes <- None
  Amounts <- None
  OrderTypes <- None
  Triggers <- None
  Tolerances <- None
  TimesInForce <- None
  Trails <- None
  RiskParams <- None
  FundingSteps <- FundingFalls
  NoeAmounts <- None
  PauseModes <- None
  Halts <- None
  MaxPositions = 2
  MaxOrders = 0
  MaxCollateral = 11
  MaxFunding = 27
  MaxTime = 1
INVARIANT LiquidationSelfFunded
CHECK_DEADLOCK FALSE
