SPECIFICATION Spec
CONSTANTS
  t1 = t1
  xlm = xlm
  Config <- BaseConfig
  VaultConfig <- PoolConfig
  PRECISION = 12
  FEE_PRECISION = 100000
  MAX_OPEN_POSITIONS_TOTAL = 3
  MAX_OPEN_POSITIONS_PER_TRADER = 2
  MAX_OPEN_ORDERS_TOTAL = 3
  MAX_OPEN_ORDERS_PER_TRADER = 2
  FULL_FREEZE_MAX_SECS = 1
  InitialLiquidity = 16
  InitialBuffer = 1
  InitialRisk <- LadderRisk
  Traders = {t1}
  Assets = {xlm}
  Prices = {3, 4}
  Collaterals = {4}
  Leverages = {2}
  Fees = {1}
  Payouts = {0}
  CloseSizes <- None
  Amounts <- None
  OrderTypes = {"LimitEntry"}
  Triggers = {3}
  Tolerances = {2600}
  TimesInForce = {"GTC"}
  Trails <- None
  RiskParams <- TightOnly
  FundingSteps <- FundingMoves
  NoeAmounts <- None
  PauseModes = {1, 2}
  Halts <- Booleans
  MaxPositions = 1
  MaxOrders = 1
  MaxCollateral = 8
  MaxFunding = 3
  MaxTime = 2
INVARIANT TypeOK
PROPERTY NoNewExposureWhenClosed
CHECK_DEADLOCK FALSE
