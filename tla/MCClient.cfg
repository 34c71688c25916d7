SPECIFICATION MCSpec
CHECK_DEADLOCK FALSE
CONSTANTS
  ClientParts = {"trade", "page", "panel", "modal", "faucet", "lp", "wallet", "referral", "feed"}
  Clients = {"web", "sdk"} BaseFee = 1 FeePerKey = 2 MaxIntents = 2 MaxTx = 2 MaxIndex = 2 MaxMoves = 1
  Traders = {"a"} Rows = {1} OwnerOf <- AllOfOne Refreshes = {f1, f2} TrustTtl = 1 MaxLag = 1 PageScenes = {"positions", "orders"}
  PanelScenes = {"stops", "leader", "ladder", "pool"} MaxOrders = 1 MaxAsks = 3 MaxFlows = 2
  Marks = {"btc"} StaleAfter = 1 MaxFeedRuns = 2 MaxFeedReads = 3 MaxRounds = 3
  Pos = {"i", "x"} ModeOf <- CrossIsX MinCollateral = 2 MaxLeverage = 4 MaxSigned = 2 MaxShocks = 1
  FaucetScenes = {"claims", "onboarding"} Claims = {"c1", "c2", "c3"} ClaimAmounts = {1, 2} DailyLimit = 2 MaxPayments = 3 MaxDays = 2
  LpScenes = {"pool", "follower"} Wallets = {"a", "b"} Reads = {"r1", "r2"} Prices = {3, 4} DepositUsdc = 12 WithdrawShares = 2
  SlippageBps = 1 BpsUnit = 8 MaxFills = 2 MaxSwitches = 1
  Keys = {"A", "B"} Extensions = {"ext"} Reporting = {"ext"} MaxActs = 5
  Users = {"a", "b"} Codes = {"c1"} Fees = {5} RefBps = 10 DiscountBps = 1 ShareBps = 3 ProtocolBps = 3
  MaxEvents = 4 MaxAdminCalls = 1 RefScenes = {"invite", "create", "claims"} MaxClicks = 2
INVARIANTS    MoneyPages WalletHonest ReferralSound
SYMMETRY ClientSymmetry
