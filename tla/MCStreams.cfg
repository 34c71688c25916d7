SPECIFICATION MCSpec
CHECK_DEADLOCK FALSE
CONSTANTS
  Parts = {"sockets", "tail", "client"}
  Wallets = {w, adm} AllowList = {} AdminWallets = {adm} Browsers = {b1, b2} MaxKeysPerOwner = 1
  CookieLife = 1 Scenes = {"keys", "panel", "site"} MaxChallenges = 3 MaxAudit = 4 MaxDay = 3
  Owners = {o1} KeysEach = 2 Ips = {ip} Limit = 1 PublicLimit = 2 JoinLimit = 1 Slots = {r1, r2} MaxWindow = 2 MaxRequests = 3
  Sockets = {s1, s2} SocketIps = {"ip"} IpOf <- OneAddress Accounts = {"x", "y"}
  MaxConnections = 2 MaxPerIp = 1 MsgRate = 1 MaxFailedLogins = 1 MaxWaiting = 1
  MaxRows = 3 MaxNow = 3 PageLimit = 2 Polls = {p1, p2}
  Feeds = {"t", "a"} Private = {"a"} WsSockets = {c1, c2} AppWaits = TRUE MaxBackoff = 1 MaxDrops = 2 MaxCalls = 6
  Deployments = {"now", "old"} CurrentMarket = "now" BoardTraders = {"x", "y"} TradeSizes = {1, 2} MaxLog = 3 MaxLedger = 2
  Visitors = {v1, v2} HistoryDepth = 2 MaxBoardRows = 2 MaxPages = 2
  BpsOne = 4 HotTtl = 1 ParamsTtl = 2 StaleGrace = 1 LoadTimeout = 1 PanelTtl = 1
  StartPool <- PoolInUse StartCaps <- FirstCaps CapSets <- OtherCaps CapacitySizes = {1} MaxTime = 5 MaxChanges = 1
  Calls = {"t1", "t2"} Clients = {"k1", "k2", "k3"} PoolMax = 1 Statements = 2 MaxErrors = 3 MaxTokens = 4 DbScenes = {"pool", "rewrite"}
INVARIANT StreamSafe
PROPERTY StreamsLive
