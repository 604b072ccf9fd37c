SPECIFICATION NodeSpec
CONSTANTS
  r1 = r1
  r2 = r2
  r3 = r3
  e1 = e1
  e2 = e2
  k1 = k1
  o1 = o1
  o2 = o2
  None = None
  Claims = {r1, r2}
  Entitlements = {e1, e2}
  Keys = {k1}
  Outpoints = {o1}
  Versions = {1}
  EntitlementOf <- TwoEntitlements
  KeyOf <- NoKeys
  MaxBroadcasts = 1
  ForeignOps = {o1}
  MaxDepth = 2
  MaxReorgs = 2
  Worker = worker
  OwnNode = TRUE
  UseLock = TRUE
  Honest = FALSE
  MaxPicks = 2
  DailyCap = 500
  MinRetireConf = 2
  MaxCrashes = 1
  Clients = {"c1", "c2"}
  NoJob = NoJob
  MaxQueued = 1
  MaxVanityJobs = 3
  Scripts = {"s1", "s2"}
  Tip = "tip"
  RelayCalls = {"c1", "c2"}
  RelayJobs = {"j1", "j2"}
  Concurrency = 2
  MaxKept = 2
  Broadcasts = {"r1", "r2", "r3"}
  NoCode = NoCode
  MaxBroadcastHits = 3
  InflightMax = 1
  PrevRequests = {"p1", "p2"}
  SendRequests = {"b1", "b2"}
  NoResponse = NoResponse
  MaxRequestHits = 1
  MaxPrev = 1
  Attempts = 1
  Polls = 1
  Chats = {"c1"}
  NoAsk = NoAsk
  Runs = {"w1", "w2"}
  MaxSubs = 1
  MaxIds = 2
  MaxUpdates = 2
  MaxTip = 1
  MaxPosts = 1
  MaxMoves = 2
  MaxBotRestarts = 1
  Txs = {1, 2}
  NoTip <- MCNoTip
  Room = 1
  EntriesPerPoll = 1
  ValuePerPoll = 1
  KeepArrivals = 1
  KeepBlocks = 3
  MaxHeight = 2
  MaxBlocks = 2
INVARIANTS
  InputsHeld
  AuthorisedOwnsCoins
  VerdictsAreTrue
  AlertsSound
  OneListingShown
  PlacesComeBack
PROPERTIES
  TerminalIsFinal
CHECK_DEADLOCK FALSE
