SPECIFICATION Spec
CONSTANTS
  r1 = r1
  r2 = r2
  r3 = r3
  e1 = e1
  e2 = e2
  k1 = k1
  o1 = o1
  o2 = o2
  None = None
  Claims = {r1, r2, r3}
  Entitlements = {e1, e2}
  Keys = {k1}
  Outpoints = {o1}
  Versions = {1, 2}
  EntitlementOf <- Mixed
  KeyOf <- OneKey
  MaxBroadcasts = 2
  ForeignOps = {}
  MaxDepth = 2
  MaxReorgs = 0
  Worker = worker
  OwnNode = FALSE
  UseLock = FALSE
  Honest = FALSE
  MaxPicks = 1
  DailyCap = 1
  MinRetireConf = 2
  MaxCrashes = 1
INVARIANTS
  AtMostOnePayment
  WriteAhead
  AdvisoryOnly
  DisjointPayments
PROPERTIES
  KeepsPromise
CHECK_DEADLOCK FALSE
