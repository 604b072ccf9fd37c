SPECIFICATION FairSpec
CONSTANTS
  g = g
  a1 = a1
  a2 = a2
  b1 = b1
  b2 = b2
  b3 = b3
  c1 = c1
  c2 = c2
  c3 = c3
  s1 = s1
  s2 = s2
  s3 = s3
  w1 = w1
  w2 = w2
  j1 = j1
  j2 = j2
  j3 = j3
  None = None
  Blocks = {g, a1, a2, b1, b2, b3}
  Genesis = g
  Tips = {a1, a2, b3}
  MaxHeight = 3
  Parent <- Chain
  Height <- Depths
  Coins = {c1, c2, c3}
  Spent <- Consumed
  Created <- Added
  UtxoAt <- Utxos
  Scripts = {s1, s2, s3}
  Wallets = {w1, w2}
  ScriptsOf <- Owned
  ScriptOf <- Locked
  Jobs = {j1, j2, j3}
  WalletOf <- Wanted
  p1 = p1
  x1 = x1
  Senders = {x1}
  SpendOf <- Sends
  Polls = {p1}
  Crowds <- Small
  Gens = {1, 2}
  MaxUnion = 2
  MaxCoins = 1
  MaxJobs = 3
  MaxLag = 3
INVARIANTS
  EntryExact
  LiveAligned
  JobsAreKept
PROPERTIES
  JobsEnd
CHECK_DEADLOCK FALSE
