SPECIFICATION ServicesSpec
CONSTANTS
  Requests = {q1, q2, q3}
  Addresses = {a1, a2}
  Window = 1
  MaxClaims = 2
  MaxAddrs = 1
  MaxUnits = 5
  MaxFailures = 1
  Estimate = 2
  Actuals = {1, 3}
  ConfigOK = TRUE
  SavesFail = FALSE
  MaxNow = 2
  MaxRestarts = 1
  m1 = m1
  m2 = m2
  m3 = m3
  a1 = a1
  a2 = a2
  Mentions = {m1, m2, m3}
  Authors = {a1, a2}
  AuthorOf <- MCAuthor
  MaxBotCrashes = 2
  MaxFaults = 1
  SignerSeeds = {"ours", "other"}
  Files <- Psbts
  NoFile = NoFile
  PayNets = {"mainnet", "testnet4"}
  Nothing = Nothing
  MaxPrompts = 2
  FlowNets = {"testnet3", "testnet4"}
  Forms = {"f1", "f2"}
  NoFlow = NoFlow
  MaxKey = 1
  MaxFlows = 2
  ScreenNets = {"mainnet", "testnet4", "signet"}
  Home = "mainnet"
  Extra = {"signet"}
  Faucet = "testnet4"
  NoNetwork = NoNetwork
  MaxCoin = 1
  HotNets = {"testnet4", "signet"}
  ScriptTypes = {"p2wpkh", "p2tr", "p2pk"}
  Nil = Nil
  MaxGen = 2
  VaultSeeds = {"w1", "w2"}
  NoSeed = NoSeed
  NoRun = NoRun
  MaxSearches = 3
  Currencies = {"usd", "gbp"}
  NoPrice = NoPrice
  Asks = {"a1", "a2"}
  TTL = 1
  MaxStale = 2
  Seeds = {"w1"}
  PageKeys = {"k1"}
  OldFiles <- MCOldFiles
  NoSecret = NoSecret
  MaxSaves = 1
  Phrases = {"w1"}
  Passes = {"p", "q"}
  LockedKeys = {"k1"}
  Passwords = {"a", "b"}
  PracticeNets = {"testnet4", "signet"}
  Backups <- MCBackups
  Absent = Absent
  MaxFiles = 4
  Discoveries = {"page", "send"}
  Gap = 2
  MaxIndex = 3
  MaxCoins = 3
  MaxDiscoveries = 2
INVARIANTS
  WindowRespected
  FailureBurstTrips
  LatchDurable
  MentionPaysOnce
  PaymentIsAsShown
  SignedWasShown
  OpenWalletHasItsFile
  DiscoveryFinds
  SeedStaysCovered
  AnswersAreOfAsked
  UnsavedKeyHoldsForm
PROPERTIES
  NoAutoResume
CHECK_DEADLOCK FALSE
