SPECIFICATION FairSpec
CONSTANTS
  g = g
  a1 = a1
  a2 = a2
  b1 = b1
  b2 = b2
  b3 = b3
  b4 = b4
  c1 = c1
  c2 = c2
  c3 = c3
  t = t
  n = n
  p1 = p1
  p2 = p2
  None = None
  Blocks = {g, a1, a2, b1, b2, b3, b4, c1, c2, c3}
  Genesis = g
  Tips = {a2, b3, c3, b4}
  Parent <- Branches
  MaxHeight = 4
  Height <- Depths
  Txs = {t}
  TxsOf <- Carried
  Alerts = {n}
  TxOf <- About
  MinConf = 2
  MaxTrack = 3
  Passes = {p1}
  MaxFails = 0
  MaxRestarts = 0
PROPERTIES
  NeverSilentlyWrong
