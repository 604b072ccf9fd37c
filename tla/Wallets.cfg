SPECIFICATION WalletsSpec
CONSTANTS
  WinMax = 4
  Range0 = 2
  Margin = 1
  Step = 2
  MaxSends = 2
  MaxIncoming = 1
  MaxHanded = 2
  MaxFaults = 1
  None = None
  Inherited <- Restored
  Requests <- Asks
  MaxAsks = 2
  MaxWindows = 2
INVARIANTS
  NeverTwiceOffered
  DistinctChange
  DroppedIsGone
  AnswersItsRequest
  HandedIsSpendable
PROPERTIES
  CoinsAreFound
  RequestsEnd
CHECK_DEADLOCK FALSE
