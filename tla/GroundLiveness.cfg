SPECIFICATION FairSpec
CONSTANTS
  Sessions = {s1, s2}
  NoSession = NoSession
  Cells = 1
  StackLimit = 2
  MaxRows = 3
  MaxDrops = 1
  MaxGifts = 2
  MaxMoves = 0
  MaxQueue = 2
  MaxCuts = 1
PROPERTIES LeavesGroundStored PickupAnswered
CHECK_DEADLOCK FALSE
