SPECIFICATION Spec
CONSTANTS
  Sessions = {s1, s2}
  NoSession = NoSession
  Cells = 2
  StackLimit = 2
  MaxRows = 2
  MaxDrops = 2
  MaxGifts = 1
  MaxMoves = 1
  MaxQueue = 1
  MaxCuts = 0
SYMMETRY Symmetry
INVARIANTS PiecesConserved RowsMatchInventory
CHECK_DEADLOCK FALSE
