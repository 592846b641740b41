SPECIFICATION Spec
CONSTANTS
  s1 = s1
  s2 = s2
  Sessions <- TwoPlayers
  NoSession = NoSession
  Things = 1
  StartGold <- RichAndPoor
  GoldMax = 2
  OfferLimit = 2
  MaxRows = 3
  MaxQueue = 1
  MaxEvents = 3
INVARIANT TradeConservesWealth
CHECK_DEADLOCK FALSE
