SPECIFICATION FairSpec
CONSTANTS
  s1 = s1
  s2 = s2
  Sessions <- TwoPlayers
  NoSession = NoSession
  Things = 1
  StartGold <- RichAndPoor
  GoldMax = 2
  OfferLimit = 2
  MaxRows = 3
  MaxQueue = 1
  MaxEvents = 4
INVARIANTS TypeOK PairsAreMutual CommitConservesThings
PROPERTIES AcceptMeansUnchanged CommitSettles
CHECK_DEADLOCK FALSE
