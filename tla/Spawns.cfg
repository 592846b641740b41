SPECIFICATION FairSpec
CONSTANTS
  Players = {p, q}
  Nobody = Nobody
  Gone = Gone
  Entries = {1, 2}
  Groups = {2}
  Aggressive = {1}
  Count <- Copies
  Time <- Updates
  Vids = {1, 2, 3, 4, 5}
  MaxHp = 2
  MaxEvents = 5
INVARIANTS AliveWithinCount SeenIsShown NoPhantoms
PROPERTIES RespawnsComeBack
CHECK_DEADLOCK FALSE
