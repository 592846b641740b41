SPECIFICATION FairSpec
CONSTANTS
  p1 = p1
  p2 = p2
  p3 = p3
  p4 = p4
  attacker = attacker
  Players <- FourPlayers
  NoParty = NoParty
  MayJoin <- Joinable
  MaxMembers = 3
  Roles = {attacker}
  MaxConns = 2
  MaxEvents = 4
INVARIANTS PartiesAreFormed NobodyInTwoParties MembersAreConnected CachesAgree
PROPERTIES StaleCacheEnds
CHECK_DEADLOCK FALSE
