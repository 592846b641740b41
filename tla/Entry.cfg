SPECIFICATION FairSpec
CONSTANTS
  a1 = a1
  Conns = {1, 2}
  Accounts <- OneAccount
  NoAccount = NoAccount
  Nobody = Nobody
  Slots = {1, 2}
  Names = {"n1", "n2"}
  Empires = {1, 2}
  MaxPid = 2
  MaxEvents = 3
  MaxFaults = 1
INVARIANTS OneHolder ListIsTheRows ProgressIsKept WorldHasThePlayers
PROPERTIES LoginsAreFreed
CHECK_DEADLOCK FALSE
