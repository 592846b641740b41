SPECIFICATION FairSpec
CONSTANTS
  Sessions = {s1, s2}
  NoSession = NoSession
  MaxBatch = 2
  PushPause = TRUE
  MaxMutations = 3
  MaxCrashes = 2
  MaxFaults = 1
INVARIANTS TypeOK FlushIsBarrier FileIsAtomic CommitsInPushOrder ReplayKeepsPlayers
PROPERTIES ImplementsDurableWrites FlushAnswered PushedIsSettled
CHECK_DEADLOCK FALSE
