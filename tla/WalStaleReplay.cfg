SPECIFICATION Spec
CONSTANTS
  Sessions = {s1, s2}
  NoSession = NoSession
  MaxBatch = 3
  PushPause = FALSE
  MaxMutations = 3
  MaxCrashes = 1
  MaxFaults = 1
SYMMETRY Symmetry
INVARIANT ReplayIsIdempotent
CHECK_DEADLOCK FALSE
