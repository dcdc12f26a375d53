CONSTANTS
  Fibers = {f1, f2, f3, f4}
  Workers = {w1, w2, w3}
  None = None
  Awaiters <- MCAwaiters
SPECIFICATION FairSpec
INVARIANTS
  PlacesInv
  NoFiberIsLost
PROPERTIES
  ScheduledRuns
CHECK_DEADLOCK FALSE
