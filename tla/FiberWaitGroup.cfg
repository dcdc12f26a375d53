CONSTANTS
  Fibers = {f1, f2, f3, f4}
  Workers = {w1, w2}
  None = None
  MaxCount = 2
SPECIFICATION FairSpec
INVARIANTS
  RoundsInv
PROPERTIES
  ImplementsFibers
  EveryWaitReturns
CHECK_DEADLOCK FALSE
