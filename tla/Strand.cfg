CONSTANTS
  Fibers = {f1, f2, f3, f4}
  Workers = {w1, w2}
  None = None
SPECIFICATION FairSpec
INVARIANTS
  LeaderInv
PROPERTIES
  ImplementsFibers
  ImplementsCombiner
  CombineReturns
CHECK_DEADLOCK FALSE
