CONSTANTS
  Fibers = {f1, f2, f3, f4}
  Workers = {w1, w2}
  None = None
SPECIFICATION OrderFairSpec
INVARIANTS
  BatonInv
  ClaimsInv
PROPERTIES
  ImplementsFibers
  ImplementsOwnership
  OvertakenOnce
  LockIsGranted
CHECK_DEADLOCK FALSE
