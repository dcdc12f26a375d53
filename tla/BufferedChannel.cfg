CONSTANTS
  Fibers = {f1, f2, f3}
  Workers = {w1, w2}
  None = None
  NoItem = NoItem
  Capacity = 2
  WordSize = 4
  MaxSent = 4
SPECIFICATION FairSpec
INVARIANTS
  WaitersInv
PROPERTIES
  ImplementsFibers
  ImplementsChannel
  ServedReturns
CHECK_DEADLOCK FALSE
