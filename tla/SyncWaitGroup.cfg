CONSTANTS
  Adders = {a1, a2}
  Waiters = {w1, w2}
  MaxAdds = 2
  MaxCount = 2
  MaxWaits = 2
  CondVars <- MCCondVars
  WordSize = 3
SPECIFICATION FairGroupSpec
INVARIANTS
  GroupInv
PROPERTIES
  EveryWaitReturns
CHECK_DEADLOCK FALSE
