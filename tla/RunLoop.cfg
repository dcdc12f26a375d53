CONSTANTS
  Jobs = {j1, j2, j3}
  Intrusive = {i1, i2}
  NoTask = NoTask
  Limits = {0, 2}
  MaxDepth = 3
  MaxRuns = 6
SPECIFICATION LoopSpec
SYMMETRY Symmetry
INVARIANTS
  LoopInv
PROPERTIES
  InOrder
