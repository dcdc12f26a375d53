CONSTANTS
  Workers = {w1, w2}
  Clients = {c1}
  Main = main
  Tasks = {k1, k2, k3}
  NoTask = NoTask
  CondVars <- MCCondVars
  WordSize = 8
SPECIFICATION FairSpec
INVARIANTS
  CountingInv
  NoTaskIsMissed
PROPERTIES
  ImplementsTaskPool
  TasksRun
  StopReturns
