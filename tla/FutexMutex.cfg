CONSTANTS
  Threads = {t1, t2, t3, t4}
  Nobody = Nobody
SPECIFICATION FairMutexSpec
INVARIANTS
  ExclusionInv
  SleepersAreRemembered
PROPERTIES
  SomebodyGetsIt
  ImplementsOwnership
