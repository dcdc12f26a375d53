CONSTANTS
  t1 = t1
  t2 = t2
  c1 = c1
  c2 = c2
  c3 = c3
  v1 = v1
  v2 = v2
  small = small
  large = large
  aligned = aligned
  Threads = {t1, t2}
  Coroutines = {c1, c2, c3}
  Callables = {small, large, aligned}
  NoCallable = NoCallable
  None = None
  Places <- MCPlaces
  InPlace <- MCInPlace
SPECIFICATION CoroutineSpec
SYMMETRY Symmetry
INVARIANTS
  ContextsInv
  BodiesInv
