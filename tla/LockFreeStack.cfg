CONSTANTS
  Threads = {t1, t2, t3}
  Nodes = {n1, n2, n3, n4}
  Null = Null
  Closed = Closed
SPECIFICATION StackSpec
SYMMETRY Symmetry
INVARIANTS
  LinksInv
PROPERTIES
  ImplementsNodeStack
