SPECIFICATION ApartSpec
CONSTANTS
  c1 = c1
  c2 = c2
  f1 = f1
  f2 = f2
  f3 = f3
  Conn = {c1, c2}
  Key = {k1, k2}
  NoConn = NoConn
  NoFiber = NoFiber
  MaxDepth = 3
  Fiber = {f1, f2, f3}
  ConnOf <- TwoAndOne
SYMMETRY Symmetry
INVARIANTS TasksExclude CacheIsBacked
