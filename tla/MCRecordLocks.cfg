SPECIFICATION Spec
CONSTANTS
  Conn = {c1, c2}
  Key = {k1, k2}
  NoConn = NoConn
  MaxDepth = 2
SYMMETRY Symmetry
INVARIANTS TypeOK MutualExclusion ModeAgrees
PROPERTIES TransactionKeepsLocks ImplementsLockService
