CONSTANTS
  Window = {w1, w2, w3}
  Key = {k1}
  CacheKey <- MCOwnKeys
  None = None
  Lists = {"SELECT"}
  MaxEntries = 1
  MaxAsked = 2
  MaxWrites = 1
SYMMETRY MCWindows
SPECIFICATION Spec
INVARIANTS SavesForgotten SelectionsRefreshed
CHECK_DEADLOCK FALSE
