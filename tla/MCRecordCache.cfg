SPECIFICATION ApartSpec
CONSTANTS
  Fiber = {f1, f2}
  Key = {k1, k2}
  None = None
  Program = Program
  MaxWrite = 3
SYMMETRY Symmetry
INVARIANTS CacheNotObsolete CacheIsCommitted
