SPECIFICATION Spec
CONSTANTS
  Key = {k1, k2}
  NoKey = NoKey
  UpdateOnly = FALSE
  LeaseTurns = 0
  MaxFaults = 1
  MaxSessions = 2
  MaxVersions = 2
SYMMETRY Symmetry
VIEW View
INVARIANTS WritesItsOwn NoForgottenLease
PROPERTIES EditsKept NoLostUpdate
CHECK_DEADLOCK FALSE
