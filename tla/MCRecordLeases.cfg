SPECIFICATION FairSpec
CONSTANTS
  Client = {b1, b2}
  NoClient = NoClient
  HasDateTime = TRUE
  MaxSessions = 2
  MaxWrites = 3
  MaxClock = 2
  TicksPerDay = 4
  LeaseTicks = 1
INVARIANT NoOrphanLease
PROPERTIES NoLostUpdate RequestsAnswered ExpiryJudgedRightly
CHECK_DEADLOCK FALSE
