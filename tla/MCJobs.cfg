SPECIFICATION FairJobsSpec
CONSTANTS
  Client = {p1, p2}
  Nobody = Nobody
  Threads = {1, 2}
  MaxTask = 2
  MaxBatch = 1
INVARIANTS EveryResultOnce RunCountIsPending
PROPERTY RunResultsEnd
CHECK_DEADLOCK FALSE
