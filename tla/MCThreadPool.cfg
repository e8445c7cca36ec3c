SPECIFICATION FairSpec
CONSTANTS
  Client = {c1, c2}
  Threads = {1, 2}
  MaxTask = 4
INVARIANTS PendingHasWorker EveryTaskOnce
PROPERTIES ShutdownProcessesAll TasksRun
CHECK_DEADLOCK FALSE
