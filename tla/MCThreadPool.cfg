SPECIFICATION FairSpec
CONSTANTS
  Threads = {t1, t2, t3}
  Cmds = {c1, c2}
  Leaving = {c1}
  Slow = {c1}
  Size = 2
  Max = 3
  Sizes = {1}
  MaxResizes = 1
  MayShutDown = TRUE
INVARIANTS FinishedOnce JoinedOnce
PROPERTIES PoolSettles QueuedRuns ShutdownEnds
CHECK_DEADLOCK FALSE
