SPECIFICATION MainFairSpec
CONSTANTS
  Conns = {n1}
  MaxPolls = 1
  MaxChecks = 1
INVARIANTS ThreadsJoined 
PROPERTIES ShutdownEnds
CHECK_DEADLOCK FALSE
