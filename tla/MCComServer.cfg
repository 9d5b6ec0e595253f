SPECIFICATION ComSpec
CONSTANTS
  Conns = {n1, n2}
INVARIANTS RegisteredExists CountsLiveClients PowerNeedsClient
CHECK_DEADLOCK FALSE
