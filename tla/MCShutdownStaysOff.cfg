SPECIFICATION MainSpec
CONSTANTS
  Conns = {n1}
  MaxPolls = 2
  MaxChecks = 1
INVARIANTS ShutdownStaysOff
CHECK_DEADLOCK FALSE
