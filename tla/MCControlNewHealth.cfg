SPECIFICATION FairSpec
CONSTANTS
  Commands = {c1}
  Ops = {"commOn", "motorOff", "commOff"}
  HealthVaries = TRUE
  MayShutDown = FALSE
PROPERTIES NewHealthFaultTurnsOff
CHECK_DEADLOCK FALSE
