SPECIFICATION FairSpec
CONSTANTS
  Commands = {c1}
  Ops = {"motorOn", "commOn"}
  HealthVaries = FALSE
  MayShutDown = FALSE
PROPERTIES MotorFollowsComm IdleIsLeft
CHECK_DEADLOCK FALSE
