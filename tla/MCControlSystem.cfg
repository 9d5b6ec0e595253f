SPECIFICATION Spec
CONSTANTS
  Commands = {c1}
  Ops = {"motorOn", "motorOff", "commOn", "commOff"}
  HealthVaries = FALSE
  MayShutDown = TRUE
INVARIANTS TypeOK LossIsReported NoPowerWithoutClient
PROPERTIES OfflineLeftByClient SubsystemsKeepPromise
CHECK_DEADLOCK FALSE
