SPECIFICATION FairSpec
CONSTANTS
  Kind = "MOTOR"
  TelemMin = 2
  OnDelay = 0
  OffDelay = 0
  Pulse = 0
  AgeCap = 1
  Conditions = {"ok", "sag"}
PROPERTIES OffCompletes OnSettles LowVoltageTrips
CHECK_DEADLOCK FALSE
