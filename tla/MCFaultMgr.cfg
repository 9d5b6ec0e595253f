SPECIFICATION Spec
CONSTANTS
  Threads = {t1, t2}
  Reported = {"MOTOR_VOLTAGE_FAULT", "MOTOR_VOLTAGE_WARN", "POWER_HEALTH_FAULT"}
  Resets = {{"MOTOR_VOLTAGE_FAULT"}}
  Enables = {{"MOTOR_VOLTAGE_WARN", "STALE_DATA_FAULT"}}
  Timeouts = {"STALE_DATA_FAULT"}
INVARIANTS TypeOK SystemCurrentIsSummary SeenIsLatched NoPowerWithoutConnection
PROPERTIES PersistentFaultLatches PowerFaultsStay
