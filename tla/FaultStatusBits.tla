---------------------------- MODULE FaultStatusBits ----------------------------
(***************************************************************************)
(* The faults, warnings and information of the system and the masks over   *)
(* them (faultmgr/FaultStatusBits).  A bitmap is the set of the names of   *)
(* its bits; Position tells where a bit is, for what depends on its place. *)
(***************************************************************************)
EXTENDS Naturals

Position == [
    STALE_DATA_WARN |-> 0, STALE_DATA_FAULT |-> 1, BROADCAST_ERR |-> 2, ACTUATOR_FAULT |-> 3,
    EXCESSIVE_FORCE |-> 4, ACTUATOR_LIMIT_OL |-> 5, ACTUATOR_LIMIT_CL |-> 6,
    INCLINOMETER_W_LUT |-> 7, INCLINOMETER_WO_LUT |-> 8, MOTOR_VOLTAGE_FAULT |-> 9,
    MOTOR_VOLTAGE_WARN |-> 10, COMM_VOLTAGE_FAULT |-> 11, COMM_VOLTAGE_WARN |-> 12,
    MOTOR_OVER_CURRENT |-> 13, COMM_OVER_CURRENT |-> 14, POWER_RELAY_OPEN_FAULT |-> 15,
    POWER_HEALTH_FAULT |-> 16, COMM_MULTI_BREAKER_FAULT |-> 17, MOTOR_MULTI_BREAKER_FAULT |-> 18,
    SINGLE_BREAKER_TRIP |-> 19, POWER_SUPPLY_LOAD_SHARE_ERR |-> 20,
    DISPLACEMENT_SENSOR_RANGE_ERR |-> 21, INCLINOMETER_RANGE_ERR |-> 22,
    MIRROR_TEMP_SENSOR_FAULT |-> 23, MIRROR_TEMP_SENSOR_WARN |-> 24, CELL_TEMP_WARN |-> 25,
    AXIAL_ACTUATOR_ENCODER_RANGE_FAULT |-> 26, TANGENT_ACTUATOR_ENCODER_RANGE_FAULT |-> 27,
    MOTOR_RELAY |-> 28, COMM_RELAY |-> 29, HARDWARE_FAULT |-> 30, INTERLOCK_FAULT |-> 31,
    TANGENT_LOAD_CELL_FAULT |-> 32, ELEVATION_ANGLE_DIFF_FAULT |-> 33, MONITOR_ILC_READ_WARN |-> 34,
    POWER_SYSTEM_TIMEOUT |-> 35, PARAMETER_FILE_READ_FAULT |-> 55, ILC_STATE_TRANSITION_FAULT |-> 56,
    CRIO_COMM_FAULT |-> 57, LOSS_OF_TMA_WARN |-> 58, LOSS_OF_TMA_COMM_ON_ENABLE_FAULT |-> 59,
    TEMP_DIFF_WARN |-> 60, CRIO_TIMING_FAULT |-> 61, CRIO_TIMING_WARN |-> 62,
    USER_GENERATED_FAULT |-> 63]

Bits == DOMAIN Position

(* A bitmap that is returned in an integer of 16 bits. *)
Low16(bits) == {b \in bits : Position[b] < 16}

-----------------------------------------------------------------------------
MaskOpenLoopControl ==
    {"ACTUATOR_LIMIT_CL", "INCLINOMETER_W_LUT", "CRIO_TIMING_FAULT", "INCLINOMETER_RANGE_ERR",
     "MIRROR_TEMP_SENSOR_FAULT", "ELEVATION_ANGLE_DIFF_FAULT"}

MaskTelemetryOnlyControl == MaskOpenLoopControl \cup
    {"ACTUATOR_FAULT", "EXCESSIVE_FORCE", "MOTOR_VOLTAGE_FAULT", "MOTOR_OVER_CURRENT",
     "MOTOR_MULTI_BREAKER_FAULT", "AXIAL_ACTUATOR_ENCODER_RANGE_FAULT",
     "TANGENT_ACTUATOR_ENCODER_RANGE_FAULT", "ILC_STATE_TRANSITION_FAULT"}

(* What is enabled, and latched, by default. *)
MaskFaults == MaskTelemetryOnlyControl \cup
    {"COMM_VOLTAGE_FAULT", "COMM_OVER_CURRENT", "POWER_RELAY_OPEN_FAULT", "POWER_HEALTH_FAULT",
     "COMM_MULTI_BREAKER_FAULT", "POWER_SUPPLY_LOAD_SHARE_ERR", "INTERLOCK_FAULT",
     "TANGENT_LOAD_CELL_FAULT", "LOSS_OF_TMA_COMM_ON_ENABLE_FAULT", "CRIO_COMM_FAULT",
     "USER_GENERATED_FAULT", "PARAMETER_FILE_READ_FAULT", "POWER_SYSTEM_TIMEOUT"}

(* What does not change what the system does. *)
MaskWarn ==
    {"ACTUATOR_LIMIT_OL", "INCLINOMETER_WO_LUT", "MOTOR_VOLTAGE_WARN", "COMM_VOLTAGE_WARN",
     "SINGLE_BREAKER_TRIP", "CRIO_TIMING_WARN", "DISPLACEMENT_SENSOR_RANGE_ERR",
     "MIRROR_TEMP_SENSOR_WARN", "CELL_TEMP_WARN", "TEMP_DIFF_WARN", "LOSS_OF_TMA_WARN",
     "MONITOR_ILC_READ_WARN"}

MaskInfo ==
    {"BROADCAST_ERR", "MOTOR_RELAY", "COMM_RELAY", "HARDWARE_FAULT", "STALE_DATA_WARN",
     "STALE_DATA_FAULT"}

MaskPowerSubsystemFaults == [
    COMM  |-> {"COMM_VOLTAGE_FAULT", "COMM_OVER_CURRENT", "POWER_RELAY_OPEN_FAULT",
               "COMM_MULTI_BREAKER_FAULT"},
    MOTOR |-> {"MOTOR_VOLTAGE_FAULT", "MOTOR_OVER_CURRENT", "POWER_RELAY_OPEN_FAULT",
               "MOTOR_MULTI_BREAKER_FAULT"}]

PowerAffectedFaultMask ==
    MaskPowerSubsystemFaults["COMM"] \cup MaskPowerSubsystemFaults["MOTOR"] \cup
    {"POWER_HEALTH_FAULT", "POWER_SUPPLY_LOAD_SHARE_ERR", "INTERLOCK_FAULT", "POWER_SYSTEM_TIMEOUT"}

PowerAffectedWarningMask ==
    {"MOTOR_VOLTAGE_WARN", "COMM_VOLTAGE_WARN", "SINGLE_BREAKER_TRIP",
     "MOTOR_RELAY", "COMM_RELAY", "HARDWARE_FAULT"}

(* What a manager of the telemetry may report; nothing reads these yet.     *)
TelemetryAffectedFaultMask ==
    {"ACTUATOR_LIMIT_CL", "INCLINOMETER_W_LUT", "INCLINOMETER_RANGE_ERR",
     "MIRROR_TEMP_SENSOR_FAULT", "ELEVATION_ANGLE_DIFF_FAULT", "ACTUATOR_FAULT",
     "EXCESSIVE_FORCE", "AXIAL_ACTUATOR_ENCODER_RANGE_FAULT",
     "TANGENT_ACTUATOR_ENCODER_RANGE_FAULT", "TANGENT_LOAD_CELL_FAULT"}

TelemetryAffectedWarningMask ==
    {"MONITOR_ILC_READ_WARN", "ACTUATOR_LIMIT_OL", "INCLINOMETER_WO_LUT",
     "DISPLACEMENT_SENSOR_RANGE_ERR", "MIRROR_TEMP_SENSOR_WARN", "CELL_TEMP_WARN",
     "BROADCAST_ERR", "STALE_DATA_WARN", "STALE_DATA_FAULT"}

MaskHealthFaults == {"POWER_HEALTH_FAULT", "POWER_SUPPLY_LOAD_SHARE_ERR"}

-----------------------------------------------------------------------------
(* Every bit is a fault, a warning or information, and only one of them; a  *)
(* manager reports faults as faults and the rest as warnings, and no bit    *)
(* belongs to two managers.                                                 *)
ASSUME MasksPartition ==
    /\ Bits = MaskFaults \cup MaskWarn \cup MaskInfo
    /\ MaskFaults \cap (MaskWarn \cup MaskInfo) = {}
    /\ MaskWarn \cap MaskInfo = {}

ASSUME ManagersApart ==
    /\ PowerAffectedFaultMask \cup TelemetryAffectedFaultMask \subseteq MaskFaults
    /\ PowerAffectedWarningMask \cup TelemetryAffectedWarningMask \subseteq MaskWarn \cup MaskInfo
    /\ PowerAffectedFaultMask \cap TelemetryAffectedFaultMask = {}
    /\ PowerAffectedWarningMask \cap TelemetryAffectedWarningMask = {}
=============================================================================
