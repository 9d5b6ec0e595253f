SPECIFICATION Spec
CONSTANTS
  Kind = "MOTOR"
  TelemMin = 2
  OnDelay = 0
  OffDelay = 0
  Pulse = 0
  AgeCap = 1
  Conditions = {"ok", "overload", "interlock", "unready"}
INVARIANTS TypeOK OutputsFollowTarget PhaseMatchesState LatchedFaultHoldsOff
PROPERTIES KeepsPromise TurnOnVerified
