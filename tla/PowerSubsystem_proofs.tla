---------------------- MODULE PowerSubsystem_proofs ----------------------
(***************************************************************************)
(* What holds of one power subsystem for every delay, every telemetry      *)
(* count and every set of hardware conditions.                             *)
(***************************************************************************)
EXTENDS PowerSubsystem, TLAPS

(* A turn-on counts readings from zero: while the subsystem waits in phase *)
(* 1, the count has not reached TelemMin.                                  *)
CountsFromZero ==
    /\ targ = "ON" /\ actual = "OFF" => telem = 0
    /\ targ = "ON" /\ actual = "TURNING_ON" /\ phase = 1 => telem < TelemMin

(* No step of the code enters TURNING_OFF. *)
NeverTurningOff == actual # "TURNING_OFF"

IInv ==
    /\ TypeOK
    /\ OutputsFollowTarget
    /\ PhaseMatchesState
    /\ LatchedFaultHoldsOff
    /\ CountsFromZero
    /\ NeverTurningOff

-----------------------------------------------------------------------------
(* What _setPowerOff leaves behind. *)
LEMMA PowerOffEffect ==
    ASSUME IInv, PowerOff
    PROVE  /\ targ' = "OFF" /\ phase' = 1 /\ age' \in 0 .. AgeCap
           /\ port' \in Port /\ ~port'.power /\ port'.breaker
  BY DelayAssumption DEF IInv, TypeOK, PhaseMatchesState, PowerOff, Port

(* A step that turns power off and lets no fault be latched keeps IInv. *)
LEMMA TurnedOffKeepsIInv ==
    ASSUME IInv, PowerOff, telem' \in 0 .. TelemMin, actual' \in PowerState,
           actual' # "TURNING_OFF", sysInfo' \in Reading, faultsSet' \subseteq Faults,
           latched' \subseteq SubsystemFaultMask, commLost' \in BOOLEAN,
           pc' \in {"idle", "check", "process", "update"}, plant' \in Plant
    PROVE  IInv'
  BY PowerOffEffect DEF IInv, TypeOK, OutputsFollowTarget, PhaseMatchesState,
     LatchedFaultHoldsOff, CountsFromZero, NeverTurningOff

(* The state the constructor leaves. *)
LEMMA InitIInv == Init => IInv
  <1> SUFFICES ASSUME Init PROVE IInv
    OBVIOUS
  <1>1. TypeOK
    BY DelayAssumption DEF Init, TypeOK, PowerState, Port, NoReading, Reading, Volts,
       BreakerStatus, Faults, SubsystemFaultMask
  <1>2. QED
    BY <1>1 DEF Init, IInv, OutputsFollowTarget, PhaseMatchesState, LatchedFaultHoldsOff,
       CountsFromZero, NeverTurningOff

-----------------------------------------------------------------------------
(* The callers' operations, and the steps of the event thread before and    *)
(* after it processes a reading.                                            *)
LEMMA SetPowerOnIInv == IInv /\ SetPowerOn => IInv'
  <1> SUFFICES ASSUME IInv, SetPowerOn PROVE IInv'
    OBVIOUS
  <1> USE DEF daqVars, faultVars
  <1>1. CASE SystemFaults \/ ~CrioReady
    BY <1>1, TurnedOffKeepsIInv DEF SetPowerOn, IInv, TypeOK, NeverTurningOff
  <1>2. CASE ~(SystemFaults \/ ~CrioReady)
    <2>1. latched = {}
      BY <1>2 DEF SystemFaults
    <2>2. /\ targ' = "ON" /\ phase' = 1 /\ age' = 0 /\ telem' = 0
          /\ port' = [power |-> TRUE, breaker |-> TRUE]
          /\ UNCHANGED <<actual, daqVars, faultVars, plant>>
      BY <1>2 DEF SetPowerOn
    <2>3. port' \in Port /\ port'.power /\ port'.breaker
      BY <2>2 DEF Port
    <2>4. TypeOK'
      BY <2>2, <2>3, DelayAssumption DEF IInv, TypeOK
    <2>5. QED
      BY <2>1, <2>2, <2>3, <2>4, DelayAssumption DEF IInv, OutputsFollowTarget,
         PhaseMatchesState, LatchedFaultHoldsOff, CountsFromZero, NeverTurningOff
  <1>3. QED
    BY <1>1, <1>2

LEMMA SetPowerOffIInv == IInv /\ SetPowerOff => IInv'
  BY TurnedOffKeepsIInv DEF SetPowerOff, IInv, TypeOK, NeverTurningOff, daqVars, faultVars

LEMMA DaqReadIInv == IInv /\ DaqRead => IInv'
  <1> SUFFICES ASSUME IInv, DaqRead PROVE IInv'
    OBVIOUS
  <1>1. ReadingOf(plant) \in Reading
    BY DEF IInv, TypeOK, ReadingOf, Plant, Reading, BreakerStatus
  <1>2. QED
    BY <1>1 DEF DaqRead, IInv, TypeOK, OutputsFollowTarget, PhaseMatchesState,
       LatchedFaultHoldsOff, CountsFromZero, NeverTurningOff, subVars, faultVars

LEMMA DaqCheckFaultsIInv == IInv /\ DaqCheckFaults => IInv'
  <1> SUFFICES ASSUME IInv, DaqCheckFaults PROVE IInv'
    OBVIOUS
  <1> USE DEF faultVars
  <1>1. CASE SystemFaults
    BY <1>1, TurnedOffKeepsIInv DEF DaqCheckFaults, IInv, TypeOK, NeverTurningOff
  <1>2. CASE ~SystemFaults
    BY <1>2 DEF DaqCheckFaults, SystemFaults, IInv, TypeOK, OutputsFollowTarget,
       PhaseMatchesState, LatchedFaultHoldsOff, CountsFromZero, NeverTurningOff
  <1>3. QED
    BY <1>1, <1>2

LEMMA ResetFaultsIInv == IInv /\ ResetFaults => IInv'
  BY DEF ResetFaults, IInv, TypeOK, OutputsFollowTarget, PhaseMatchesState,
     LatchedFaultHoldsOff, CountsFromZero, NeverTurningOff, subVars, daqVars

LEMMA ReportConnectionsIInv == IInv /\ ReportConnections => IInv'
  BY DEF ReportConnections, IInv, TypeOK, OutputsFollowTarget, PhaseMatchesState,
     LatchedFaultHoldsOff, CountsFromZero, NeverTurningOff, subVars, daqVars

LEMMA DaqUpdateIInv == IInv /\ DaqUpdate => IInv'
  BY DEF DaqUpdate, IInv, TypeOK, OutputsFollowTarget, PhaseMatchesState,
     LatchedFaultHoldsOff, CountsFromZero, NeverTurningOff, subVars

LEMMA TickIInv == IInv /\ Tick => IInv'
  BY DelayAssumption DEF Tick, IInv, TypeOK, OutputsFollowTarget, PhaseMatchesState,
     LatchedFaultHoldsOff, CountsFromZero, NeverTurningOff, daqVars, faultVars

(* The steps of the hardware. *)
LEMMA PlantIInv == ASSUME IInv, plant' \in Plant, UNCHANGED <<subVars, daqVars, faultVars>>
                   PROVE  IInv'
  BY DEF IInv, TypeOK, OutputsFollowTarget, PhaseMatchesState,
     LatchedFaultHoldsOff, CountsFromZero, NeverTurningOff, subVars, daqVars, faultVars

LEMMA SimRunIInv == IInv /\ SimRun => IInv'
  <1> SUFFICES ASSUME IInv, SimRun PROVE IInv'
    OBVIOUS
  <1> DEFINE fed == port.power \/ plant.cond = "welded"
  <1>1. PICK level \in IF fed THEN Supply(plant.cond) ELSE {0} :
        \E v \in VoltageStep(plant.volt, level), b \in BreakerStep(plant.brk, port.breaker) :
          plant' = [plant EXCEPT !.relay = port.power, !.volt = v, !.brk = b]
    BY DEF SimRun
  <1>2. level \in Volts
    BY <1>1 DEF Supply, Volts, NominalVoltage
  <1>3. PICK v \in VoltageStep(plant.volt, level), b \in BreakerStep(plant.brk, port.breaker) :
          plant' = [plant EXCEPT !.relay = port.power, !.volt = v, !.brk = b]
    BY <1>1
  <1>4. v \in Volts
    BY <1>2, <1>3 DEF VoltageStep, Volts, IInv, TypeOK, Plant
  <1>5. b \in BreakerStatus \cup {"OPEN"}
    BY <1>3 DEF BreakerStep, IInv, TypeOK, Plant, BreakerStatus
  <1>6. plant' \in Plant
    BY <1>3, <1>4, <1>5 DEF IInv, TypeOK, Plant, Port
  <1>7. QED
    BY <1>6, PlantIInv DEF SimRun

LEMMA DisturbIInv == IInv /\ Disturb => IInv'
  <1> SUFFICES ASSUME IInv, Disturb PROVE IInv'
    OBVIOUS
  <1>1. plant' \in Plant
    BY DEF Disturb, IInv, TypeOK, Plant, BreakerStatus
  <1>2. QED
    BY <1>1, PlantIInv DEF Disturb

-----------------------------------------------------------------------------
(* The processing of a reading. *)
LEMMA FaultsFound ==
    InterlockFaults \subseteq Faults /\ VoltageLost \subseteq Faults
  BY DEF InterlockFaults, VoltageLost, Faults

LEMMA ProcessOffIInv ==
    ASSUME IInv, DaqProcess, PowerOff, telem' \in 0 .. TelemMin,
           actual' \in PowerState \ {"TURNING_OFF"}, faultsSet' \subseteq Faults
    PROVE  IInv'
  BY TurnedOffKeepsIInv DEF DaqProcess, IInv, TypeOK, faultVars

(* A step that goes on turning on, from one state to another. *)
LEMMA ProcessOnIInv ==
    ASSUME IInv, DaqProcess, targ = "ON", targ' = "ON",
           actual' \in {"TURNING_ON", "RESET", "ON"},
           phase' \in 1 .. 2, actual' = "RESET" => phase' = 1,
           age' \in 0 .. AgeCap, telem' \in 0 .. TelemMin,
           actual' = "TURNING_ON" /\ phase' = 1 => telem' < TelemMin,
           port' \in Port, port'.power, port'.breaker \/ actual' = "RESET",
           faultsSet' \subseteq Faults
    PROVE  IInv'
  BY DEF DaqProcess, IInv, TypeOK, OutputsFollowTarget, PhaseMatchesState,
     LatchedFaultHoldsOff, CountsFromZero, NeverTurningOff, PowerState, faultVars

LEMMA OnWhileOnIInv == IInv /\ DaqProcess /\ targ = "ON" /\ OnWhileOn => IInv'
  <1> SUFFICES ASSUME IInv, DaqProcess, targ = "ON", OnWhileOn PROVE IInv'
    OBVIOUS
  <1>1. actual' = "ON" /\ actual = "ON" /\ telem' = telem
    BY DEF OnWhileOn, GiveUp
  <1>2. faultsSet' \subseteq Faults
    BY FaultsFound DEF OnWhileOn, GiveUp, Report, Faults, IInv, TypeOK
  <1>3. CASE PowerOff
    BY <1>1, <1>2, <1>3, ProcessOffIInv DEF IInv, TypeOK, PowerState
  <1>4. CASE ~PowerOff
    <2>1. targ' = "ON" /\ port' = port
      BY <1>4 DEF OnWhileOn, GiveUp
    <2>2. (phase' = 2 /\ age' = 0) \/ (phase' = phase /\ age' = age)
      BY <1>4 DEF OnWhileOn, GiveUp
    <2>3. QED
      BY <1>1, <1>2, <2>1, <2>2, DelayAssumption, ProcessOnIInv
         DEF IInv, TypeOK, OutputsFollowTarget, PhaseMatchesState
  <1>5. QED
    BY <1>3, <1>4

LEMMA OnWhileResetIInv == IInv /\ DaqProcess /\ targ = "ON" /\ OnWhileReset => IInv'
  <1> SUFFICES ASSUME IInv, DaqProcess, targ = "ON", OnWhileReset PROVE IInv'
    OBVIOUS
  <1>1. actual = "RESET" /\ actual' \in {"RESET", "ON"} /\ telem' = telem
    BY DEF OnWhileReset, GiveUp
  <1>2. faultsSet' \subseteq Faults
    BY FaultsFound DEF OnWhileReset, GiveUp, Report, Faults, IInv, TypeOK
  <1>3. CASE PowerOff
    BY <1>1, <1>2, <1>3, ProcessOffIInv DEF IInv, TypeOK, PowerState
  <1>4. CASE ~PowerOff
    <2>1. /\ targ' = "ON" /\ phase' = phase /\ age' \in {0, age}
          /\ \/ actual' = "RESET" /\ port' = [port EXCEPT !.breaker = @ \/ age > Pulse]
             \/ actual' = "ON" /\ port' = [port EXCEPT !.breaker = TRUE]
      BY <1>4 DEF OnWhileReset, GiveUp
    <2>2. port' \in Port /\ port'.power /\ (port'.breaker \/ actual' = "RESET")
      BY <2>1 DEF IInv, TypeOK, OutputsFollowTarget, Port
    <2>3. phase' = 1 /\ age' \in 0 .. AgeCap
      BY <1>1, <2>1, DelayAssumption DEF IInv, TypeOK, PhaseMatchesState
    <2>4. QED
      BY <1>1, <1>2, <2>1, <2>2, <2>3, ProcessOnIInv DEF IInv, TypeOK
  <1>5. QED
    BY <1>3, <1>4

LEMMA OnWhileTurningOnIInv ==
    IInv /\ DaqProcess /\ targ = "ON" /\ OnWhileTurningOn => IInv'
  <1> SUFFICES ASSUME IInv, DaqProcess, targ = "ON", OnWhileTurningOn PROVE IInv'
    OBVIOUS
  <1>1. actual \in {"OFF", "TURNING_ON"}
    BY DEF OnWhileTurningOn, Starting, IInv, NeverTurningOff
  <1>2. actual' \in {"TURNING_ON", "RESET", "ON"}
    BY DEF OnWhileTurningOn, ReadBreakers
  <1>3. faultsSet' \subseteq Faults
    BY FaultsFound DEF OnWhileTurningOn, Report, Faults, IInv, TypeOK
  <1>4. telem' = TelemNow /\ telem' \in 0 .. TelemMin /\ ElapsedNow \in 0 .. AgeCap
    BY <1>1, DelayAssumption DEF OnWhileTurningOn, TelemNow, PhaseNow, Starting, ElapsedNow,
       IInv, TypeOK, PhaseMatchesState, CountsFromZero
  <1>5. CASE PowerOff
    BY <1>2, <1>3, <1>4, <1>5, ProcessOffIInv DEF PowerState
  <1>6. CASE ~TelemStable /\ phase' = 1 /\ age' = ElapsedNow /\ UNCHANGED <<targ, port>>
    <2>1. telem' < TelemMin
      BY <1>4, <1>6, DelayAssumption DEF TelemStable
    <2>2. port.breaker /\ port.power
      BY <1>1 DEF IInv, OutputsFollowTarget
    <2>3. actual' = "TURNING_ON"
      BY <1>6 DEF OnWhileTurningOn
    <2>4. QED
      BY <1>3, <1>4, <1>6, <2>1, <2>2, <2>3, ProcessOnIInv DEF IInv, TypeOK
  <1>7. CASE actual' = "TURNING_ON" /\ phase' = 2 /\ age' = PhaseTwoAge /\ UNCHANGED <<targ, port>>
    <2>1. age' \in 0 .. AgeCap
      BY <1>4, <1>7, DelayAssumption DEF PhaseTwoAge
    <2>2. port.breaker /\ port.power
      BY <1>1 DEF IInv, OutputsFollowTarget
    <2>3. QED
      BY <1>3, <1>4, <1>7, <2>1, <2>2, ProcessOnIInv DEF IInv, TypeOK
  <1>8. CASE ReadBreakers /\ UNCHANGED targ
    <2>1. phase' = 1 /\ age' = 0 /\ actual' \in {"ON", "RESET"}
      BY <1>8 DEF ReadBreakers
    <2>2. port' \in Port /\ port'.power /\ (port'.breaker \/ actual' = "RESET")
      BY <1>1, <1>8 DEF ReadBreakers, IInv, TypeOK, OutputsFollowTarget, Port
    <2>3. QED
      BY <1>3, <1>4, <1>8, <2>1, <2>2, DelayAssumption, ProcessOnIInv
  <1>9. QED
    BY <1>5, <1>6, <1>7, <1>8 DEF OnWhileTurningOn

LEMMA ProcessPowerOnIInv == IInv /\ DaqProcess /\ targ = "ON" /\ ProcessPowerOn => IInv'
  <1> SUFFICES ASSUME IInv, DaqProcess, targ = "ON", ProcessPowerOn PROVE IInv'
    OBVIOUS
  <1>1. CASE OnOverVoltage \/ OnOverCurrent \/ OnWhileUnknown
    <2>1. PowerOff /\ telem' = telem /\ actual' = actual
      BY <1>1 DEF OnOverVoltage, OnOverCurrent, OnWhileUnknown, GiveUp
    <2>2. faultsSet' \subseteq Faults
      BY <1>1, FaultsFound DEF OnOverVoltage, OnOverCurrent, OnWhileUnknown, GiveUp, Faults,
         IInv, TypeOK
    <2>3. QED
      BY <2>1, <2>2, ProcessOffIInv DEF IInv, TypeOK, NeverTurningOff
  <1>2. QED
    BY <1>1, OnWhileOnIInv, OnWhileResetIInv, OnWhileTurningOnIInv DEF ProcessPowerOn

LEMMA ProcessPowerOffIInv == IInv /\ DaqProcess /\ targ = "OFF" /\ ProcessPowerOff => IInv'
  <1> SUFFICES ASSUME IInv, DaqProcess, targ = "OFF", ProcessPowerOff PROVE IInv'
    OBVIOUS
  <1>1. targ' = "OFF" /\ telem' = telem /\ phase' = phase /\ actual' \in {actual, "OFF"}
    BY DEF ProcessPowerOff, PowerOff
  <1>2. faultsSet' \subseteq Faults
    BY DEF ProcessPowerOff, Report, Faults, IInv, TypeOK
  <1>3. age' \in 0 .. AgeCap
    BY DelayAssumption DEF ProcessPowerOff, PowerOff, TurnOffElapsed, IInv, TypeOK
  <1>4. port' = [power |-> FALSE, breaker |-> TRUE] \/ port' = port
    BY DEF ProcessPowerOff, PowerOff
  <1>5. port' \in Port /\ ~port'.power /\ port'.breaker
    BY <1>4 DEF IInv, TypeOK, OutputsFollowTarget, Port
  <1>6. QED
    BY <1>1, <1>2, <1>3, <1>5 DEF DaqProcess, IInv, TypeOK, OutputsFollowTarget,
       PhaseMatchesState, LatchedFaultHoldsOff, CountsFromZero, NeverTurningOff, PowerState,
       faultVars

LEMMA DaqProcessIInv == IInv /\ DaqProcess => IInv'
  BY ProcessPowerOnIInv, ProcessPowerOffIInv DEF DaqProcess

-----------------------------------------------------------------------------
(* No step breaks IInv. *)
LEMMA NextIInv == IInv /\ [Next]_vars => IInv'
  <1> SUFFICES ASSUME IInv, [Next]_vars PROVE IInv'
    OBVIOUS
  <1>1. CASE UNCHANGED vars
    BY <1>1 DEF vars, subVars, daqVars, faultVars, IInv, TypeOK, OutputsFollowTarget,
       PhaseMatchesState, LatchedFaultHoldsOff, CountsFromZero, NeverTurningOff
  <1>2. CASE Caller
    BY <1>2, SetPowerOnIInv, SetPowerOffIInv, ResetFaultsIInv, ReportConnectionsIInv DEF Caller
  <1>3. CASE Daq
    BY <1>3, DaqReadIInv, DaqCheckFaultsIInv, DaqProcessIInv, DaqUpdateIInv DEF Daq
  <1>4. QED
    BY <1>1, <1>2, <1>3, SimRunIInv, DisturbIInv, TickIInv DEF Next

(* IInv is an invariant of the subsystem: TypeOK, OutputsFollowTarget,     *)
(* PhaseMatchesState and LatchedFaultHoldsOff are its parts.               *)
THEOREM Invariance == Spec => []IInv
  BY InitIInv, NextIInv, PTL DEF Spec

(* Every variable of the subsystem stays in its type. *)
THEOREM TypeCorrect == Spec => []TypeOK
  <1>1. IInv => TypeOK
    BY DEF IInv
  <1>2. QED
    BY <1>1, Invariance, PTL

(* The output bits of setPowerOn, setPowerOff and processDaq never         *)
(* contradict the target.                                                  *)
THEOREM OutputsAlwaysFollow == Spec => []OutputsFollowTarget
  <1>1. IInv => OutputsFollowTarget
    BY DEF IInv
  <1>2. QED
    BY <1>1, Invariance, PTL

(* The phase of the state machine belongs to its actual state. *)
THEOREM PhaseAlwaysMatches == Spec => []PhaseMatchesState
  <1>1. IInv => PhaseMatchesState
    BY DEF IInv
  <1>2. QED
    BY <1>1, Invariance, PTL

(* No setPowerOn between the fault check and the processing of a reading   *)
(* gets power past a latched fault.                                        *)
THEOREM LatchedFaultsHold == Spec => []LatchedFaultHoldsOff
  <1>1. IInv => LatchedFaultHoldsOff
    BY DEF IInv
  <1>2. QED
    BY <1>1, Invariance, PTL

-----------------------------------------------------------------------------
(* The steps that leave the actual state alone. *)
OtherStep ==
    \/ SetPowerOn \/ SetPowerOff \/ ResetFaults \/ ReportConnections
    \/ DaqRead \/ DaqCheckFaults \/ DaqUpdate \/ SimRun \/ Disturb \/ Tick

LEMMA OthersKeepActual ==
    ASSUME OtherStep
    PROVE  actual' = actual
  BY DEF OtherStep, SetPowerOn, SetPowerOff, ResetFaults, ReportConnections, DaqRead,
     DaqCheckFaults, DaqUpdate, SimRun, Disturb, Tick, subVars

LEMMA StepSplit ==
    ASSUME [Next]_vars
    PROVE  OtherStep \/ DaqProcess \/ UNCHANGED vars
  BY DEF Next, Caller, Daq, OtherStep

(* The reading that declares a subsystem ON shows that it is. *)
THEOREM TurnOnIsVerified == Spec => TurnOnVerified
  <1> DEFINE Verified ==
        actual' = "ON" /\ actual # "ON" =>
          /\ OutputIsOn /\ Sane
          /\ sysInfo.volt >= BreakerOperatingVoltage
          /\ sysInfo.brk = "GOOD" \/ (actual = "RESET" /\ sysInfo.brk = "WARN")
  <1>1. IInv /\ [Next]_vars => [Verified]_vars
    <2> SUFFICES ASSUME IInv, [Next]_vars, actual' = "ON", actual # "ON"
                 PROVE  /\ OutputIsOn /\ Sane
                        /\ sysInfo.volt >= BreakerOperatingVoltage
                        /\ sysInfo.brk = "GOOD" \/ (actual = "RESET" /\ sysInfo.brk = "WARN")
      OBVIOUS
    <2>1. DaqProcess
      BY StepSplit, OthersKeepActual DEF vars, subVars
    <2>2. targ = "ON" /\ ProcessPowerOn
      BY <2>1 DEF DaqProcess, ProcessPowerOff
    <2>3. OnWhileTurningOn \/ OnWhileReset
      BY <2>2 DEF ProcessPowerOn, OnOverVoltage, OnOverCurrent, OnWhileOn, OnWhileUnknown
    <2>4. CASE OnWhileTurningOn
      <3>1. Sane /\ BreakersTried /\ ReadBreakers
        BY <2>4 DEF OnWhileTurningOn
      <3>2. QED
        BY <3>1 DEF ReadBreakers, BreakersTried
    <2>5. CASE OnWhileReset
      <3>1. Sane /\ BreakersHold /\ actual = "RESET"
        BY <2>5 DEF OnWhileReset
      <3>2. sysInfo.brk \in {"GOOD", "WARN"}
        BY <3>1 DEF BreakersHold, IInv, TypeOK, Reading, BreakerStatus
      <3>3. QED
        BY <3>1, <3>2 DEF BreakersHold, BreakersTried
    <2>6. QED
      BY <2>3, <2>4, <2>5
  <1>2. QED
    BY <1>1, Invariance, PTL DEF Spec, TurnOnVerified

-----------------------------------------------------------------------------
(* The subsystem implements PowerPromise: a caller's step and the fault    *)
(* check are SetOn or SetOff, a processed reading is FollowOn or FollowOff *)
(* and everything else is a stutter.                                       *)

LEMMA OthersKeepPromise ==
    ASSUME IInv, OtherStep
    PROVE  Promise!Next \/ UNCHANGED <<targ, actual>>
  <1>1. actual' = actual
    BY OthersKeepActual
  <1>2. targ' = targ \/ targ' = "OFF" \/ targ' = "ON"
    BY DEF OtherStep, SetPowerOn, SetPowerOff, ResetFaults, ReportConnections, DaqRead,
       DaqCheckFaults, DaqUpdate, SimRun, Disturb, Tick, subVars, PowerOff
  <1>3. QED
    BY <1>1, <1>2 DEF Promise!Next, Promise!SetOn, Promise!Target

LEMMA ProcessKeepsPromise ==
    ASSUME IInv, DaqProcess
    PROVE  Promise!FollowOn \/ Promise!FollowOff
  <1>1. CASE targ = "OFF"
    <2>1. targ' = "OFF" /\ actual' \in {actual, "OFF"}
      BY <1>1 DEF DaqProcess, ProcessPowerOff, PowerOff
    <2>2. QED
      BY <1>1, <2>1 DEF Promise!FollowOff
  <1>2. CASE targ = "ON"
    <2>1. ProcessPowerOn
      BY <1>2 DEF DaqProcess
    <2>2. CASE OnOverVoltage \/ OnOverCurrent \/ OnWhileUnknown
      BY <1>2, <2>2 DEF OnOverVoltage, OnOverCurrent, OnWhileUnknown, GiveUp, PowerOff,
         Promise!FollowOn
    <2>3. CASE OnWhileOn
      <3>1. actual = "ON" /\ actual' = "ON" /\ (targ' = targ \/ PowerOff)
        BY <2>3 DEF OnWhileOn, GiveUp
      <3>2. QED
        BY <1>2, <3>1 DEF PowerOff, Promise!FollowOn, Promise!Climb
    <2>4. CASE OnWhileReset
      <3>1. /\ actual = "RESET"
            /\ (actual' \in {"RESET", "ON"} /\ targ' = targ) \/ (actual' = actual /\ PowerOff)
        BY <2>4 DEF OnWhileReset, GiveUp
      <3>2. QED
        BY <1>2, <3>1 DEF PowerOff, Promise!FollowOn, Promise!Climb
    <2>5. CASE OnWhileTurningOn
      <3>1. actual \in {"OFF", "TURNING_ON"}
        BY <2>5 DEF OnWhileTurningOn, Starting, IInv, NeverTurningOff
      <3>2. CASE targ' = "ON" /\ actual = "TURNING_ON"
        <4>1. actual' \in {"TURNING_ON", "RESET", "ON"}
          BY <2>5 DEF OnWhileTurningOn, ReadBreakers
        <4>2. QED
          BY <1>2, <3>2, <4>1 DEF Promise!FollowOn, Promise!Climb
      <3>3. CASE targ' = "ON" /\ actual = "OFF"
        <4>1. telem = 0 /\ PhaseNow = 1
          BY <1>2, <3>3 DEF IInv, CountsFromZero, PhaseNow, Starting
        <4>2. ~TelemStable
          BY <4>1, DelayAssumption DEF TelemStable, TelemNow
        <4>3. actual' = "TURNING_ON"
          BY <2>5, <4>2 DEF OnWhileTurningOn
        <4>4. QED
          BY <1>2, <3>3, <4>3 DEF Promise!FollowOn, Promise!Climb
      <3>4. CASE targ' # "ON"
        <4>1. TelemStable /\ PowerOff /\ actual' = "TURNING_ON"
          BY <1>2, <2>5, <3>4 DEF OnWhileTurningOn
        <4>2. actual # "OFF"
          <5>1. ASSUME actual = "OFF" PROVE FALSE
            <6>1. telem = 0 /\ PhaseNow = 1
              BY <1>2, <5>1 DEF IInv, CountsFromZero, PhaseNow, Starting
            <6>2. QED
              BY <4>1, <6>1, DelayAssumption DEF TelemStable, TelemNow
          <5>2. QED
            BY <5>1
        <4>3. QED
          BY <1>2, <3>1, <4>1, <4>2 DEF PowerOff, Promise!FollowOn
      <3>5. QED
        BY <3>1, <3>2, <3>3, <3>4
    <2>6. QED
      BY <2>1, <2>2, <2>3, <2>4, <2>5 DEF ProcessPowerOn
  <1>3. QED
    BY <1>1, <1>2 DEF DaqProcess

(* PowerSubsystem implements PowerPromise: whatever setPowerOn, setPowerOff *)
(* and processDaq do to the two states is what a caller may count on.       *)
THEOREM PromiseIsKept == Spec => KeepsPromise
  <1>1. Init => Promise!Init
    BY DEF Init, Promise!Init
  <1>2. IInv /\ [Next]_vars => [Promise!Next]_Promise!vars
    <2> SUFFICES ASSUME IInv, [Next]_vars
                 PROVE  Promise!Next \/ UNCHANGED <<targ, actual>>
      BY DEF Promise!vars
    <2>1. QED
      BY StepSplit, OthersKeepPromise, ProcessKeepsPromise DEF Promise!Next, vars, subVars
  <1>3. QED
    BY <1>1, <1>2, Invariance, PTL DEF Spec, KeepsPromise, Promise!Spec

=============================================================================
