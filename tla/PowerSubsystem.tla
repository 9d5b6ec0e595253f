--------------------------- MODULE PowerSubsystem ---------------------------
(***************************************************************************)
(* One power subsystem of the M2 cell controller                           *)
(* (control/PowerSubsystem.{h,cpp}), the output bits it owns in FpgaIo and *)
(* the simulated hardware behind them (simulator/SimPowerSubsystem.cpp).   *)
(*                                                                         *)
(* Two threads and the callers of setPowerOn/setPowerOff run here:         *)
(*   - the simulator loop applies the output port to the plant,            *)
(*   - the PowerSystem event thread runs processDaq on the latest reading, *)
(*     as the steps that its _powerStateMtx critical sections delimit.     *)
(* FpgaIo's loop only carries the output port to the plant and a reading   *)
(* back.  Its two buffers delay what passes; here that delay is a step of  *)
(* the plant, or of the event thread, that has not been taken yet.         *)
(* Time is the number of clock ticks since _phaseStartTime, up to AgeCap.  *)
(***************************************************************************)
EXTENDS Naturals, FiniteSets

CONSTANTS
    Kind,        \* "MOTOR" or "COMM": PowerSubsystem::_systemType
    TelemMin,    \* readings that phase 1 of TURNING_ON lasts (10 in the code)
    OnDelay,     \* outputOnMaxDelay(), in ticks
    OffDelay,    \* outputOffMaxDelay(), in ticks
    Pulse,       \* getResetBreakerPulseWidth(), in ticks
    AgeCap,      \* a duration longer than every delay; time is not counted past it
    Conditions   \* conditions of the hardware that occur

ASSUME KindAssumption == Kind \in {"MOTOR", "COMM"}
ASSUME DelayAssumption ==
    /\ TelemMin \in Nat /\ TelemMin > 1
    /\ OnDelay \in Nat /\ OffDelay \in Nat
    /\ Pulse \in Nat
    /\ AgeCap \in Nat /\ AgeCap > 2 * Pulse /\ AgeCap > OnDelay /\ AgeCap > OffDelay

VARIABLES
    targ,       \* _targPowerState
    actual,     \* _actualPowerState
    phase,      \* _phase
    age,        \* now - _phaseStartTime, in ticks
    telem,      \* _telemCounter
    port,       \* this subsystem's two bits of FpgaIo::_outputPort
    sysInfo,    \* _sysInfo, the reading processDaq was last given
    faultsSet,  \* the faults the current processDaq pass has met
    latched,    \* this subsystem's bits of FaultMgr's power fault summary
    commLost,   \* FaultMgr::_commConnectionFault
    pc,         \* where the event thread is in PowerSystem::_processDaq
    plant       \* the hardware: relay, voltage, breakers and its condition

subVars   == <<targ, actual, phase, age, telem, port>>
daqVars   == <<sysInfo, faultsSet, pc>>
faultVars == <<latched, commLost>>
vars      == <<subVars, daqVars, faultVars, plant>>

-----------------------------------------------------------------------------
(* Voltages, as the classes that the thresholds of PowerSubsystemConfig    *)
(* cut the scale into: 0 is below 12 V, 1 below 19 V, 2 below 21.6 V,      *)
(* 3 up to 26.4 V and 4 above.  A warning, of a voltage inside class 3 or  *)
(* of a breaker, only reports: warnings are left out.                      *)
Volts == 0 .. 4

(* Mutant: no voltage is below the off level. *)
VoltageOffLevel_Zero == 0

VoltageOffLevel         == 1
BreakerOperatingVoltage == 2
MinVoltageFault         == 3
MaxVoltageFault         == 3
NominalVoltage          == 3

(* checkBreakers: GOOD when every feed has its three inputs, WARN when the *)
(* worst feed lacks one, FAULT below that.                                 *)
BreakerStatus == {"GOOD", "WARN", "FAULT"}

Reading == [relay : BOOLEAN, ready : BOOLEAN, interlock : BOOLEAN,
            volt : Volts, over : BOOLEAN, brk : BreakerStatus]
Port    == [power : BOOLEAN, breaker : BOOLEAN]
Plant   == [relay : BOOLEAN, volt : Volts, brk : BreakerStatus \cup {"OPEN"},
            cond : Conditions]

Faults == {"VOLTAGE_FAULT", "EXCESSIVE_CURRENT", "HARDWARE_FAULT", "BREAKER_FAULT",
           "INTERLOCK_FAULT", "RELAY_FAULT", "RELAY_IN_USE"}

(* getMaskPowerSubsystemFaults less the breaker fault, as _checkForFaults uses it. *)
SubsystemFaultMask == {"VOLTAGE_FAULT", "EXCESSIVE_CURRENT", "RELAY_FAULT"}

(* _getCrioReadyOutputOn and _getInterlockRelayControlOutputOn: always on for COMM. *)
CrioReady == Kind = "COMM" \/ sysInfo.ready
Interlock == Kind = "COMM" \/ sysInfo.interlock

(* _powerShouldBeOn, and the fault it reports when only the interlock is missing. *)
OutputIsOn      == sysInfo.relay /\ CrioReady /\ Interlock
InterlockFaults == IF sysInfo.relay /\ CrioReady /\ ~Interlock THEN {"INTERLOCK_FAULT"} ELSE {}

(* Mutant: latched faults of the subsystem do not count. *)
SystemFaults_IgnoresLatched == commLost

(* _checkForFaults *)
SystemFaults == commLost \/ latched # {}

-----------------------------------------------------------------------------
(* Mutant: the breaker output is left as it is. *)
PowerOff_KeepsBreakerBit ==
    /\ port' = [port EXCEPT !.power = FALSE]
    /\ targ' = "OFF"
    /\ IF targ # "OFF" THEN phase' = 1 /\ age' = 0 ELSE UNCHANGED <<phase, age>>

(* _setPowerOff: the output bits always, the phase only when power was wanted. *)
PowerOff ==
    /\ port' = [power |-> FALSE, breaker |-> TRUE]
    /\ targ' = "OFF"
    /\ IF targ # "OFF" THEN phase' = 1 /\ age' = 0 ELSE UNCHANGED <<phase, age>>

(* Mutant: the telemetry counter is not reset. *)
SetPowerOn_KeepsTelem ==
    /\ IF SystemFaults \/ ~CrioReady
       THEN PowerOff
       ELSE port' = [power |-> TRUE, breaker |-> TRUE] /\ targ' = "ON" /\ phase' = 1 /\ age' = 0
    /\ UNCHANGED <<actual, telem, daqVars, faultVars, plant>>

(* setPowerOn, called by a command; a refusal turns power off. *)
SetPowerOn ==
    /\ IF SystemFaults \/ ~CrioReady
       THEN PowerOff /\ UNCHANGED telem
       ELSE /\ port' = [power |-> TRUE, breaker |-> TRUE]
            /\ targ' = "ON"
            /\ phase' = 1 /\ age' = 0 /\ telem' = 0
    /\ UNCHANGED <<actual, daqVars, faultVars, plant>>

(* setPowerOff, called by a command, the Model or the PowerSystem. *)
SetPowerOff ==
    /\ PowerOff
    /\ UNCHANGED <<actual, telem, daqVars, faultVars, plant>>

-----------------------------------------------------------------------------
(* What FpgaIo::_readWriteFpga reads back from the hardware. *)
ReadingOf(p) ==
    [relay |-> p.relay, ready |-> p.cond # "unready", interlock |-> p.cond # "interlock",
     volt |-> p.volt, over |-> p.cond = "overload" /\ p.volt > 0 /\ p.brk # "OPEN",
     brk |-> IF p.brk = "OPEN" THEN "FAULT" ELSE p.brk]

(* processDaq.  The reading is taken from FpgaIo before anything is locked. *)
DaqRead ==
    /\ pc = "idle"
    /\ pc' = "check"
    /\ sysInfo' = ReadingOf(plant)
    /\ UNCHANGED <<subVars, faultsSet, faultVars, plant>>

DaqCheckFaults ==
    /\ pc = "check"
    /\ pc' = "process"
    /\ IF SystemFaults THEN PowerOff ELSE UNCHANGED <<port, targ, phase, age>>
    /\ UNCHANGED <<actual, telem, sysInfo, faultsSet, faultVars, plant>>

-----------------------------------------------------------------------------
(* _processPowerOn, one definition for each way out of it. *)

GiveUp(found) ==
    /\ PowerOff
    /\ faultsSet' = faultsSet \cup found
    /\ UNCHANGED telem

Report(found) == faultsSet' = faultsSet \cup found

VoltageLost == {"VOLTAGE_FAULT", "HARDWARE_FAULT"}

OnOverVoltage ==
    /\ sysInfo.volt > MaxVoltageFault
    /\ GiveUp(InterlockFaults \cup {"VOLTAGE_FAULT"})
    /\ UNCHANGED actual

OnOverCurrent ==
    /\ sysInfo.volt <= MaxVoltageFault
    /\ sysInfo.over
    /\ GiveUp(InterlockFaults \cup {"EXCESSIVE_CURRENT"})
    /\ UNCHANGED actual

Sane == sysInfo.volt <= MaxVoltageFault /\ ~sysInfo.over

(* _checkForPowerOnBreakerFault, with the outputs on: the voltage to read  *)
(* breakers is missing, or they are read and in fault, or in order.        *)
VoltageMissing == OutputIsOn /\ sysInfo.volt < BreakerOperatingVoltage
BreakersTried  == OutputIsOn /\ sysInfo.volt >= BreakerOperatingVoltage
BreakersInFault == BreakersTried /\ sysInfo.brk = "FAULT"
BreakersHold    == BreakersTried /\ sysInfo.brk # "FAULT"

(* actual = ON: the outputs, the breakers and, in phase 2, the low voltage. *)
(* The settling time is less than the rise time, so phase 1 does not wait. *)
LowVoltage == phase = 2 /\ sysInfo.volt < MinVoltageFault

OnWhileOn ==
    /\ Sane /\ actual = "ON"
    /\ UNCHANGED actual
    /\ \/ ~OutputIsOn /\ GiveUp(InterlockFaults)
       \/ VoltageMissing /\ GiveUp(InterlockFaults \cup VoltageLost)
       \/ BreakersInFault /\ GiveUp(InterlockFaults \cup {"BREAKER_FAULT"})
       \/ /\ BreakersHold /\ phase <= 1
          /\ phase' = 2 /\ age' = 0
          /\ Report(InterlockFaults)
          /\ UNCHANGED <<targ, telem, port>>
       \/ BreakersHold /\ LowVoltage /\ GiveUp(InterlockFaults \cup {"VOLTAGE_FAULT"})
       \/ /\ BreakersHold /\ phase > 1 /\ ~LowVoltage
          /\ Report(InterlockFaults)
          /\ UNCHANGED <<targ, phase, age, telem, port>>

(* actual = OFF (or TURNING_OFF) or TURNING_ON.  The time in phase is the   *)
(* one read on entry: the reading that ends phase 1 compares phase 2's      *)
(* delay with it.                                                           *)
Starting    == actual \in {"OFF", "TURNING_OFF"}
PhaseNow    == IF Starting THEN 1 ELSE phase
ElapsedNow  == IF Starting THEN 0 ELSE age

(* Mutant: readings are not counted. *)
TelemNow_NotCounted == telem

TelemNow    == IF PhaseNow = 1 THEN telem + 1 ELSE telem
TelemStable == PhaseNow > 1 \/ TelemNow >= TelemMin
PhaseTwoAge == IF PhaseNow = 1 THEN 0 ELSE ElapsedNow

(* Mutant: phase 3 is kept when the state is left. *)
ReadBreakers_KeepsPhase ==
    /\ phase' = 3 /\ age' = 0
    /\ IF sysInfo.brk = "GOOD"
       THEN actual' = "ON" /\ UNCHANGED port
       ELSE actual' = "RESET" /\ port' = [port EXCEPT !.breaker = FALSE]

(* Mutant: breakers in warning are good enough. *)
ReadBreakers_AcceptsWarning ==
    /\ phase' = 1 /\ age' = 0
    /\ IF sysInfo.brk # "FAULT"
       THEN actual' = "ON" /\ UNCHANGED port
       ELSE actual' = "RESET" /\ port' = [port EXCEPT !.breaker = FALSE]

(* Phase 3: the breakers decide between ON and a RESET of the breakers. *)
ReadBreakers ==
    /\ phase' = 1 /\ age' = 0
    /\ IF sysInfo.brk = "GOOD"
       THEN actual' = "ON" /\ UNCHANGED port
       ELSE actual' = "RESET" /\ port' = [port EXCEPT !.breaker = FALSE]

OnWhileTurningOn ==
    /\ Sane /\ (Starting \/ actual = "TURNING_ON")
    /\ telem' = TelemNow
    /\ \/ /\ ~TelemStable
          /\ actual' = "TURNING_ON" /\ phase' = 1 /\ age' = ElapsedNow
          /\ Report(InterlockFaults)
          /\ UNCHANGED <<targ, port>>
       \/ /\ TelemStable /\ ~OutputIsOn
          /\ actual' = "TURNING_ON"
          /\ PowerOff /\ Report(InterlockFaults)
       \/ /\ TelemStable /\ OutputIsOn /\ ElapsedNow <= OnDelay
          /\ actual' = "TURNING_ON" /\ phase' = 2 /\ age' = PhaseTwoAge
          /\ Report(InterlockFaults)
          /\ UNCHANGED <<targ, port>>
       \/ /\ TelemStable /\ VoltageMissing /\ ElapsedNow > OnDelay
          /\ actual' = "TURNING_ON"
          /\ PowerOff /\ Report(InterlockFaults \cup VoltageLost)
       \/ /\ TelemStable /\ BreakersTried /\ ElapsedNow > OnDelay
          /\ ReadBreakers
          /\ Report(InterlockFaults)
          /\ UNCHANGED targ

(* actual = RESET: hold the breaker bit low for a pulse, then look again. *)
OnWhileReset ==
    /\ Sane /\ actual = "RESET"
    /\ \/ ~OutputIsOn /\ GiveUp(InterlockFaults) /\ UNCHANGED actual
       \/ VoltageMissing /\ GiveUp(InterlockFaults \cup VoltageLost) /\ UNCHANGED actual
       \/ /\ BreakersTried /\ age <= 2 * Pulse
          /\ port' = [port EXCEPT !.breaker = @ \/ age > Pulse]
          /\ Report(InterlockFaults)
          /\ UNCHANGED <<targ, actual, phase, age, telem>>
       \/ /\ BreakersInFault /\ age > 2 * Pulse
          /\ GiveUp(InterlockFaults \cup {"BREAKER_FAULT"})
          /\ UNCHANGED actual
       \/ /\ BreakersHold /\ age > 2 * Pulse
          /\ actual' = "ON" /\ age' = 0
          /\ port' = [port EXCEPT !.breaker = TRUE]
          /\ Report(InterlockFaults)
          /\ UNCHANGED <<targ, phase, telem>>

(* Mutant: an unknown state is turned on like OFF. *)
OnWhileUnknown_TurnsOn ==
    /\ Sane /\ actual = "UNKNOWN"
    /\ actual' = "TURNING_ON" /\ phase' = 1 /\ age' = 0
    /\ Report(InterlockFaults)
    /\ UNCHANGED <<targ, telem, port>>

(* The default of the switch: an actual state nobody has determined yet. *)
OnWhileUnknown ==
    /\ Sane /\ actual = "UNKNOWN"
    /\ GiveUp(InterlockFaults)
    /\ UNCHANGED actual

ProcessPowerOn ==
    \/ OnOverVoltage \/ OnOverCurrent
    \/ OnWhileOn \/ OnWhileTurningOn \/ OnWhileReset \/ OnWhileUnknown

(* _processPowerOff.  A reading that finds the actual state neither OFF nor *)
(* TURNING_OFF restarts the phase before the time in it is compared with    *)
(* the turn-off delay.                                                      *)
TurnOffElapsed == IF actual = "TURNING_OFF" THEN age ELSE 0

ProcessPowerOff ==
    /\ UNCHANGED telem
    /\ \/ /\ sysInfo.relay
          /\ PowerOff
          /\ UNCHANGED <<actual, faultsSet>>
       \/ /\ ~sysInfo.relay /\ actual = "OFF"
          /\ UNCHANGED <<targ, actual, phase, age, port, faultsSet>>
       \/ /\ ~sysInfo.relay /\ actual # "OFF"
          /\ port' = [power |-> FALSE, breaker |-> TRUE]
          /\ IF sysInfo.volt < VoltageOffLevel
             THEN actual' = "OFF" /\ age' = 0 /\ UNCHANGED faultsSet
             ELSE /\ age' = TurnOffElapsed
                  /\ Report(IF TurnOffElapsed > OffDelay
                            THEN {"RELAY_FAULT", "RELAY_IN_USE"} ELSE {})
                  /\ UNCHANGED actual
          /\ UNCHANGED <<targ, phase>>

DaqProcess ==
    /\ pc = "process"
    /\ pc' = "update"
    /\ \/ targ = "ON"  /\ ProcessPowerOn
       \/ targ = "OFF" /\ ProcessPowerOff
    /\ UNCHANGED <<sysInfo, faultVars, plant>>

(* FaultMgr::updatePowerFaults at the end of the pass: the faults of the   *)
(* subsystem's mask stay until they are reset.                             *)
DaqUpdate ==
    /\ pc = "update"
    /\ pc' = "idle"
    /\ latched' = latched \cup (faultsSet \cap SubsystemFaultMask)
    /\ faultsSet' = {}
    /\ UNCHANGED <<subVars, sysInfo, commLost, plant>>

-----------------------------------------------------------------------------
(* FaultMgr: faults are reset (FaultMgr::resetFaults, which only the tests  *)
(* call so far), clients come and go.                                      *)
ResetFaults ==
    /\ latched # {}
    /\ latched' = {}
    /\ UNCHANGED <<subVars, daqVars, commLost, plant>>

ReportConnections ==
    /\ commLost' = ~commLost
    /\ UNCHANGED <<subVars, daqVars, latched, plant>>

-----------------------------------------------------------------------------
(* SimCore::_simRun: calcBreakers and calcVoltageCurrent.  A breaker opens *)
(* with its reset bit and closes some time after it; the voltage moves     *)
(* towards the supply's level or to zero, some way or not yet visibly.     *)
Supply(cond) ==
    CASE cond = "sag" -> {1, 2} [] cond = "surge" -> {4} [] OTHER -> {NominalVoltage}

VoltageStep(v, level) ==
    IF v <= level THEN v .. level ELSE level .. v

BreakerStep(brk, closing) ==
    IF ~closing THEN {"OPEN"} ELSE IF brk = "OPEN" THEN {"OPEN", "GOOD"} ELSE {brk}

SimRun ==
    LET fed == port.power \/ plant.cond = "welded" IN
    /\ \E level \in IF fed THEN Supply(plant.cond) ELSE {0} :
       \E v \in VoltageStep(plant.volt, level),
          b \in BreakerStep(plant.brk, port.breaker) :
          plant' = [plant EXCEPT !.relay = port.power, !.volt = v, !.brk = b]
    /\ UNCHANGED <<subVars, daqVars, faultVars>>

(* The hardware's condition changes, or closed breakers trip. *)
Disturb ==
    /\ \/ \E c \in Conditions \ {plant.cond} : plant' = [plant EXCEPT !.cond = c]
       \/ \E b \in {"WARN", "FAULT"} :
             plant.brk # "OPEN" /\ plant' = [plant EXCEPT !.brk = b]
    /\ UNCHANGED <<subVars, daqVars, faultVars>>

Tick ==
    /\ age < AgeCap
    /\ age' = age + 1
    /\ UNCHANGED <<targ, actual, phase, telem, port, daqVars, faultVars, plant>>

-----------------------------------------------------------------------------
NoReading == [relay |-> FALSE, ready |-> FALSE, interlock |-> TRUE,
              volt |-> 0, over |-> FALSE, brk |-> "FAULT"]

(* The constructor has called setPowerOff; _phaseStartTime is the epoch. *)
Init ==
    /\ targ = "OFF" /\ actual = "UNKNOWN" /\ phase = 1 /\ age = AgeCap /\ telem = 0
    /\ port = [power |-> FALSE, breaker |-> TRUE]
    /\ sysInfo = NoReading /\ faultsSet = {} /\ pc = "idle"
    /\ latched = {} /\ commLost = TRUE
    /\ plant \in {p \in Plant : ~p.relay /\ p.volt = 0 /\ p.brk = "OPEN"}

Caller == SetPowerOn \/ SetPowerOff \/ ResetFaults \/ ReportConnections
Daq    == DaqRead \/ DaqCheckFaults \/ DaqProcess \/ DaqUpdate

Next == Caller \/ Daq \/ SimRun \/ Disturb \/ Tick

(* The two loops never stop while the program runs, time passes, and a     *)
(* voltage on its way gets there (calcVoltageCurrent adds a rate).         *)
VoltageMoves == SimRun /\ plant'.volt # plant.volt

Fairness == WF_vars(Daq) /\ WF_vars(SimRun) /\ WF_vars(VoltageMoves) /\ WF_vars(Tick)

Spec     == Init /\ [][Next]_vars
FairSpec == Spec /\ Fairness

-----------------------------------------------------------------------------
PowerState == {"UNKNOWN", "OFF", "TURNING_ON", "RESET", "ON", "TURNING_OFF"}

TypeOK ==
    /\ targ \in {"ON", "OFF"} /\ actual \in PowerState
    /\ phase \in 1 .. 3 /\ age \in 0 .. AgeCap /\ telem \in 0 .. TelemMin
    /\ port \in Port /\ sysInfo \in Reading /\ faultsSet \subseteq Faults
    /\ latched \subseteq SubsystemFaultMask /\ commLost \in BOOLEAN
    /\ pc \in {"idle", "check", "process", "update"}
    /\ plant \in Plant

(* The output bits never contradict the target, whichever of the callers,  *)
(* the fault check and the state machine moved it last: the power bit is   *)
(* on exactly while power is wanted, and the breaker bit is low only       *)
(* during a reset that somebody still waits for.                           *)
OutputsFollowTarget ==
    /\ port.power <=> targ = "ON"
    /\ ~port.breaker => targ = "ON" /\ actual = "RESET"

(* The phase always belongs to the actual state, across turn-offs and      *)
(* turn-ons at any moment: a subsystem that is ON is in a phase from which *)
(* the low voltage check is reached, and one in RESET has restarted.       *)
PhaseMatchesState ==
    /\ targ = "OFF" => phase = 1
    /\ actual \in {"ON", "TURNING_ON"} => phase \in 1 .. 2
    /\ actual \in {"UNKNOWN", "OFF", "RESET"} => phase = 1

(* A command may come between the fault check and the processing of the    *)
(* same reading: it never gets power past a fault that is already latched. *)
LatchedFaultHoldsOff ==
    pc \in {"process", "update"} /\ latched # {} => targ = "OFF"

(* Whatever path leads to ON, the very reading that declares it shows the  *)
(* relay closed, the interlocks satisfied, a voltage at which breakers can *)
(* be read and no overload, and no breaker in fault; without a RESET of    *)
(* the breakers, not even one in warning.                                  *)
TurnOnVerified ==
    [][actual' = "ON" /\ actual # "ON" =>
          /\ OutputIsOn /\ Sane
          /\ sysInfo.volt >= BreakerOperatingVoltage
          /\ sysInfo.brk = "GOOD" \/ (actual = "RESET" /\ sysInfo.brk = "WARN")]_vars

(* Turning off completes: once power is not wanted, and unless somebody    *)
(* wants it again, the state becomes OFF (the relay opens).                *)
OffCompletes == targ = "OFF" ~> (actual = "OFF" \/ targ = "ON")

(* Each setPowerOn restarts the turn-on, also of a subsystem that is ON:   *)
(* what a turn-on leads to is said of callers that stop asking for one.    *)
NoMoreTurnOns == <>[][~SetPowerOn]_vars

(* Turning on never hangs in TURNING_ON or RESET: it reaches ON or gives up. *)
OnSettles == NoMoreTurnOns => (targ = "ON" ~> (actual = "ON" \/ targ = "OFF"))

(* A subsystem that is ON does not stay powered through a low voltage. *)
LowVoltageTrips ==
    NoMoreTurnOns =>
        ((targ = "ON" /\ actual = "ON" /\ plant.volt < MinVoltageFault)
            ~> (targ = "OFF" \/ plant.volt >= MinVoltageFault))

(* The subsystem keeps the promise of PowerPromise. *)
Promise == INSTANCE PowerPromise
KeepsPromise == Promise!Spec

(* A relay that does not open is reported: power is not wanted, the relay  *)
(* bit is off, and the voltage stays.                                      *)
StuckRelayReported ==
    (targ = "OFF" /\ plant.cond = "welded" /\ plant.volt >= VoltageOffLevel)
        ~> ("RELAY_FAULT" \in latched \/ targ = "ON" \/ plant.cond # "welded"
              \/ plant.volt < VoltageOffLevel)
=============================================================================
