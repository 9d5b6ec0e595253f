---------------------------- MODULE ControlSystem ----------------------------
(***************************************************************************)
(* The M2 cell controller around its two power subsystems: the Model and   *)
(* its state (state/Model.cpp), the PowerSystem's event thread             *)
(* (control/PowerSystem.cpp), FaultMgr, the commands of a client, and the  *)
(* rise and fall of the client's connection.                               *)
(*                                                                         *)
(* Each thread's steps are delimited by the locks it takes.  Model::_mtx   *)
(* is held over two steps by whoever reads or turns off both subsystems:   *)
(* the commands, which do not take it, run between them.                   *)
(* A subsystem does what PowerPromise says of it.  TURNING_ON stands here  *)
(* for RESET as well: nothing outside the subsystem tells them apart.      *)
(* Its own faults are not remembered here: one may be found, or be latched *)
(* already, whenever the subsystem looks, and turns it off.                *)
(* One client at a time is connected.                                      *)
(***************************************************************************)
EXTENDS FiniteSets, StateMap

CONSTANTS
    Commands,   \* threads that run commands of the client at the same time
    Ops,        \* the power commands the client sends
    HealthVaries, \* whether the health inputs of the power supplies may fail
    MayShutDown \* whether the client may ask for a system shutdown

Op == {"motorOn", "motorOff", "commOn", "commOff"}

ASSUME OpsAssumption == Ops \subseteq Op
ASSUME SwitchAssumption == HealthVaries \in BOOLEAN /\ MayShutDown \in BOOLEAN

VARIABLES
    current,    \* StateMap::_currentState
    modelMtx,   \* Model::_mtx between two steps: the thread that holds it
    targ,       \* _targPowerState of both subsystems
    actual,     \* _actualPowerState of both subsystems
    prev,       \* _targPowerStatePrev and _actualPowerStatePrev of both
    commLost,   \* FaultMgr::_commConnectionFault
    prevHealth, \* whether PowerFaultMgr::_prevFaults has a health fault
    unhealthy,  \* whether the reading being processed has one
    relay,      \* the power bits of the output port that the hardware acts on
    motorAlone, \* whether the reading has the power bit of MOTOR without COMM's
    pc,         \* where the event thread is
    sub,        \* the subsystem whose processDaq the event thread runs
    comTarg,    \* comTargPower of reportPowerSystemStateChange
    link,       \* the connection of the client
    cmd,        \* what each command thread is about to do
    stop,       \* how far systemShutdown has come
    healthy     \* whether the health inputs are in order

powerVars  == <<targ, actual, prev>>
faultVars  == <<commLost, prevHealth>>
daqVars    == <<unhealthy, motorAlone, pc, sub, comTarg>>
modelVars  == <<current, modelMtx>>
clientVars == <<link, cmd, stop>>
vars == <<powerVars, faultVars, daqVars, modelVars, clientVars, relay, healthy>>

Sub == {"MOTOR", "COMM"}

-----------------------------------------------------------------------------
ModelFree == modelMtx = "none"

(* _turnOffAll, by the thread `t` that has locked Model::_mtx: MOTOR now,  *)
(* COMM in TurnOffComm, and only then the lock is released.                *)
TurnOffAll(t) ==
    /\ modelMtx' = t
    /\ targ' = [targ EXCEPT !["MOTOR"] = "OFF"]

TurnOffComm ==
    /\ modelMtx \in {"daq", "net", "stop"}
    /\ modelMtx' = "none"
    /\ targ' = [targ EXCEPT !["COMM"] = "OFF"]
    /\ UNCHANGED <<current, actual, prev, faultVars, daqVars, clientVars, relay, healthy>>

(* Model::changeState by a thread that finds Model::_mtx free. *)
ChangeState(t, new) ==
    /\ ModelFree
    /\ current' = NextState(current, new, TRUE)
    /\ IF Enters(current, new, TRUE) /\ EntryTurnsOff(new)
       THEN TurnOffAll(t) ELSE UNCHANGED <<targ, modelMtx>>

(* Mutant: the state is changed, the power is left to the state. *)
GoToSafeMode_ChangesStateOnly(t) == ChangeState(t, SafeTarget(current, "STANDBY"))

(* Model::goToSafeMode *)
GoToSafeMode(t) ==
    /\ ModelFree
    /\ TurnOffAll(t)
    /\ current' = NextState(current, SafeTarget(current, "STANDBY"), TRUE)

(* Model::ctrlStart, once ctrlSetup is done. *)
CtrlStart ==
    /\ current = "STARTUP"
    /\ ChangeState("stop", "STANDBY")
    /\ UNCHANGED <<actual, prev, faultVars, daqVars, clientVars, relay, healthy>>

-----------------------------------------------------------------------------
(* Mutant: a lost connection does not keep power off. *)
MayBeOn_IgnoresComm == {"ON", "OFF"}

(* _checkForFaults: without a client always, else by the subsystem's own   *)
(* faults and, for MOTOR, the cRIO's interlock.                            *)
MayBeOn == IF commLost THEN {"OFF"} ELSE {"ON", "OFF"}

SetPowerOn(s)  == \E granted \in MayBeOn : targ' = [targ EXCEPT ![s] = granted]
SetPowerOff(s) == targ' = [targ EXCEPT ![s] = "OFF"]

(* FaultMgr::updatePowerFaults: nothing happens unless some fault changed,  *)
(* a health fault or, seen from here at any time, one of a subsystem.       *)
UpdatePowerFaults ==
    /\ prevHealth' = unhealthy
    /\ \/ unhealthy /\ GoToSafeMode("daq")
       \/ (unhealthy => prevHealth) /\ UNCHANGED <<modelVars, targ>>

-----------------------------------------------------------------------------
(* PowerSystem's event thread, one reading at a time. *)
Goto(at) == pc' = at /\ UNCHANGED sub

(* Mutant: the bits are mixed up. *)
MotorAlone_Swapped == relay["COMM"] /\ ~relay["MOTOR"]

MotorAlone == relay["MOTOR"] /\ ~relay["COMM"]

(* _daqInfoRead: the health inputs are looked at first. *)
DaqRead ==
    /\ pc = "read" \/ (pc = "idle" /\ stop # "stopped")
    /\ modelMtx # "daq"
    /\ motorAlone' = MotorAlone
    /\ unhealthy' = ~healthy
    /\ Goto(IF healthy THEN "bits" ELSE "health")
    /\ UNCHANGED <<powerVars, faultVars, comTarg, modelVars, clientVars, relay, healthy>>

DaqHealth ==
    /\ pc = "health"
    /\ UpdatePowerFaults
    /\ Goto("bits")
    /\ UNCHANGED <<actual, prev, commLost, unhealthy, motorAlone, comTarg, clientVars, relay, healthy>>

(* Motor power without comm power, by the bits of the reading. *)
DaqBits ==
    /\ pc = "bits" /\ modelMtx # "daq"
    /\ IF motorAlone THEN SetPowerOff("MOTOR") ELSE UNCHANGED targ
    /\ motorAlone' = FALSE
    /\ Goto("check")
    /\ UNCHANGED <<actual, prev, faultVars, unhealthy, comTarg, modelVars, clientVars,
                   relay, healthy>>

PowerOf(s) == [targ |-> targ[s], actual |-> actual[s]]

(* PowerSubsystem::processDaq of `sub`: turned off if there are faults, and *)
(* then compared with what was last reported.  A command that comes between *)
(* the two might as well have come first.                                   *)
DaqCheck ==
    /\ pc = "check"
    /\ SetPowerOff(sub) \/ (~commLost /\ UNCHANGED targ)
    /\ Goto(IF prev[sub] = [targ |-> targ'[sub], actual |-> actual[sub]] THEN "prev" ELSE "report")
    /\ UNCHANGED <<actual, prev, faultVars, unhealthy, motorAlone, comTarg, modelVars, clientVars,
                   relay, healthy>>

(* Mutant: the lock is not taken. *)
LockToReport_NotTaken == ModelFree /\ UNCHANGED modelMtx

LockToReport == ModelFree /\ modelMtx' = "report"

(* Model::reportPowerSystemStateChange reads one target, then the other. *)
DaqReport ==
    /\ pc = "report"
    /\ LockToReport
    /\ comTarg' = targ["COMM"]
    /\ Goto("act")
    /\ UNCHANGED <<powerVars, faultVars, unhealthy, motorAlone, current, clientVars, relay, healthy>>

(* Mutant: one of the two is enough. *)
AllOn_OneTarget ==
    (comTarg = "ON" \/ targ["MOTOR"] = "ON") /\ \A s \in Sub : actual[s] \in {"ON", "OFF"}

AllOn == comTarg = "ON" /\ targ["MOTOR"] = "ON" /\ \A s \in Sub : actual[s] = "ON"

DaqAct ==
    /\ pc = "act"
    /\ Goto("prev") /\ comTarg' = "OFF"
    /\ \/ /\ current \in {"STARTUP", "OFFLINE"}
          /\ UNCHANGED current
          /\ IF comTarg # "OFF" \/ targ["MOTOR"] # "OFF"
             THEN TurnOffAll("daq") ELSE modelMtx' = "none" /\ UNCHANGED targ
       \/ /\ current \in PowerStates
          /\ current' = IF AllOn THEN current ELSE NextState(current, "STANDBY", TRUE)
          /\ modelMtx' = "none" /\ UNCHANGED targ
       \/ /\ current = "STANDBY"
          /\ current' = IF AllOn THEN NextState(current, "IDLE", TRUE) ELSE current
          /\ modelMtx' = "none" /\ UNCHANGED targ
    /\ UNCHANGED <<actual, prev, faultVars, unhealthy, motorAlone, clientVars, relay, healthy>>

DaqPrev ==
    /\ pc = "prev" /\ modelMtx # "daq"
    /\ prev' = [prev EXCEPT ![sub] = PowerOf(sub)]
    /\ Goto("process")
    /\ UNCHANGED <<targ, actual, faultVars, unhealthy, motorAlone, comTarg, modelVars, clientVars,
                   relay, healthy>>

(* Mutant: what is remembered is what the reading has led to. *)
TurnedOff_Remembers(s) ==
    /\ actual' = [actual EXCEPT ![s] = "OFF"]
    /\ prev' = [prev EXCEPT ![s] = [targ |-> targ[s], actual |-> "OFF"]]

(* _processPowerOff is done: the relay is open, the voltage is gone. *)
TurnedOff(s) ==
    /\ actual' = [actual EXCEPT ![s] = "OFF"]
    /\ UNCHANGED prev

(* Mutant: ON at the first reading. *)
Climb_SkipsTurningOn(s) ==
    IF actual[s] = "UNKNOWN" THEN {} ELSE {"TURNING_ON", "ON"}

(* _processPowerOn: where the actual state goes while power is wanted. *)
Climb(s) ==
    IF actual[s] = "TURNING_ON" THEN {"TURNING_ON", "ON"}
    ELSE {a \in {"TURNING_ON", "ON"} : <<actual[s], a>> \in {<<"OFF", "TURNING_ON">>, <<"ON", "ON">>}}

DaqProcess ==
    /\ pc = "process"
    /\ \/ /\ targ[sub] = "ON"
          /\ \E a \in Climb(sub) : actual' = [actual EXCEPT ![sub] = a]
          /\ UNCHANGED <<targ, prev>>
       \/ targ[sub] = "ON" /\ SetPowerOff(sub) /\ UNCHANGED <<actual, prev>>
       \/ targ[sub] = "OFF" /\ UNCHANGED <<targ, actual, prev>>
       \/ targ[sub] = "OFF" /\ TurnedOff(sub) /\ UNCHANGED targ
    /\ IF sub = "MOTOR" THEN pc' = "check" /\ sub' = "COMM" ELSE Goto("update")
    /\ UNCHANGED <<faultVars, unhealthy, motorAlone, comTarg, modelVars, clientVars, relay, healthy>>

(* The reading is done with. *)
DaqUpdate ==
    /\ pc = "update"
    /\ UpdatePowerFaults
    /\ pc' = "idle" /\ sub' = "MOTOR"
    /\ unhealthy' = FALSE
    /\ UNCHANGED <<actual, prev, commLost, motorAlone, comTarg, clientVars, relay, healthy>>

(* _daqTimeoutCheck finds the last reading too old: both are turned off,   *)
(* the fault is reported, and the last reading is processed once more.     *)
DaqTimeout ==
    /\ pc = "idle" /\ modelMtx # "daq"
    /\ SetPowerOff("MOTOR")
    /\ Goto("timeout")
    /\ UNCHANGED <<actual, prev, faultVars, unhealthy, motorAlone, comTarg, modelVars, clientVars,
                   relay, healthy>>

DaqTimeoutComm ==
    /\ pc = "timeout"
    /\ SetPowerOff("COMM")
    /\ prevHealth' = FALSE
    /\ Goto("read")
    /\ UNCHANGED <<actual, prev, commLost, unhealthy, motorAlone, comTarg, modelVars, clientVars,
                   relay, healthy>>

-----------------------------------------------------------------------------
(* FpgaIo carries the output port to the hardware, until stopLoop. *)
SimRun ==
    /\ stop # "stopped"
    /\ relay' = [s \in Sub |-> targ[s] = "ON"]
    /\ UNCHANGED <<powerVars, faultVars, daqVars, modelVars, clientVars, healthy>>

HealthChanges ==
    /\ HealthVaries
    /\ healthy' = ~healthy
    /\ UNCHANGED <<powerVars, faultVars, daqVars, modelVars, clientVars, relay>>

-----------------------------------------------------------------------------
(* NCmdPower::action: the state that is asked for the power is looked up   *)
(* under the Model's lock; what it does then runs without it.              *)
Idle == [op |-> "none", at |-> "done"]

CmdStart(c) ==
    /\ cmd[c] = Idle /\ link = "open" /\ ModelFree
    /\ current \in {"STANDBY", "IDLE"}
    /\ \E o \in Ops :
          cmd' = [cmd EXCEPT ![c] =
                    [op |-> o, at |-> IF o \in {"motorOn", "commOff"} THEN "check" ELSE "set"]]
    /\ UNCHANGED <<powerVars, faultVars, daqVars, modelVars, link, stop, relay, healthy>>

(* powerMotor looks at COMM, and powerComm at MOTOR, before they act. *)
CmdCheck(c) ==
    /\ cmd[c].at = "check"
    /\ \/ /\ cmd[c].op = "motorOn" /\ actual["COMM"] # "ON"
          /\ cmd' = [cmd EXCEPT ![c] = Idle]
          /\ UNCHANGED targ
       \/ /\ cmd[c].op = "motorOn" => actual["COMM"] = "ON"
          /\ cmd' = [cmd EXCEPT ![c].at = "set"]
          /\ IF cmd[c].op = "commOff" /\ actual["MOTOR"] # "OFF"
             THEN SetPowerOff("MOTOR") ELSE UNCHANGED targ
    /\ UNCHANGED <<actual, prev, faultVars, daqVars, modelVars, link, stop, relay, healthy>>

CmdSet(c) ==
    /\ cmd[c].at = "set"
    /\ cmd' = [cmd EXCEPT ![c] = Idle]
    /\ \/ cmd[c].op = "motorOn"  /\ SetPowerOn("MOTOR")
       \/ cmd[c].op = "commOn"   /\ SetPowerOn("COMM")
       \/ cmd[c].op = "motorOff" /\ SetPowerOff("MOTOR")
       \/ cmd[c].op = "commOff"  /\ SetPowerOff("COMM")
    /\ UNCHANGED <<actual, prev, faultVars, daqVars, modelVars, link, stop, relay, healthy>>

-----------------------------------------------------------------------------
(* The connection: ComServer counts it (and clears or sets the connection  *)
(* fault), Globals counts it (and changes the state).                      *)
Accept ==
    /\ link = "none" /\ modelMtx # "net"
    /\ current # "STARTUP" /\ stop # "stopped"
    /\ link' = "accepted"
    /\ commLost' = FALSE
    /\ UNCHANGED <<powerVars, prevHealth, daqVars, modelVars, cmd, stop, relay, healthy>>

(* beginProtocol; or the accept failed and the connection is dropped. *)
Open ==
    /\ link = "accepted"
    /\ \/ link' = "open" /\ ChangeState("net", "STANDBY")
       \/ link' = "closing" /\ UNCHANGED <<targ, modelVars>>
    /\ UNCHANGED <<actual, prev, faultVars, daqVars, cmd, stop, relay, healthy>>

(* ComConnection::shutdown: by the destructor, once no command holds the   *)
(* connection any more, or by ComServer::shutdown.                         *)
Close ==
    /\ link = "open"
    /\ stop = "stopped" \/ \A c \in Commands : cmd[c] = Idle
    /\ link' = "closing"
    /\ ChangeState("net", "OFFLINE")
    /\ UNCHANGED <<actual, prev, faultVars, daqVars, cmd, stop, relay, healthy>>

Erase ==
    /\ link = "closing" /\ modelMtx # "net"
    /\ link' = "erased"
    /\ commLost' = TRUE
    /\ UNCHANGED <<powerVars, prevHealth, daqVars, modelVars, cmd, stop, relay, healthy>>

Erased ==
    /\ link = "erased"
    /\ link' = "none"
    /\ GoToSafeMode("net")
    /\ UNCHANGED <<actual, prev, faultVars, daqVars, cmd, stop, relay, healthy>>

-----------------------------------------------------------------------------
(* Model::systemShutdown *)
ShutdownOffline ==
    /\ MayShutDown /\ stop = "no" /\ link = "open"
    /\ stop' = "offline"
    /\ ChangeState("stop", "OFFLINE")
    /\ UNCHANGED <<actual, prev, faultVars, daqVars, link, cmd, relay, healthy>>

ShutdownTurnOff ==
    /\ stop = "offline" /\ ModelFree
    /\ stop' = "off"
    /\ TurnOffAll("stop")
    /\ UNCHANGED <<current, actual, prev, faultVars, daqVars, link, cmd, relay, healthy>>

ShutdownStop ==
    /\ stop = "off" /\ modelMtx # "stop"
    /\ stop' = "stopped"
    /\ UNCHANGED <<powerVars, faultVars, daqVars, modelVars, link, cmd, relay, healthy>>

-----------------------------------------------------------------------------
Init ==
    /\ current = "STARTUP" /\ modelMtx = "none"
    /\ targ = [s \in Sub |-> "OFF"] /\ actual = [s \in Sub |-> "UNKNOWN"]
    /\ prev = [s \in Sub |-> [targ |-> "UNKNOWN", actual |-> "UNKNOWN"]]
    /\ commLost = TRUE /\ prevHealth = FALSE /\ unhealthy = FALSE
    /\ relay = [s \in Sub |-> FALSE] /\ motorAlone = FALSE
    /\ pc = "idle" /\ sub = "MOTOR" /\ comTarg = "OFF"
    /\ link = "none" /\ cmd = [c \in Commands |-> Idle] /\ stop = "no" /\ healthy = TRUE

Daq == \/ DaqRead \/ DaqHealth \/ DaqBits \/ DaqCheck \/ DaqReport
       \/ DaqAct \/ DaqPrev \/ DaqProcess \/ DaqUpdate \/ DaqTimeoutComm
Command(c) == CmdCheck(c) \/ CmdSet(c)
Closing    == Erase \/ Erased
Shutdown   == ShutdownTurnOff \/ ShutdownStop

Next ==
    \/ CtrlStart \/ TurnOffComm \/ Daq \/ DaqTimeout \/ SimRun \/ HealthChanges
    \/ \E c \in Commands : CmdStart(c) \/ Command(c)
    \/ Accept \/ Open \/ Close \/ Closing
    \/ ShutdownOffline \/ Shutdown

(* A subsystem that is not wanted is found without its voltage. *)
VoltageGone == DaqProcess /\ targ[sub] = "OFF" /\ TurnedOff(sub)

(* Every thread goes on; readings wake the event thread and, after stopLoop, *)
(* timeouts do; and a subsystem that is turned off loses its voltage, which  *)
(* OffCompletes of PowerSubsystem shows of it.                               *)
Fairness ==
    /\ WF_vars(TurnOffComm) /\ WF_vars(Daq) /\ WF_vars(SimRun)
    /\ WF_vars(DaqTimeout /\ stop = "stopped")
    /\ \A c \in Commands : WF_vars(Command(c))
    /\ WF_vars(Closing) /\ WF_vars(Shutdown)
    /\ SF_vars(VoltageGone /\ sub = "MOTOR") /\ SF_vars(VoltageGone /\ sub = "COMM")

Spec     == Init /\ [][Next]_vars
FairSpec == Spec /\ Fairness

-----------------------------------------------------------------------------
Power == {"UNKNOWN", "OFF", "TURNING_ON", "ON"}

TypeOK ==
    /\ current \in States /\ modelMtx \in {"none", "daq", "net", "stop", "report"}
    /\ targ \in [Sub -> {"ON", "OFF"}] /\ actual \in [Sub -> Power]
    /\ prev \in [Sub -> [targ : {"ON", "OFF", "UNKNOWN"}, actual : Power]]
    /\ commLost \in BOOLEAN /\ prevHealth \in BOOLEAN /\ unhealthy \in BOOLEAN
    /\ relay \in [Sub -> BOOLEAN] /\ motorAlone \in BOOLEAN
    /\ pc \in {"idle", "read", "health", "bits", "check", "report", "act", "prev",
               "process", "update", "timeout"}
    /\ sub \in Sub /\ comTarg \in {"ON", "OFF"}
    /\ link \in {"none", "accepted", "open", "closing", "erased"}
    /\ cmd \in [Commands -> [op : Op, at : {"check", "set"}] \cup {Idle}]
    /\ stop \in {"no", "offline", "off", "stopped"} /\ healthy \in BOOLEAN
    /\ modelMtx = "report" <=> pc = "act"

(* eraseConnection and setTcpIpConnected leave no power behind: once the   *)
(* last connection is erased and safe mode entered, nothing that is still  *)
(* running (a command, the event thread, a shutdown) has or gets a         *)
(* subsystem powered.                                                      *)
NoPowerWithoutClient ==
    link = "none" /\ modelMtx # "net" => \A s \in Sub : targ[s] = "OFF"

(* processDaq: no loss of power goes unheard of while the Model is IDLE.   *)
(* Between two readings, a subsystem that is not ON in IDLE differs from   *)
(* what was last reported of it, so that the next reading reports it.      *)
LossIsReported ==
    pc = "idle" /\ current = "IDLE" =>
        \A s \in Sub : actual[s] # "ON" => prev[s].actual # actual[s]

(* OFFLINE is left only for STANDBY, and only by a client that connects:   *)
(* no report of the event thread, safe mode or shutdown brings it back.    *)
OfflineLeftByClient ==
    [][current = "OFFLINE" /\ current' # current =>
          current' = "STANDBY" /\ link = "accepted" /\ link' = "open"]_vars

(* Whatever its callers do between the steps of the event thread, each     *)
(* subsystem is seen to do what PowerPromise, and thereby PowerSubsystem   *)
(* with all its phases, allows: _processDaq drives the actual state alone. *)
Motor == INSTANCE PowerPromise WITH targ <- targ["MOTOR"], actual <- actual["MOTOR"]
Comm  == INSTANCE PowerPromise WITH targ <- targ["COMM"], actual <- actual["COMM"]
SubsystemsKeepPromise == Motor!Spec /\ Comm!Spec

(* PowerSystem::_processDaq: motor power does not stay wanted while comm    *)
(* power is not.  The bits of a later reading correct it, whatever order   *)
(* the commands came in.                                                   *)
MotorFollowsComm ==
    (targ["MOTOR"] = "ON" /\ targ["COMM"] = "OFF")
        ~> (targ["MOTOR"] = "OFF" \/ targ["COMM"] = "ON")

(* reportPowerSystemStateChange: IDLE does not outlive the power.  Unless  *)
(* the client commands again, it is left, or power is wanted after all.    *)
IdleIsLeft ==
    (current = "IDLE" /\ \E s \in Sub : targ[s] = "OFF")
        ~> (\/ current # "IDLE" \/ \A s \in Sub : targ[s] = "ON"
            \/ \E c \in Commands : cmd[c] # Idle)

(* reportPowerSystemStateChange: with both powers on, the Model leaves      *)
(* STANDBY for IDLE.                                                        *)
FullPowerIsIdle ==
    (current = "STANDBY" /\ \A s \in Sub : PowerOf(s) = [targ |-> "ON", actual |-> "ON"])
        ~> (\/ current # "STANDBY" \/ \E c \in Commands : cmd[c] # Idle
            \/ \E s \in Sub : PowerOf(s) # [targ |-> "ON", actual |-> "ON"])

(* updatePowerFaults sends the Model to safe mode: a health fault that is   *)
(* new turns COMM, the second of the two, off too, although the lock must  *)
(* be waited for and commands go on meanwhile.                             *)
NewHealthFaultTurnsOff == (pc = "health" /\ ~prevHealth) ~> targ["COMM"] = "OFF"

(* updatePowerFaults "always" sends the Model to safe mode: a health fault *)
(* that stays does not leave a subsystem powered for good.                 *)
HealthFaultTurnsOff ==
    (~healthy /\ targ["COMM"] = "ON") ~> (healthy \/ targ["COMM"] = "OFF")

(* powerMotor: motor power is turned on only while comm power is ON. *)
MotorOnNeedsComm ==
    [][targ["MOTOR"] = "OFF" /\ targ'["MOTOR"] = "ON" => actual["COMM"] = "ON"]_vars

(* systemShutdown: once it has made the Model OFFLINE, nothing is turned on. *)
ShutdownStaysOff ==
    [][stop # "no" => \A s \in Sub : targ[s] = "OFF" => targ'[s] = "OFF"]_vars
=============================================================================
