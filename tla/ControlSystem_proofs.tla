------------------------- MODULE ControlSystem_proofs -------------------------
(***************************************************************************)
(* What holds of ControlSystem for any number of command threads, whatever *)
(* commands the client sends and whether or not the health inputs fail and *)
(* the system is shut down.                                                *)
(***************************************************************************)
EXTENDS ControlSystem, TLAPS

(* The connection fault is set exactly while no connection is registered. *)
CommFollowsLink == commLost <=> link \in {"none", "erased"}

(* Safe mode turned MOTOR off when the last connection went, and COMM as    *)
(* soon as the thread that entered it has released Model::_mtx.            *)
OffSinceErased ==
    link = "none" =>
        /\ targ["MOTOR"] = "OFF"
        /\ modelMtx # "net" => targ["COMM"] = "OFF"

(* A subsystem that is not ON differs from what was last reported of it. *)
Unreported(s) == actual[s] # "ON" => prev[s].actual # actual[s]

(* In IDLE, the subsystem whose reading has passed the comparison is ON     *)
(* until _processDaq has seen to it, and so it is remembered.               *)
PassedIsOn ==
    /\ pc \in {"prev", "process"} => actual[sub] = "ON"
    /\ pc = "process" => prev[sub].actual = "ON"

IdleKnowsLosses == current = "IDLE" => PassedIsOn /\ \A s \in Sub : Unreported(s)

IInv == TypeOK /\ CommFollowsLink /\ OffSinceErased /\ IdleKnowsLosses

-----------------------------------------------------------------------------
(* The parts of TypeOK, which steps keep one by one. *)
ModelTypes ==
    /\ current \in States /\ modelMtx \in {"none", "daq", "net", "stop", "report"}
    /\ pc \in {"idle", "read", "health", "bits", "check", "report", "act", "prev",
               "process", "update", "timeout"}
    /\ modelMtx = "report" <=> pc = "act"
PowerTypes ==
    /\ targ \in [Sub -> {"ON", "OFF"}] /\ actual \in [Sub -> Power]
    /\ prev \in [Sub -> [targ : {"ON", "OFF", "UNKNOWN"}, actual : Power]]
    /\ sub \in Sub /\ comTarg \in {"ON", "OFF"}
FlagTypes ==
    /\ commLost \in BOOLEAN /\ prevHealth \in BOOLEAN /\ unhealthy \in BOOLEAN
    /\ relay \in [Sub -> BOOLEAN] /\ motorAlone \in BOOLEAN /\ healthy \in BOOLEAN
ClientTypes ==
    /\ link \in {"none", "accepted", "open", "closing", "erased"}
    /\ cmd \in [Commands -> [op : Op, at : {"check", "set"}] \cup {Idle}]
    /\ stop \in {"no", "offline", "off", "stopped"}

LEMMA TypeParts == TypeOK <=> ModelTypes /\ PowerTypes /\ FlagTypes /\ ClientTypes
  BY Zenon DEF TypeOK, ModelTypes, PowerTypes, FlagTypes, ClientTypes

LEMMA TypePartsNext == TypeOK' <=> ModelTypes' /\ PowerTypes' /\ FlagTypes' /\ ClientTypes'
  BY Zenon DEF TypeOK, ModelTypes, PowerTypes, FlagTypes, ClientTypes

-----------------------------------------------------------------------------
(* StateMap: the operators on the Model's state. *)
LEMMA NextStateIs ==
  ASSUME NEW from \in States, NEW to \in States
  PROVE  NextState(from, to, TRUE) \in {from, to}
  BY DEF NextState

LEMMA SafeTargetIs ==
  ASSUME NEW from \in States
  PROVE  SafeTarget(from, "STANDBY") = IF from = "OFFLINE" THEN "OFFLINE" ELSE "STANDBY"
  BY DEF SafeTarget, SafeStates

(* Going to safe mode neither leaves OFFLINE nor enters IDLE. *)
LEMMA SafeModeIs ==
  ASSUME current \in States, NEW t, GoToSafeMode(t)
  PROVE  /\ current' \in {current, "STANDBY"} /\ (current = "OFFLINE" => current' = "OFFLINE")
         /\ ModelFree /\ modelMtx' = t /\ targ' = [targ EXCEPT !["MOTOR"] = "OFF"]
  BY SafeTargetIs, NextStateIs DEF GoToSafeMode, TurnOffAll, States, NextState

(* Nor does a change to a safe state enter IDLE. *)
LEMMA ChangeStateIs ==
  ASSUME current \in States, NEW t, NEW new \in SafeStates, ChangeState(t, new)
  PROVE  /\ current' \in {current, new} /\ ModelFree
         /\ \/ modelMtx' = modelMtx /\ targ' = targ
            \/ modelMtx' = t /\ targ' = [targ EXCEPT !["MOTOR"] = "OFF"]
         /\ new = "STANDBY" => modelMtx' = modelMtx /\ targ' = targ
  BY NextStateIs DEF ChangeState, TurnOffAll, States, SafeStates, EntryTurnsOff

LEMMA InitIInv == Init => IInv
  <1> SUFFICES ASSUME Init PROVE IInv
    OBVIOUS
  <1> USE DEF Init
  <1>1. TypeOK
    BY DEF TypeOK, States, Power, Sub, Idle
  <1>2. QED
    BY <1>1 DEF IInv, CommFollowsLink, OffSinceErased, IdleKnowsLosses, Sub

-----------------------------------------------------------------------------
(* What a step does to the targets: it turns one off, or grants one that    *)
(* the connection fault does not forbid.                                    *)
TargStep ==
    \/ UNCHANGED targ
    \/ \E s \in Sub : targ' = [targ EXCEPT ![s] = "OFF"]
    \/ ~commLost /\ \E s \in Sub : targ' = [targ EXCEPT ![s] = "ON"]

LEMMA TargStepType ==
  ASSUME targ \in [Sub -> {"ON", "OFF"}], TargStep
  PROVE  targ' \in [Sub -> {"ON", "OFF"}]
  BY DEF TargStep

LEMMA SetPowerIs ==
  ASSUME NEW s \in Sub, SetPowerOn(s) \/ SetPowerOff(s)
  PROVE  TargStep
  BY DEF SetPowerOn, SetPowerOff, MayBeOn, TargStep

(* While the connection, its fault and the holder of the Model's lock stay, *)
(* no such step powers what has no client.                                  *)
LEMMA TargStepKeepsOff ==
  ASSUME TypeOK, CommFollowsLink, OffSinceErased, TargStep, UNCHANGED <<link, modelMtx>>
  PROVE  OffSinceErased'
  BY DEF TypeOK, CommFollowsLink, OffSinceErased, TargStep, Sub

(* Nor does one that gives the lock to a thread other than the connection's. *)
LEMMA OtherHolderKeepsOff ==
  ASSUME TypeOK, CommFollowsLink, OffSinceErased, TargStep, UNCHANGED link,
         modelMtx # "net"
  PROVE  OffSinceErased'
  BY DEF TypeOK, CommFollowsLink, OffSinceErased, TargStep, Sub

(* Losses stay known while the event thread rests and IDLE is not entered. *)
LEMMA LossesStayKnown ==
  ASSUME IdleKnowsLosses, UNCHANGED <<actual, prev, pc, sub>>, current' = "IDLE" => current = "IDLE"
  PROVE  IdleKnowsLosses'
  BY DEF IdleKnowsLosses, PassedIsOn, Unreported

-----------------------------------------------------------------------------
LEMMA CommandTargets ==
  ASSUME TypeOK, NEW c \in Commands, CmdStart(c) \/ Command(c)
  PROVE  /\ TargStep
         /\ cmd' \in [Commands -> [op : Op, at : {"check", "set"}] \cup {Idle}]
         /\ UNCHANGED <<actual, prev, faultVars, daqVars, modelVars, link, stop, relay, healthy>>
  <1> USE OpsAssumption
  <1>1. CASE CmdStart(c)
    <2>1. PICK o \in Ops : cmd' = [cmd EXCEPT ![c] =
                    [op |-> o, at |-> IF o \in {"motorOn", "commOff"} THEN "check" ELSE "set"]]
      BY <1>1 DEF CmdStart
    <2>2. [op |-> o, at |-> IF o \in {"motorOn", "commOff"} THEN "check" ELSE "set"]
              \in [op : Op, at : {"check", "set"}]
      OBVIOUS
    <2>3. cmd' \in [Commands -> [op : Op, at : {"check", "set"}] \cup {Idle}]
      BY <2>1, <2>2 DEF TypeOK
    <2>4. QED
      BY <1>1, <2>3 DEF CmdStart, powerVars, TargStep
  <1>2. CASE CmdCheck(c)
    <2>1. cmd[c] \in [op : Op, at : {"check", "set"}]
      BY <1>2 DEF CmdCheck, TypeOK, Idle
    <2>2. [cmd[c] EXCEPT !.at = "set"] \in [op : Op, at : {"check", "set"}]
      BY <2>1
    <2>3. cmd' \in [Commands -> [op : Op, at : {"check", "set"}] \cup {Idle}]
      <3>1. cmd' = [cmd EXCEPT ![c] = Idle] \/ cmd' = [cmd EXCEPT ![c] = [cmd[c] EXCEPT !.at = "set"]]
        BY <1>2 DEF CmdCheck
      <3>2. QED
        BY <2>2, <3>1 DEF TypeOK
    <2>4. TargStep
      BY <1>2, SetPowerIs DEF CmdCheck, Sub, TargStep
    <2>5. QED
      BY <1>2, <2>3, <2>4 DEF CmdCheck
  <1>3. CASE CmdSet(c)
    <2>1. TargStep
      BY <1>3, SetPowerIs DEF CmdSet, Sub
    <2>2. QED
      BY <1>3, <2>1 DEF CmdSet, TypeOK
  <1>4. QED
    BY <1>1, <1>2, <1>3 DEF Command

(* A step that leaves the connection and the event thread where they are,   *)
(* grants no power without a connection and does not enter IDLE.            *)
Quiet ==
    /\ TypeOK' /\ OffSinceErased'
    /\ UNCHANGED <<commLost, link, actual, prev, pc, sub>>
    /\ current' = "IDLE" => current = "IDLE"

LEMMA QuietIInv == IInv /\ Quiet => IInv'
  BY LossesStayKnown DEF IInv, Quiet, CommFollowsLink

LEMMA StartIsQuiet == IInv /\ CtrlStart => Quiet
  <1> SUFFICES ASSUME IInv, CtrlStart PROVE Quiet
    OBVIOUS
  <1>1. current' \in {current, "STANDBY"} /\ UNCHANGED <<targ, modelMtx>>
    BY ChangeStateIs DEF IInv, TypeOK, CtrlStart, SafeStates
  <1>2. TypeOK'
    BY <1>1 DEF CtrlStart, IInv, TypeOK, States, faultVars, daqVars, clientVars
  <1>3. QED
    BY <1>1, <1>2, TargStepKeepsOff DEF IInv, CtrlStart, Quiet, TargStep, faultVars, daqVars, clientVars

(* The lock is released with both subsystems turned off. *)
LEMMA TurnOffCommIsQuiet == IInv /\ TurnOffComm => Quiet
  <1> SUFFICES ASSUME IInv, TurnOffComm PROVE Quiet
    OBVIOUS
  <1>1. targ' = [targ EXCEPT !["COMM"] = "OFF"] /\ modelMtx' = "none" /\ modelMtx # "report"
    BY DEF TurnOffComm
  <1>2. TypeOK'
    <2> USE DEF TurnOffComm, IInv, faultVars, daqVars, clientVars
    <2>1. ModelTypes' /\ PowerTypes'
      BY <1>1, TypeParts DEF ModelTypes, PowerTypes
    <2>2. FlagTypes' /\ ClientTypes'
      BY TypeParts DEF FlagTypes, ClientTypes
    <2>3. QED
      BY <2>1, <2>2, TypePartsNext
  <1>3. OffSinceErased'
    BY <1>1 DEF TurnOffComm, IInv, TypeOK, OffSinceErased, clientVars, Sub
  <1>4. QED
    BY <1>2, <1>3 DEF TurnOffComm, Quiet, faultVars, daqVars, clientVars

LEMMA PlantIsQuiet == IInv /\ (SimRun \/ HealthChanges) => Quiet
  <1> SUFFICES ASSUME IInv, SimRun \/ HealthChanges PROVE Quiet
    OBVIOUS
  <1> USE DEF powerVars, faultVars, daqVars, modelVars, clientVars
  <1>1. UNCHANGED <<powerVars, faultVars, daqVars, modelVars, clientVars>>
    BY DEF SimRun, HealthChanges
  <1>2. TypeOK'
    <2>1. ModelTypes' /\ PowerTypes' /\ ClientTypes'
      BY <1>1, TypeParts DEF IInv, ModelTypes, PowerTypes, ClientTypes
    <2>2. FlagTypes'
      BY <1>1, TypeParts DEF IInv, FlagTypes, SimRun, HealthChanges
    <2>3. QED
      BY <2>1, <2>2, TypePartsNext
  <1>3. QED
    BY <1>1, <1>2, TargStepKeepsOff DEF IInv, Quiet, TargStep

LEMMA CommandIsQuiet ==
  ASSUME IInv, NEW c \in Commands, CmdStart(c) \/ Command(c)
  PROVE  Quiet
  <1> USE DEF faultVars, daqVars, modelVars
  <1>1. /\ TargStep
        /\ cmd' \in [Commands -> [op : Op, at : {"check", "set"}] \cup {Idle}]
        /\ UNCHANGED <<actual, prev, faultVars, daqVars, modelVars, link, stop, relay, healthy>>
    BY CommandTargets DEF IInv
  <1>2. TypeOK'
    BY <1>1, TargStepType DEF IInv, TypeOK
  <1>3. QED
    BY <1>1, <1>2, TargStepKeepsOff DEF IInv, Quiet

LEMMA ShutdownIsQuiet == IInv /\ (ShutdownOffline \/ Shutdown) => Quiet
  <1> SUFFICES ASSUME IInv, ShutdownOffline \/ Shutdown PROVE Quiet
    OBVIOUS
  <1> USE DEF powerVars, faultVars, daqVars, modelVars
  <1>1. /\ UNCHANGED <<actual, prev, faultVars, daqVars, link, cmd, relay, healthy>>
        /\ stop' \in {"no", "offline", "off", "stopped"}
    BY DEF ShutdownOffline, Shutdown, ShutdownTurnOff, ShutdownStop
  <1>2. /\ current' \in {current, "OFFLINE"}
        /\ \/ UNCHANGED <<targ, modelMtx>>
           \/ ModelFree /\ modelMtx' = "stop" /\ targ' = [targ EXCEPT !["MOTOR"] = "OFF"]
    BY ChangeStateIs DEF ShutdownOffline, Shutdown, ShutdownTurnOff, ShutdownStop, TurnOffAll, IInv, TypeOK, SafeStates
  <1>3. TargStep /\ (UNCHANGED modelMtx \/ modelMtx # "net")
    BY <1>2 DEF TargStep, Sub, ModelFree
  <1>4. TypeOK'
    BY <1>1, <1>2, <1>3, TargStepType DEF IInv, TypeOK, States, ModelFree
  <1>5. QED
    BY <1>1, <1>2, <1>3, <1>4, TargStepKeepsOff, OtherHolderKeepsOff DEF IInv, Quiet

-----------------------------------------------------------------------------
(* The connection. *)
LEMMA AcceptIInv == IInv /\ Accept => IInv'
  <1> SUFFICES ASSUME IInv, Accept PROVE IInv'
    OBVIOUS
  <1> USE DEF powerVars, daqVars, modelVars
  <1>1. TypeOK'
    <2>1. ModelTypes' /\ PowerTypes'
      BY TypeParts DEF Accept, IInv, ModelTypes, PowerTypes
    <2>2. FlagTypes' /\ ClientTypes'
      BY TypeParts DEF Accept, IInv, FlagTypes, ClientTypes
    <2>3. QED
      BY <2>1, <2>2, TypePartsNext
  <1>2. CommFollowsLink' /\ OffSinceErased'
    BY DEF Accept, CommFollowsLink, OffSinceErased
  <1>3. QED
    BY <1>1, <1>2, LossesStayKnown DEF IInv, Accept

LEMMA OpenCloseIInv == IInv /\ (Open \/ Close) => IInv'
  <1> SUFFICES ASSUME IInv, Open \/ Close PROVE IInv'
    OBVIOUS
  <1> USE DEF faultVars, daqVars, modelVars
  <1>1. /\ UNCHANGED <<actual, prev, faultVars, daqVars, cmd, stop, relay, healthy>>
        /\ link \in {"accepted", "open"} /\ link' \in {"open", "closing"}
    BY DEF Open, Close
  <1>2. /\ current' \in {current, "STANDBY", "OFFLINE"}
        /\ \/ UNCHANGED <<targ, modelMtx>>
           \/ ModelFree /\ modelMtx' = "net" /\ targ' = [targ EXCEPT !["MOTOR"] = "OFF"]
    BY ChangeStateIs DEF Open, Close, IInv, TypeOK, SafeStates
  <1>3. TargStep
    BY <1>2 DEF TargStep, Sub
  <1>4. TypeOK'
    BY <1>1, <1>2, <1>3, TargStepType DEF IInv, TypeOK, States, ModelFree
  <1>5. CommFollowsLink' /\ OffSinceErased'
    BY <1>1 DEF IInv, CommFollowsLink, OffSinceErased
  <1>6. QED
    BY <1>1, <1>2, <1>4, <1>5, LossesStayKnown DEF IInv

(* Safe mode takes Model::_mtx as the last connection goes. *)
LEMMA ClosingIInv == IInv /\ Closing => IInv'
  <1> SUFFICES ASSUME IInv, Closing PROVE IInv'
    OBVIOUS
  <1> USE DEF powerVars, faultVars, daqVars, modelVars
  <1>1. CASE Erase
    <2>1. TypeOK' /\ CommFollowsLink' /\ OffSinceErased'
      BY <1>1 DEF Erase, IInv, TypeOK, CommFollowsLink, OffSinceErased
    <2>2. QED
      BY <1>1, <2>1, LossesStayKnown DEF IInv, Erase
  <1>2. CASE Erased
    <2>1. /\ current' \in {current, "STANDBY"} /\ ModelFree /\ modelMtx' = "net"
          /\ targ' = [targ EXCEPT !["MOTOR"] = "OFF"]
      BY <1>2, SafeModeIs DEF Erased, IInv, TypeOK
    <2>2. TypeOK' /\ CommFollowsLink' /\ OffSinceErased'
      BY <1>2, <2>1 DEF Erased, IInv, TypeOK, CommFollowsLink, OffSinceErased, States, ModelFree, Sub
    <2>3. QED
      BY <1>2, <2>1, <2>2, LossesStayKnown DEF IInv, Erased
  <1>3. QED
    BY <1>1, <1>2 DEF Closing

-----------------------------------------------------------------------------
(* The event thread. *)
LEMMA UpdateIs ==
  ASSUME TypeOK, UpdatePowerFaults
  PROVE  /\ TargStep /\ prevHealth' = unhealthy
         /\ current' \in {current, "STANDBY"} /\ (current = "OFFLINE" => current' = "OFFLINE")
         /\ \/ UNCHANGED modelMtx
            \/ modelMtx = "none" /\ modelMtx' = "daq"
  BY SafeModeIs DEF TypeOK, UpdatePowerFaults, TargStep, Sub, ModelFree, modelVars

(* Each step moves the targets as any thread may, and takes Model::_mtx     *)
(* only when it is free.                                                    *)
LEMMA DaqTargets ==
  ASSUME TypeOK, Daq \/ DaqTimeout
  PROVE  /\ TargStep /\ UNCHANGED <<commLost, link, cmd, stop, relay, healthy>>
         /\ UNCHANGED modelMtx \/ modelMtx # "net"
  <1> USE DEF faultVars, daqVars, modelVars, clientVars, powerVars
  <1>0. "MOTOR" \in Sub /\ "COMM" \in Sub /\ sub \in Sub
    BY DEF TypeOK, Sub
  <1>1. CASE DaqRead
    BY <1>1 DEF DaqRead, TargStep
  <1>2. CASE DaqHealth
    BY <1>2, UpdateIs DEF DaqHealth
  <1>3. CASE DaqBits
    BY <1>0, <1>3, SetPowerIs DEF DaqBits, TargStep
  <1>4. CASE DaqCheck
    BY <1>0, <1>4, SetPowerIs DEF DaqCheck, TargStep
  <1>5. CASE DaqReport
    BY <1>5 DEF DaqReport, TargStep, LockToReport, ModelFree
  <1>6. CASE DaqAct
    <2>1. modelMtx = "report"
      BY <1>6 DEF DaqAct, TypeOK
    <2>2. QED
      BY <1>0, <1>6, <2>1 DEF DaqAct, TurnOffAll, TargStep
  <1>7. CASE DaqPrev
    BY <1>7 DEF DaqPrev, TargStep
  <1>8. CASE DaqProcess
    BY <1>0, <1>8, SetPowerIs DEF DaqProcess, TargStep
  <1>9. CASE DaqUpdate
    BY <1>9, UpdateIs DEF DaqUpdate
  <1>10. CASE DaqTimeout \/ DaqTimeoutComm
    BY <1>0, <1>10, SetPowerIs DEF DaqTimeout, DaqTimeoutComm
  <1>11. QED
    BY <1>1, <1>2, <1>3, <1>4, <1>5, <1>6, <1>7, <1>8, <1>9, <1>10 DEF Daq

(* What one reading does to the actual states and to what is remembered. *)
LEMMA ProcessIs ==
  ASSUME TypeOK, DaqProcess
  PROVE  /\ UNCHANGED prev
         /\ \E a \in Power : /\ actual' = [actual EXCEPT ![sub] = a]
                             /\ actual[sub] = "ON" => a \in {"ON", "OFF"}
  <1>1. sub \in Sub /\ actual \in [Sub -> Power]
    BY DEF TypeOK
  <1>2. \A a \in Climb(sub) : a \in Power /\ (actual[sub] = "ON" => a = "ON")
    BY DEF Climb, Power
  <1>3. CASE targ[sub] = "ON" /\ \E a \in Climb(sub) : actual' = [actual EXCEPT ![sub] = a]
    BY <1>2, <1>3 DEF DaqProcess, SetPowerOff, TurnedOff
  <1>4. CASE UNCHANGED actual
    <2>1. actual' = [actual EXCEPT ![sub] = actual[sub]] /\ actual[sub] \in Power
      BY <1>1, <1>4
    <2>2. QED
      BY <2>1 DEF DaqProcess, TurnedOff
  <1>5. CASE TurnedOff(sub)
    BY <1>5 DEF TurnedOff, Power
  <1>6. QED
    BY <1>3, <1>4, <1>5 DEF DaqProcess

LEMMA DaqTypes ==
  ASSUME TypeOK, Daq \/ DaqTimeout
  PROVE  TypeOK'
  <1> USE DEF faultVars, daqVars, modelVars, clientVars, powerVars
  <1>1. /\ UNCHANGED <<commLost, link, cmd, stop, relay, healthy>>
        /\ targ' \in [Sub -> {"ON", "OFF"}]
    BY DaqTargets, TargStepType DEF TypeOK
  <1>2. ModelTypes /\ PowerTypes /\ FlagTypes /\ ClientTypes
    BY TypeParts
  <1>3. ClientTypes'
    BY <1>1, <1>2 DEF ClientTypes
  <1>4. ModelTypes'
    <2> USE <1>2 DEF ModelTypes
    <2>1. CASE DaqRead
      BY <2>1 DEF DaqRead, Goto
    <2>2. CASE DaqHealth \/ DaqUpdate
      BY <2>2, UpdateIs DEF DaqHealth, DaqUpdate, Goto, States
    <2>3. CASE DaqBits \/ DaqCheck
      BY <2>3 DEF DaqBits, DaqCheck, Goto
    <2>4. CASE DaqReport
      BY <2>4 DEF DaqReport, Goto, LockToReport
    <2>5. CASE DaqAct
      <3>1. current' \in {current, "STANDBY", "IDLE"}
        <4>1. \A to \in {"STANDBY", "IDLE"} : NextState(current, to, TRUE) \in {current, to}
          BY NextStateIs DEF States
        <4>2. QED
          BY <2>5, <4>1 DEF DaqAct
      <3>2. modelMtx' \in {"none", "daq"} /\ pc' = "prev"
        BY <2>5 DEF DaqAct, Goto, TurnOffAll
      <3>3. QED
        BY <3>1, <3>2 DEF States
    <2>6. CASE DaqPrev \/ DaqProcess
      BY <2>6 DEF DaqPrev, DaqProcess, Goto
    <2>7. CASE DaqTimeout \/ DaqTimeoutComm
      BY <2>7 DEF DaqTimeout, DaqTimeoutComm, Goto
    <2>8. QED
      BY <2>1, <2>2, <2>3, <2>4, <2>5, <2>6, <2>7 DEF Daq
  <1>5. PowerTypes'
    <2> USE <1>1, <1>2 DEF PowerTypes
    <2>1. CASE DaqRead \/ DaqHealth \/ DaqBits \/ DaqCheck \/ DaqTimeout \/ DaqTimeoutComm
      BY <2>1 DEF DaqRead, DaqHealth, DaqBits, DaqCheck, DaqTimeout, DaqTimeoutComm, Goto
    <2>2. CASE DaqReport
      BY <2>2 DEF DaqReport, Goto, Sub
    <2>3. CASE DaqAct
      BY <2>3 DEF DaqAct, Goto
    <2>4. CASE DaqPrev
      <3>1. PowerOf(sub) \in [targ : {"ON", "OFF", "UNKNOWN"}, actual : Power]
        BY DEF PowerOf
      <3>2. QED
        BY <2>4, <3>1 DEF DaqPrev, Goto
    <2>5. CASE DaqProcess
      <3>1. actual' \in [Sub -> Power] /\ UNCHANGED prev
        BY <2>5, ProcessIs
      <3>2. sub' \in Sub /\ UNCHANGED comTarg
        BY <2>5 DEF DaqProcess, Goto, Sub
      <3>3. QED
        BY <3>1, <3>2
    <2>6. CASE DaqUpdate
      BY <2>6 DEF DaqUpdate, Sub
    <2>7. QED
      BY <2>1, <2>2, <2>3, <2>4, <2>5, <2>6 DEF Daq
  <1>6. FlagTypes'
    <2> USE <1>1, <1>2 DEF FlagTypes
    <2>1. CASE DaqRead
      <3>1. MotorAlone \in BOOLEAN /\ (~healthy) \in BOOLEAN
        BY DEF MotorAlone
      <3>2. motorAlone' = MotorAlone /\ unhealthy' = (~healthy) /\ UNCHANGED prevHealth
        BY <2>1 DEF DaqRead
      <3>3. QED
        BY <3>1, <3>2
    <2>2. CASE DaqHealth \/ DaqUpdate
      BY <2>2, UpdateIs DEF DaqHealth, DaqUpdate
    <2>3. CASE DaqBits \/ DaqCheck \/ DaqReport \/ DaqAct \/ DaqPrev \/ DaqProcess
      BY <2>3 DEF DaqBits, DaqCheck, DaqReport, DaqAct, DaqPrev, DaqProcess
    <2>4. CASE DaqTimeout \/ DaqTimeoutComm
      BY <2>4 DEF DaqTimeout, DaqTimeoutComm
    <2>5. QED
      BY <2>1, <2>2, <2>3, <2>4 DEF Daq
  <1>7. QED
    BY <1>3, <1>4, <1>5, <1>6, TypePartsNext

(* In IDLE, a loss that _processDaq finds is not remembered before it is     *)
(* compared, at the next reading, with what was reported.                   *)
LEMMA DaqLosses ==
  ASSUME IInv, Daq \/ DaqTimeout
  PROVE  IdleKnowsLosses'
  <1> USE DEF faultVars, daqVars, modelVars, clientVars, powerVars
  <1>1. /\ sub \in Sub /\ actual \in [Sub -> Power] /\ current \in States
        /\ prev \in [Sub -> [targ : {"ON", "OFF", "UNKNOWN"}, actual : Power]]
    BY DEF IInv, TypeOK
  <1>2. IdleKnowsLosses
    BY DEF IInv
  <1>3. ASSUME UNCHANGED <<actual, prev>>, current' = "IDLE" => current = "IDLE",
               pc' \notin {"prev", "process"}
        PROVE  IdleKnowsLosses'
    BY <1>2, <1>3 DEF IdleKnowsLosses, PassedIsOn, Unreported
  <1>4. CASE DaqRead \/ DaqBits \/ DaqReport \/ DaqTimeout \/ DaqTimeoutComm
    BY <1>3, <1>4 DEF DaqRead, DaqBits, DaqReport, DaqTimeout, DaqTimeoutComm, Goto
  <1>5. CASE DaqHealth \/ DaqUpdate
    <2>1. current' = "IDLE" => current = "IDLE"
      BY <1>5, UpdateIs DEF DaqHealth, DaqUpdate, IInv
    <2>2. QED
      BY <1>3, <1>5, <2>1 DEF DaqHealth, DaqUpdate, Goto
  <1>6. CASE DaqCheck
    <2>1. /\ UNCHANGED <<actual, prev, current, sub>> /\ pc' \in {"prev", "report"}
          /\ pc' = "prev" => prev[sub].actual = actual[sub]
      BY <1>6 DEF DaqCheck, Goto
    <2>2. current = "IDLE" /\ pc' = "prev" => actual[sub] = "ON"
      BY <1>1, <1>2, <2>1 DEF IdleKnowsLosses, Unreported
    <2>3. QED
      BY <1>2, <2>1, <2>2 DEF IdleKnowsLosses, PassedIsOn, Unreported
  <1>7. CASE DaqAct
    <2>1. UNCHANGED <<actual, prev, sub>> /\ pc' = "prev"
      BY <1>7 DEF DaqAct, Goto
    <2>2. current' = "IDLE" => AllOn
      <3>1. current \in PowerStates /\ ~AllOn => current' = "STANDBY"
        BY <1>7 DEF DaqAct, NextState, Acceptable, SafeStates, PowerStates
      <3>2. QED
        BY <1>7, <3>1 DEF DaqAct, PowerStates
    <2>3. AllOn => \A s \in Sub : actual[s] = "ON"
      BY DEF AllOn
    <2>4. QED
      BY <1>1, <2>1, <2>2, <2>3 DEF IdleKnowsLosses, PassedIsOn, Unreported
  <1>8. CASE DaqPrev
    <2>1. /\ UNCHANGED <<actual, current, sub>> /\ pc = "prev" /\ pc' = "process"
          /\ prev' = [prev EXCEPT ![sub] = PowerOf(sub)]
      BY <1>8 DEF DaqPrev, Goto
    <2>2. current = "IDLE" => actual[sub] = "ON" /\ \A s \in Sub : Unreported(s)
      BY <1>2, <2>1 DEF IdleKnowsLosses, PassedIsOn
    <2>3. prev'[sub].actual = actual[sub] /\ \A s \in Sub : s # sub => prev'[s] = prev[s]
      BY <1>1, <2>1 DEF PowerOf
    <2>4. QED
      BY <2>1, <2>2, <2>3 DEF IdleKnowsLosses, PassedIsOn, Unreported
  <1>9. CASE DaqProcess
    <2>1. /\ UNCHANGED <<current, prev>> /\ pc = "process" /\ pc' \in {"check", "update"}
      BY <1>9, ProcessIs DEF DaqProcess, Goto, IInv
    <2>2. PICK a \in Power : /\ actual' = [actual EXCEPT ![sub] = a]
                             /\ actual[sub] = "ON" => a \in {"ON", "OFF"}
      BY <1>9, ProcessIs DEF IInv
    <2>3. current = "IDLE" => prev[sub].actual = "ON" /\ \A s \in Sub : Unreported(s)
      BY <1>2, <2>1 DEF IdleKnowsLosses, PassedIsOn
    <2>4. QED
      BY <1>1, <2>1, <2>2, <2>3 DEF IdleKnowsLosses, PassedIsOn, Unreported
  <1>10. QED
    BY <1>4, <1>5, <1>6, <1>7, <1>8, <1>9 DEF Daq

LEMMA DaqIInv == IInv /\ (Daq \/ DaqTimeout) => IInv'
  <1> SUFFICES ASSUME IInv, Daq \/ DaqTimeout PROVE IInv'
    OBVIOUS
  <1>1. /\ TargStep /\ UNCHANGED <<commLost, link>>
        /\ UNCHANGED modelMtx \/ modelMtx # "net"
    BY DaqTargets DEF IInv
  <1>2. OffSinceErased' /\ CommFollowsLink'
    BY <1>1, TargStepKeepsOff, OtherHolderKeepsOff DEF IInv, CommFollowsLink
  <1>3. QED
    BY <1>2, DaqTypes, DaqLosses DEF IInv

-----------------------------------------------------------------------------
LEMMA StutterIInv == IInv /\ UNCHANGED vars => IInv'
  <1> SUFFICES ASSUME IInv, UNCHANGED vars PROVE IInv'
    OBVIOUS
  <1> USE DEF vars, faultVars, daqVars, modelVars, clientVars, powerVars
  <1>1. ModelTypes' /\ PowerTypes' /\ ClientTypes'
    BY TypeParts DEF IInv, ModelTypes, PowerTypes, ClientTypes
  <1>2. FlagTypes'
    BY TypeParts DEF IInv, FlagTypes
  <1>3. CommFollowsLink' /\ OffSinceErased'
    BY DEF IInv, CommFollowsLink, OffSinceErased
  <1>4. QED
    BY <1>1, <1>2, <1>3, TypePartsNext, LossesStayKnown DEF IInv

LEMMA NextIInv == IInv /\ [Next]_vars => IInv'
  <1> SUFFICES ASSUME IInv, [Next]_vars PROVE IInv'
    OBVIOUS
  <1>1. CASE CtrlStart \/ TurnOffComm \/ SimRun \/ HealthChanges
    BY <1>1, StartIsQuiet, TurnOffCommIsQuiet, PlantIsQuiet, QuietIInv
  <1>2. ASSUME NEW c \in Commands, CmdStart(c) \/ Command(c) PROVE IInv'
    BY <1>2, CommandIsQuiet, QuietIInv
  <1>3. CASE ShutdownOffline \/ Shutdown
    BY <1>3, ShutdownIsQuiet, QuietIInv
  <1>4. CASE Accept \/ Open \/ Close \/ Closing
    BY <1>4, AcceptIInv, OpenCloseIInv, ClosingIInv
  <1>5. CASE Daq \/ DaqTimeout
    BY <1>5, DaqIInv
  <1>6. CASE UNCHANGED vars
    BY <1>6, StutterIInv
  <1>7. QED
    BY <1>1, <1>2, <1>3, <1>4, <1>5, <1>6 DEF Next

-----------------------------------------------------------------------------
(* The inductive invariant holds for any commands and command threads. *)
THEOREM Invariance == Spec => []IInv
  BY InitIInv, NextIInv, PTL DEF Spec

(* The state keeps its types; the reporting thread alone has Model::_mtx    *)
(* while it reads the two targets.                                          *)
THEOREM TypeCorrect == Spec => []TypeOK
  <1>1. IInv => TypeOK
    BY DEF IInv
  <1>2. QED
    BY <1>1, Invariance, PTL

(* eraseConnection and setTcpIpConnected: once the last connection is       *)
(* erased and safe mode entered, neither a command that still runs nor the  *)
(* event thread has or gets a subsystem powered.                            *)
THEOREM NothingPoweredAlone == Spec => []NoPowerWithoutClient
  <1>1. IInv => NoPowerWithoutClient
    BY DEF IInv, OffSinceErased, NoPowerWithoutClient, Sub
  <1>2. QED
    BY <1>1, Invariance, PTL

(* processDaq: a loss of power in IDLE is reported by the next reading. *)
THEOREM LossesAreReported == Spec => []LossIsReported
  <1>1. IInv => LossIsReported
    BY DEF IInv, IdleKnowsLosses, Unreported, LossIsReported
  <1>2. QED
    BY <1>1, Invariance, PTL

-----------------------------------------------------------------------------
(* A step that leaves OFFLINE is the one by which a connection begins. *)
LEMMA OnlyOpenLeavesOffline ==
  ASSUME TypeOK, Next, current = "OFFLINE", current' # current
  PROVE  current' = "STANDBY" /\ link = "accepted" /\ link' = "open"
  <1> USE DEF modelVars
  <1>1. current \in States
    BY DEF TypeOK
  <1>2. ~CtrlStart
    BY DEF CtrlStart
  <1>3. ~(TurnOffComm \/ SimRun \/ HealthChanges)
    BY DEF TurnOffComm, SimRun, HealthChanges
  <1>4. ~(\E c \in Commands : CmdStart(c) \/ Command(c))
    BY DEF CmdStart, Command, CmdCheck, CmdSet
  <1>5. ~(ShutdownOffline \/ Close)
    BY <1>1, ChangeStateIs DEF ShutdownOffline, Close, SafeStates
  <1>6. ~(Shutdown \/ Accept \/ Erase)
    BY DEF Shutdown, ShutdownTurnOff, ShutdownStop, Accept, Erase
  <1>7. ~Erased
    BY <1>1, SafeModeIs DEF Erased
  <1>8. ~(DaqHealth \/ DaqUpdate)
    BY UpdateIs DEF DaqHealth, DaqUpdate
  <1>9. ~DaqAct
    BY DEF DaqAct, PowerStates
  <1>10. ~(DaqRead \/ DaqBits \/ DaqCheck \/ DaqReport \/ DaqPrev \/ DaqProcess)
    BY DEF DaqRead, DaqBits, DaqCheck, DaqReport, DaqPrev, DaqProcess
  <1>11. ~(DaqTimeout \/ DaqTimeoutComm)
    BY DEF DaqTimeout, DaqTimeoutComm
  <1>12. Open
    BY <1>2, <1>3, <1>4, <1>5, <1>6, <1>7, <1>8, <1>9, <1>10, <1>11 DEF Next, Daq, Closing
  <1>13. QED
    BY <1>1, <1>12, ChangeStateIs DEF Open, SafeStates

(* changeState and goToSafeMode: OFFLINE is left only for STANDBY, and only *)
(* by a client that connects.                                              *)
THEOREM OfflineIsKept == Spec => OfflineLeftByClient
  <1>1. TypeOK /\ [Next]_vars =>
            [current = "OFFLINE" /\ current' # current =>
                 current' = "STANDBY" /\ link = "accepted" /\ link' = "open"]_vars
    BY OnlyOpenLeavesOffline
  <1>2. QED
    BY <1>1, TypeCorrect, PTL DEF Spec, OfflineLeftByClient

-----------------------------------------------------------------------------
(* What PowerPromise allows subsystem s. *)
Allowed(s) ==
    \/ targ'[s] \in {"ON", "OFF"} /\ actual'[s] = actual[s]
    \/ targ[s] = "ON" /\ targ'[s] = "ON" /\
       <<actual[s], actual'[s]>> \in {<<"OFF", "TURNING_ON">>, <<"TURNING_ON", "TURNING_ON">>,
                                     <<"TURNING_ON", "ON">>, <<"ON", "ON">>}
    \/ targ[s] = "OFF" /\ targ'[s] = "OFF" /\ actual'[s] \in {actual[s], "OFF"}

(* Only _processDaq moves the actual state, and of its subsystem alone. *)
LEMMA OthersLeaveActual ==
  ASSUME [Next]_vars, ~DaqProcess
  PROVE  UNCHANGED actual
  <1> USE DEF powerVars
  <1>1. CASE CtrlStart \/ TurnOffComm \/ SimRun \/ HealthChanges
    BY <1>1 DEF CtrlStart, TurnOffComm, SimRun, HealthChanges
  <1>2. CASE \E c \in Commands : CmdStart(c) \/ Command(c)
    BY <1>2 DEF CmdStart, Command, CmdCheck, CmdSet
  <1>3. CASE Accept \/ Open \/ Close \/ Closing \/ ShutdownOffline \/ Shutdown
    BY <1>3 DEF Accept, Open, Close, Closing, Erase, Erased, ShutdownOffline, Shutdown,
       ShutdownTurnOff, ShutdownStop
  <1>4. CASE Daq \/ DaqTimeout
    BY <1>4 DEF Daq, DaqTimeout, DaqRead, DaqHealth, DaqBits, DaqCheck, DaqReport, DaqAct, DaqPrev,
       DaqUpdate, DaqTimeoutComm
  <1>5. CASE UNCHANGED vars
    BY <1>5 DEF vars
  <1>6. QED
    BY <1>1, <1>2, <1>3, <1>4, <1>5 DEF Next

LEMMA ProcessIsAllowed ==
  ASSUME TypeOK, TypeOK', DaqProcess, NEW s \in Sub
  PROVE  Allowed(s)
  <1>1. /\ sub \in Sub /\ actual \in [Sub -> Power] /\ targ \in [Sub -> {"ON", "OFF"}]
        /\ targ' \in [Sub -> {"ON", "OFF"}]
    BY DEF TypeOK
  <1>2. CASE s # sub \/ UNCHANGED actual
    BY <1>1, <1>2, ProcessIs DEF Allowed
  <1>3. CASE s = sub /\ targ[s] = "ON" /\ UNCHANGED targ /\ \E a \in Climb(s) : actual' = [actual EXCEPT ![s] = a]
    <2>1. PICK a \in Climb(s) : actual' = [actual EXCEPT ![s] = a]
      BY <1>3
    <2>2. <<actual[s], a>> \in {<<"OFF", "TURNING_ON">>, <<"TURNING_ON", "TURNING_ON">>,
                               <<"TURNING_ON", "ON">>, <<"ON", "ON">>}
      BY DEF Climb
    <2>3. QED
      BY <1>1, <1>3, <2>1, <2>2 DEF Allowed
  <1>4. CASE s = sub /\ targ[s] = "OFF" /\ TurnedOff(s) /\ UNCHANGED targ
    BY <1>1, <1>4 DEF TurnedOff, Allowed
  <1>5. QED
    BY <1>2, <1>3, <1>4 DEF DaqProcess

LEMMA StepIsAllowed ==
  ASSUME TypeOK, TypeOK', [Next]_vars, NEW s \in Sub
  PROVE  Allowed(s)
  <1>1. CASE DaqProcess
    BY <1>1, ProcessIsAllowed
  <1>2. CASE ~DaqProcess
    BY <1>2, OthersLeaveActual DEF Allowed, TypeOK
  <1>3. QED
    BY <1>1, <1>2

(* Each subsystem, as the other threads see it, does what PowerPromise, and *)
(* thereby PowerSubsystem with all its phases, allows.                      *)
THEOREM SubsystemsImplementPromise == Spec => SubsystemsKeepPromise
  <1>1. Init => Motor!Init /\ Comm!Init
    BY DEF Init, Sub, Motor!Init, Comm!Init
  <1>2. TypeOK /\ TypeOK' /\ [Next]_vars => [Motor!Next]_(Motor!vars)
    <2> SUFFICES ASSUME TypeOK, TypeOK', [Next]_vars PROVE [Motor!Next]_(Motor!vars)
      OBVIOUS
    <2>1. Allowed("MOTOR")
      BY StepIsAllowed DEF Sub
    <2>2. QED
      BY <2>1 DEF Allowed, Motor!Next, Motor!SetOn, Motor!FollowOn, Motor!FollowOff, Motor!Climb, Motor!Target
  <1>3. TypeOK /\ TypeOK' /\ [Next]_vars => [Comm!Next]_(Comm!vars)
    <2> SUFFICES ASSUME TypeOK, TypeOK', [Next]_vars PROVE [Comm!Next]_(Comm!vars)
      OBVIOUS
    <2>1. Allowed("COMM")
      BY StepIsAllowed DEF Sub
    <2>2. QED
      BY <2>1 DEF Allowed, Comm!Next, Comm!SetOn, Comm!FollowOn, Comm!FollowOff, Comm!Climb, Comm!Target
  <1>4. QED
    BY <1>1, <1>2, <1>3, TypeCorrect, PTL DEF Spec, SubsystemsKeepPromise, Motor!Spec, Comm!Spec
=============================================================================
