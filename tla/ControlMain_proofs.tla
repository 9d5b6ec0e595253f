---------------------------- MODULE ControlMain_proofs ----------------------------
(***************************************************************************)
(* What holds of ControlMain for any finite number of connections, however *)
(* long main waits for the server and however many checks may be waiting   *)
(* for MotionEngine.                                                       *)
(*                                                                         *)
(* The invariant of ComServer's connections is one of the whole program,    *)
(* whose other threads change of what it is about only the Model and the   *)
(* power.  That a client who is counted keeps the Model from OFFLINE is    *)
(* so until cmd_systemShutdown goes there itself.                          *)
(***************************************************************************)
EXTENDS ControlMain, ComServer_proofs

MainTypes ==
    /\ main \in [at : {"setup", "start", "telemetry", "create", "wait", "serve", "ctrlStop", "ctrlJoin", "join",
                       "done", "failed"}, polls : 0..(MaxPolls - 1)]
    /\ server \in {"none", "created", "accepting", "running", "stopped", "done"}
    /\ stopper \in {"none", "offline", "turnOff", "sleep", "stopLoop", "engineStop", "stop", "stopping"}
    /\ fpga \in [loop : BOOLEAN, port : BOOLEAN]
Engine ==
    [started : BOOLEAN, stopCalled : BOOLEAN, loop : BOOLEAN, queue : Seq({"check", "end"}),
     thread : {"none", "run", "ended"}, timeout : {"none", "test", "queue", "ended"}]

(* A check is queued while there is room, and the end once. *)
Room(e) == Len(e.queue) <= MaxChecks + (IF e.stopCalled THEN 1 ELSE 0)
EngineTypes == engine \in Engine /\ Room(engine)

(* MotionEngine is started before the server is waited for, and joined      *)
(* before the server's thread is.                                          *)
StartedThenJoined ==
    /\ main.at \notin {"setup", "start"} => engine.started
    /\ main.at \in {"join", "done"} => engine.thread = "ended" /\ engine.timeout = "ended"
    /\ main.at = "done" => server = "done"

(* Before the server is created there is nothing to the connections. *)
Quiet ==
    /\ \A c \in Conns : refs[c] = {} /\ closing[c].at = "done"
    /\ accept.at = "listen" /\ bcast.at = "idle" /\ stopping.at = "no"
    /\ stopper = "none" /\ ~powered /\ granted = {} /\ count = 0
QuietBefore ==
    /\ main.at \in {"setup", "start", "telemetry", "create"} => server = "none"
    /\ server = "none" => Quiet

(* The server is stopped by cmd_systemShutdown only, whose thread has gone  *)
(* to OFFLINE first, which only a client that begins can leave again.      *)
StoppedByCommand ==
    /\ stopping.at # "no" => stopper = "stopping"
    /\ server \in {"stopped", "done"} => stopping.at = "destroyed"
OfflineFirst == stopper \notin {"none", "offline"} => count > 0 \/ current = "OFFLINE"
OnlineUntilShutdown == stopper \in {"none", "offline"} => Online

(* ComServer::shutdown finds every connection that is open, and ends with   *)
(* none left; its list is of those that were there when it began.          *)
OpenIsRegistered == \A c \in Conns : shut[c] \/ c \in connections
StopShuts ==
    /\ stopping.at \in {"next", "close", "destroyed"} => \A c \in Conns : shut[c] \/ c \in stopping.left
    /\ stopping.at = "destroyed" => stopping.left = {}

(* When the server has stopped nothing goes on with its connections, but    *)
(* for what a broadcast destroys.                                          *)
StoppedIsIdle == server \in {"stopped", "done"} => IoIdle

MainIInv ==
    /\ IInv /\ MainTypes /\ EngineTypes /\ StartedThenJoined
    /\ QuietBefore /\ StoppedByCommand /\ OfflineFirst /\ OnlineUntilShutdown
    /\ OpenIsRegistered /\ StopShuts /\ StoppedIsIdle

-----------------------------------------------------------------------------
(* MotionEngine: what each call and each step of a thread makes of it. *)
LEMMA EngineStartIs ==
  ASSUME NEW e \in Engine, Room(e)
  PROVE  EngineStart(e) \in Engine /\ Room(EngineStart(e)) /\ EngineStart(e).started
  <1>1. /\ EngineStart(e) \in Engine /\ EngineStart(e).started
        /\ EngineStart(e).queue = e.queue /\ EngineStart(e).stopCalled = e.stopCalled
    BY DEF EngineStart, Engine
  <1>2. QED
    BY <1>1 DEF Room

LEMMA EngineStopIs ==
  ASSUME NEW e \in Engine, Room(e)
  PROVE  /\ EngineStop(e) \in Engine /\ Room(EngineStop(e))
         /\ EngineStop(e).started = e.started /\ EngineStop(e).thread = e.thread
         /\ EngineStop(e).timeout = e.timeout
  <1> USE MainAssumption
  <1>1. CASE e.stopCalled
    BY <1>1 DEF EngineStop
  <1>2. CASE ~e.stopCalled
    <2>1. EngineStop(e) = [started |-> e.started, stopCalled |-> TRUE, loop |-> FALSE,
                           queue |-> Append(e.queue, "end"), thread |-> e.thread, timeout |-> e.timeout]
      BY <1>2 DEF EngineStop, Engine
    <2>2. Append(e.queue, "end") \in Seq({"check", "end"}) /\ Len(Append(e.queue, "end")) = Len(e.queue) + 1
          /\ Len(e.queue) \in Nat
      BY DEF Engine
    <2>3. QED
      BY <1>2, <2>1, <2>2 DEF Engine, Room
  <1>3. QED
    BY <1>1, <1>2

LEMMA EnginePartIs ==
  ASSUME EngineTypes, EnginePart
  PROVE  /\ EngineTypes' /\ engine'.started = engine.started
         /\ engine.thread = "ended" => engine'.thread = "ended"
         /\ engine.timeout = "ended" => engine'.timeout = "ended"
  <1> USE MainAssumption
  <1> DEFINE e == engine
  <1>a. e \in Engine /\ Room(e) /\ e.queue \in Seq({"check", "end"}) /\ Len(e.queue) \in Nat
    BY DEF EngineTypes, Engine
  <1>1. ASSUME engine.timeout = "test",
               engine' = [engine EXCEPT !.timeout = IF engine.loop THEN "queue" ELSE "ended"]
        PROVE  EngineTypes' /\ engine'.started = e.started /\ engine'.thread = e.thread
    BY <1>a, <1>1 DEF EngineTypes, Engine, Room
  <1>2. ASSUME engine.timeout = "queue",
               engine' = [engine EXCEPT !.timeout = "test",
                    !.queue = IF Len(@) < MaxChecks THEN Append(@, "check") ELSE @]
        PROVE  EngineTypes' /\ engine'.started = e.started /\ engine'.thread = e.thread
    <2> DEFINE q == IF Len(e.queue) < MaxChecks THEN Append(e.queue, "check") ELSE e.queue
    <2>1. engine' = [started |-> e.started, stopCalled |-> e.stopCalled, loop |-> e.loop,
                     queue |-> q, thread |-> e.thread, timeout |-> "test"]
      BY <1>a, <1>2 DEF Engine
    <2>2. q \in Seq({"check", "end"}) /\ Len(q) <= MaxChecks + (IF e.stopCalled THEN 1 ELSE 0)
      BY <1>a DEF Room
    <2> HIDE DEF q
    <2>3. QED
      BY <1>a, <2>1, <2>2 DEF EngineTypes, Engine, Room
  <1>3. ASSUME EventThread
        PROVE  EngineTypes' /\ engine'.started = e.started /\ engine'.timeout = e.timeout /\ engine.thread = "run"
    <2> DEFINE t == IF Head(e.queue) = "end" THEN "ended" ELSE e.thread
    <2>1. engine' = [started |-> e.started, stopCalled |-> e.stopCalled, loop |-> e.loop,
                     queue |-> Tail(e.queue), thread |-> t, timeout |-> e.timeout]
      BY <1>a, <1>3 DEF EventThread, Engine
    <2>2. Tail(e.queue) \in Seq({"check", "end"}) /\ Len(Tail(e.queue)) <= Len(e.queue)
          /\ Len(Tail(e.queue)) \in Nat
      BY <1>a, <1>3 DEF EventThread
    <2>3. t \in {"none", "run", "ended"}
      BY <1>a DEF Engine
    <2> HIDE DEF t
    <2>4. engine' \in Engine
      BY <1>a, <2>1, <2>2, <2>3 DEF Engine
    <2>5. Room(engine')
      BY <1>a, <2>1, <2>2 DEF Room
    <2>6. QED
      BY <1>3, <2>1, <2>4, <2>5 DEF EngineTypes, EventThread
  <1>4. QED
    BY <1>1, <1>2, <1>3 DEF EnginePart, TimeoutThread

-----------------------------------------------------------------------------
LEMMA MainInitIInv == MainInit => MainIInv
  <1> SUFFICES ASSUME MainInit PROVE MainIInv
    OBVIOUS
  <1> USE MainAssumption DEF MainInit
  <1>1. IInv
    BY ServerInitIInv
  <1>2. MainTypes /\ EngineTypes
    BY DEF MainTypes, EngineTypes, Engine, Room, NewEngine
  <1>3. StartedThenJoined /\ QuietBefore /\ StoppedByCommand /\ OfflineFirst /\ OnlineUntilShutdown
    BY DEF ServerInit, NoAccept, NoBroadcast, StartedThenJoined, QuietBefore, Quiet, StoppedByCommand,
       OfflineFirst, OnlineUntilShutdown, Online
  <1>4. OpenIsRegistered /\ StopShuts /\ StoppedIsIdle
    BY DEF ServerInit, OpenIsRegistered, StopShuts, StoppedIsIdle
  <1>5. QED
    BY <1>1, <1>2, <1>3, <1>4 DEF MainIInv

(* What the threads other than the connections' do to the connections. *)
LEMMA LifeIs ==
  ASSUME MainNext
  PROVE  \/ Connections /\ ComNext /\ UNCHANGED <<lifeVars, stopping>>
         \/ StopServer /\ ComNext /\ UNCHANGED server
         \/ CtrlStart \/ Offline \/ TurnOffAll
         \/ UNCHANGED comVars
  <1>1. CASE Connections
    <2>1. ComNext
      BY <1>1 DEF Connections, ComNext, Broadcasters
    <2>2. UNCHANGED <<lifeVars, stopping>>
      BY <1>1 DEF Connections, HandleAccept, Closing, CloseCount, CloseErase, CloseFlag, CloseAct, ReadFails,
         ReadCommand, ResponseSent, WriteSent, LookUp, Power, CommandEnds, Broadcast, Accepting, AcceptFlag, AcceptAct,
         BeginProtocol, BeginCounts, Leave, Broadcasting, BroadcastWrite, BroadcastDrop,
         BroadcastEnds, serverVars
    <2>3. QED
      BY <1>1, <2>1, <2>2
  <1>2. CASE StopServer
    BY <1>2 DEF StopServer, ComNext, lifeVars
  <1>3. CASE MainPart \/ ServerThread \/ EnginePart \/ FpgaLoop
    BY <1>3 DEF MainPart, Setup, StartTelemetry, CreateServer, WaitForRunning, ServerStopped, CtrlStop,
       CtrlJoin, JoinServer, ServerThread, EnginePart, FpgaLoop
  <1>4. CASE StopLoop \/ StopEngine \/ WelcomeFails \/ \E c \in Conns : RequestShutdown(c)
    BY <1>4 DEF StopLoop, StopEngine, WelcomeFails, RequestShutdown
  <1>5. QED
    BY <1>1, <1>2, <1>3, <1>4 DEF MainNext, Shutdown

-----------------------------------------------------------------------------
LEMMA IInvKept ==
  ASSUME MainIInv, MainNext
  PROVE  IInv'
  <1>a. IInv /\ ModelInv /\ ModelTypes
    BY DEF MainIInv, IInv, ModelInv
  <1>b. ASSUME UNCHANGED <<serverVars, connVars, commLost, count, granted>>, current' \in {"STANDBY", "OFFLINE"} \cup {current},
               powered' = FALSE
        PROVE  IInv'
    <2>1. Lifetimes'
      BY <1>a, <1>b, LifetimesSame DEF IInv
    <2>2. CountIsActive'
      BY <1>a, <1>b, CountSame DEF IInv, serverVars, connVars
    <2>3. Served'
      BY <1>b DEF MainIInv, IInv, Served, ServedIsActive, NotYetServed, GrantedRuns, serverVars, connVars
    <2>4. ModelInv'
      BY <1>a, <1>b DEF ModelInv, ModelTypes, CountedPower
    <2>5. QED
      BY <2>1, <2>2, <2>3, <2>4 DEF IInv
  <1>1. CASE CtrlStart
    <2>1. ~powered
      BY <1>1 DEF CtrlStart, MainIInv, QuietBefore, Quiet, Main
    <2>2. current' = "STANDBY" /\ powered' = FALSE
      BY <1>a, <1>1, <2>1, ChangeStateIs DEF CtrlStart, SafeStates, ModelTypes
    <2>3. QED
      BY <1>b, <1>1, <2>2 DEF CtrlStart
  <1>2. CASE Offline
    <2>1. current' = "OFFLINE" /\ powered' = FALSE
      BY <1>a, <1>2, ChangeStateIs DEF Offline, SafeStates
    <2>2. QED
      BY <1>b, <1>2, <2>1 DEF Offline
  <1>3. CASE TurnOffAll
    BY <1>b, <1>3 DEF TurnOffAll
  <1>4. CASE ComNext \/ UNCHANGED comVars
    BY <1>a, <1>4, IInvNext
  <1>5. QED
    BY <1>1, <1>2, <1>3, <1>4, LifeIs

-----------------------------------------------------------------------------
(* The threads of the program and MotionEngine's queue. *)
LEMMA ThreadsKept ==
  ASSUME MainIInv, MainNext
  PROVE  MainTypes' /\ EngineTypes' /\ StartedThenJoined'
  <1> USE MainAssumption DEF lifeVars
  <1>a. MainTypes /\ EngineTypes /\ StartedThenJoined /\ ~Ended
    BY DEF MainIInv, MainNext
  <1>m. \A to \in {"setup", "start", "telemetry", "create", "wait", "serve", "ctrlStop", "ctrlJoin", "join",
                  "done", "failed"} :
           /\ [at |-> to, polls |-> 0] \in [at : {"setup", "start", "telemetry", "create", "wait", "serve",
                  "ctrlStop", "ctrlJoin", "join", "done", "failed"}, polls : 0..(MaxPolls - 1)]
           /\ [at |-> to, polls |-> 0].at = to
    OBVIOUS
  <1>1. CASE Setup \/ StartTelemetry \/ CreateServer \/ ServerStopped
    BY <1>a, <1>m, <1>1 DEF Setup, StartTelemetry, CreateServer, ServerStopped, Main, MainTypes, EngineTypes,
       StartedThenJoined
  <1>2. CASE CtrlStart
    BY <1>a, <1>m, <1>2, EngineStartIs DEF CtrlStart, Main, MainTypes, EngineTypes, StartedThenJoined
  <1>3. CASE WaitForRunning
    <2>1. main' \in [at : {"setup", "start", "telemetry", "create", "wait", "serve", "ctrlStop", "ctrlJoin", "join",
                         "done", "failed"}, polls : 0..(MaxPolls - 1)] /\ main'.at \in {"wait", "serve", "failed"}
      <3>1. CASE server = "running" \/ main.polls + 1 >= MaxPolls
        BY <1>a, <1>m, <1>3, <3>1 DEF WaitForRunning
      <3>2. CASE ~(server = "running" \/ main.polls + 1 >= MaxPolls)
        BY <1>a, <1>3, <3>2 DEF WaitForRunning, MainTypes
      <3>3. QED
        BY <3>1, <3>2
    <2>2. QED
      BY <1>a, <1>3, <2>1 DEF WaitForRunning, MainTypes, EngineTypes, StartedThenJoined
  <1>4. CASE CtrlStop
    BY <1>a, <1>m, <1>4, EngineStopIs DEF CtrlStop, Main, MainTypes, EngineTypes, StartedThenJoined
  <1>5. CASE CtrlJoin
    BY <1>a, <1>m, <1>5 DEF CtrlJoin, Main, EngineJoined, MainTypes, EngineTypes, StartedThenJoined
  <1>6. CASE JoinServer
    BY <1>a, <1>m, <1>6 DEF JoinServer, Main, MainTypes, EngineTypes, StartedThenJoined
  <1>7. CASE ServerThread
    <2>1. UNCHANGED <<main, stopper, fpga, engine>> /\ server' \in {"accepting", "running", "stopped", "done"}
      BY <1>7 DEF ServerThread, ServerStep
    <2>2. QED
      BY <1>a, <2>1 DEF MainTypes, EngineTypes, StartedThenJoined, Ended
  <1>8. CASE EnginePart
    <2>1. UNCHANGED <<main, server, stopper, fpga>>
      BY <1>8 DEF EnginePart
    <2>2. QED
      BY <1>a, <1>8, <2>1, EnginePartIs DEF MainTypes, StartedThenJoined
  <1>9. CASE FpgaLoop
    <2>1. fpga' = [fpga EXCEPT !.port = powered] /\ powered \in BOOLEAN
          /\ stopper' \in {stopper, "stopLoop"} /\ UNCHANGED <<main, server, engine>>
      BY <1>9 DEF FpgaLoop, MainIInv, IInv, ModelInv, ModelTypes
    <2>2. QED
      BY <1>a, <2>1 DEF MainTypes, EngineTypes, StartedThenJoined
  <1>10. CASE StopEngine
    BY <1>a, <1>10, EngineStopIs DEF StopEngine, MainTypes, EngineTypes, StartedThenJoined
  <1>11. CASE StopLoop \/ Offline \/ TurnOffAll \/ StopServer \/ \E c \in Conns : RequestShutdown(c)
    <2>1. /\ stopper' \in {"offline", "turnOff", "sleep", "engineStop", "stopping", stopper}
          /\ fpga' \in {fpga, [fpga EXCEPT !.loop = FALSE]} /\ UNCHANGED <<main, server, engine>>
      BY <1>11 DEF StopLoop, Offline, TurnOffAll, StopServer, RequestShutdown
    <2>2. QED
      BY <1>a, <2>1 DEF MainTypes, EngineTypes, StartedThenJoined
  <1>12. CASE Connections
    BY <1>a, <1>12 DEF Connections, MainTypes, EngineTypes, StartedThenJoined
  <1>14. CASE WelcomeFails
    <2>1. main.at \notin {"setup", "start"}
      BY <1>14 DEF WelcomeFails, MainIInv, QuietBefore, Quiet
    <2>2. main' = [at |-> "failed", polls |-> 0] /\ UNCHANGED <<server, stopper, fpga, engine>>
      BY <1>14 DEF WelcomeFails
    <2>3. QED
      BY <1>a, <1>m, <2>1, <2>2 DEF MainTypes, EngineTypes, StartedThenJoined
  <1>13. QED
    BY <1>1, <1>2, <1>3, <1>4, <1>5, <1>6, <1>7, <1>8, <1>9, <1>10, <1>11, <1>12, <1>14
       DEF MainNext, MainPart, Shutdown

-----------------------------------------------------------------------------
(* Where there is nothing to the connections no step of theirs is enabled, *)
(* except that one is accepted.                                            *)
LEMMA QuietStays ==
  ASSUME Quiet, server = "none", MainNext
  PROVE  Quiet'
  <1>1. ~Connections /\ ~WelcomeFails
    BY DEF Quiet, Connections, IoRunning, Closing, CloseCount, CloseErase, CloseFlag, CloseAct, ReadFails,
       ReadCommand, ResponseSent, WriteSent, IoRuns, LookUp, Power, CommandEnds, Broadcast, Accepting, AcceptFlag,
       AcceptAct, BeginProtocol, BeginCounts, Leave, Broadcasting, BroadcastWrite, BroadcastDrop,
       BroadcastEnds, WelcomeFails
  <1>2. ~Shutdown /\ \A c \in Conns : ~RequestShutdown(c)
    BY DEF Quiet, Shutdown, Offline, TurnOffAll, StopLoop, StopEngine, StopServer, Stopping, StopList,
       StopConnection, StopClosed, Destroy, RequestShutdown
  <1>3. UNCHANGED <<serverVars, connVars, granted, count>> /\ (powered' => powered) /\ stopper' = stopper
    <2>1. CASE CtrlStart
      BY <2>1 DEF CtrlStart, ChangeState
    <2>2. CASE FpgaLoop
      BY <2>2 DEF FpgaLoop, Quiet, comVars, modelVars
    <2>3. CASE ServerThread \/ EnginePart \/ (MainPart /\ ~CtrlStart)
      BY <2>3 DEF ServerThread, EnginePart, MainPart, Setup, StartTelemetry, CreateServer, WaitForRunning,
         ServerStopped, CtrlStop, CtrlJoin, JoinServer, comVars, modelVars
    <2>4. QED
      BY <1>1, <1>2, <2>1, <2>2, <2>3 DEF MainNext
  <1>4. QED
    BY <1>3 DEF Quiet, serverVars, connVars

LEMMA QuietKept ==
  ASSUME MainIInv, MainNext
  PROVE  QuietBefore'
  <1> USE DEF lifeVars
  <1>a. QuietBefore /\ MainTypes
    BY DEF MainIInv
  <1>1. /\ main'.at \in {"setup", "start", "telemetry", "create"} =>
             main.at \in {"setup", "start", "telemetry", "create"}
        /\ main'.at \in {"setup", "start", "telemetry", "create"} /\ server = "none" => server' = "none"
        /\ server' = "none" => server = "none"
    <2>1. CASE MainPart
      <3>1. CASE WaitForRunning
        BY <1>a, <3>1 DEF WaitForRunning, MainTypes
      <3>2. CASE ~WaitForRunning
        BY <1>a, <2>1, <3>2 DEF MainPart, Main, Setup, CtrlStart, StartTelemetry, CreateServer, ServerStopped,
           CtrlStop, CtrlJoin, JoinServer
      <3>3. QED
        BY <3>1, <3>2
    <2>2. CASE ServerThread
      BY <2>2 DEF ServerThread, ServerStep
    <2>3. CASE EnginePart \/ FpgaLoop \/ Connections
      BY <2>3 DEF EnginePart, FpgaLoop, Connections
    <2>4. CASE Shutdown \/ WelcomeFails \/ \E c \in Conns : RequestShutdown(c)
      BY <2>4 DEF Shutdown, Offline, TurnOffAll, StopLoop, StopEngine, StopServer, WelcomeFails, RequestShutdown
    <2>5. QED
      BY <2>1, <2>2, <2>3, <2>4 DEF MainNext
  <1>2. server' = "none" => Quiet'
    BY <1>a, <1>1, QuietStays DEF QuietBefore
  <1>3. QED
    BY <1>a, <1>1, <1>2 DEF QuietBefore

LEMMA StoppedKept ==
  ASSUME MainIInv, MainNext
  PROVE  StoppedByCommand'
  <1> USE DEF lifeVars
  <1>a. StoppedByCommand /\ MainTypes
    BY DEF MainIInv
  <1>1. stopping'.at # "no" => stopper' = "stopping"
    <2>1. CASE StopServer
      BY <1>a, <2>1 DEF StopServer, Stopping, StopList, StopConnection, StopClosed, Destroy, StoppedByCommand
    <2>2. CASE ~StopServer
      <3>1. UNCHANGED stopping
        BY <2>2, LifeIs DEF CtrlStart, Offline, TurnOffAll, comVars, serverVars
      <3>2. stopper = "stopping" => stopper' = "stopping"
        <4>1. CASE Shutdown \/ WelcomeFails \/ \E c \in Conns : RequestShutdown(c)
          BY <2>2, <4>1 DEF Shutdown, Offline, TurnOffAll, StopLoop, StopEngine, WelcomeFails, RequestShutdown
        <4>2. CASE MainPart \/ ServerThread
          BY <4>2 DEF MainPart, Setup, CtrlStart, StartTelemetry, CreateServer, WaitForRunning, ServerStopped,
             CtrlStop, CtrlJoin, JoinServer, ServerThread
        <4>3. CASE EnginePart \/ FpgaLoop \/ Connections
          BY <4>3 DEF EnginePart, FpgaLoop, Connections
        <4>4. QED
          BY <4>1, <4>2, <4>3 DEF MainNext
      <3>3. QED
        BY <1>a, <3>1, <3>2 DEF StoppedByCommand
    <2>3. QED
      BY <2>1, <2>2
  <1>2. stopping.at = "destroyed" => stopping'.at = "destroyed"
    <2>1. CASE StopServer
      BY <2>1 DEF StopServer, Stop, Stopping, StopList, StopConnection, StopClosed, Destroy
    <2>2. CASE ~StopServer
      BY <2>2, LifeIs DEF CtrlStart, Offline, TurnOffAll, comVars, serverVars
    <2>3. QED
      BY <2>1, <2>2
  <1>3. server' \in {"stopped", "done"} => server \in {"stopped", "done"} \/ stopping.at = "destroyed"
    <2>1. CASE ServerThread
      BY <2>1 DEF ServerThread, ServerStep
    <2>2. CASE MainPart
      BY <2>2 DEF MainPart, Setup, CtrlStart, StartTelemetry, CreateServer, WaitForRunning, ServerStopped,
         CtrlStop, CtrlJoin, JoinServer
    <2>3. CASE EnginePart \/ FpgaLoop \/ Connections
      BY <2>3 DEF EnginePart, FpgaLoop, Connections
    <2>4. CASE Shutdown \/ WelcomeFails \/ \E c \in Conns : RequestShutdown(c)
      BY <2>4 DEF Shutdown, Offline, TurnOffAll, StopLoop, StopEngine, StopServer, WelcomeFails, RequestShutdown
    <2>5. QED
      BY <2>1, <2>2, <2>3, <2>4 DEF MainNext
  <1>4. QED
    BY <1>a, <1>1, <1>2, <1>3 DEF StoppedByCommand

-----------------------------------------------------------------------------
(* What the connections do leaves OFFLINE only to count a client. *)
LEMMA ConnectionsKeepOffline ==
  ASSUME IInv, ComNext, count > 0 \/ current = "OFFLINE"
  PROVE  (count > 0 \/ current = "OFFLINE")'
  <1>a. Lifetimes /\ ModelTypes /\ count \in Int
    BY ActiveIs DEF IInv, ModelInv, CountIsActive, Uncounted, Lifetimes
  <1>1. CASE CountStep
    BY <1>a, <1>1, SetTcpIpConnectedIs DEF CountStep
  <1>2. CASE ReportStep
    BY <1>a, <1>2, ReportActsIs DEF ReportStep
  <1>3. CASE PowerStep
    BY <1>3 DEF PowerStep
  <1>4. QED
    BY <1>a, <1>1, <1>2, <1>3, ModelStepIs

LEMMA OfflineKept ==
  ASSUME MainIInv, MainNext
  PROVE  OfflineFirst' /\ OnlineUntilShutdown'
  <1> USE DEF lifeVars
  <1>a. IInv /\ ModelTypes /\ OfflineFirst /\ OnlineUntilShutdown /\ QuietBefore /\ MainTypes
    BY DEF MainIInv, IInv, ModelInv
  <1>1. CASE CtrlStart
    <2>1. current' = "STANDBY" /\ stopper = "none" /\ UNCHANGED stopper
      BY <1>a, <1>1, ChangeStateIs DEF CtrlStart, Main, QuietBefore, Quiet, SafeStates
    <2>2. QED
      BY <2>1 DEF OfflineFirst, OnlineUntilShutdown, Online
  <1>2. CASE Offline
    BY <1>a, <1>2, ChangeStateIs DEF Offline, SafeStates, OfflineFirst, OnlineUntilShutdown
  <1>3. CASE TurnOffAll
    BY <1>a, <1>3 DEF TurnOffAll, OfflineFirst, OnlineUntilShutdown
  <1>4. CASE ~(CtrlStart \/ Offline \/ TurnOffAll)
    <2>1. stopper' \in {"none", "offline"} <=> stopper \in {"none", "offline"}
      <3>1. CASE Shutdown \/ WelcomeFails \/ \E c \in Conns : RequestShutdown(c)
        BY <1>4, <3>1 DEF Shutdown, StopLoop, StopEngine, StopServer, WelcomeFails, RequestShutdown
      <3>2. CASE MainPart \/ ServerThread
        BY <1>4, <3>2 DEF MainPart, Setup, StartTelemetry, CreateServer, WaitForRunning, ServerStopped,
           CtrlStop, CtrlJoin, JoinServer, ServerThread
      <3>3. CASE EnginePart \/ FpgaLoop \/ Connections
        BY <3>3 DEF EnginePart, FpgaLoop, Connections
      <3>4. QED
        BY <3>1, <3>2, <3>3 DEF MainNext
    <2>2. \/ (Online => Online') /\ (count > 0 \/ current = "OFFLINE" => (count > 0 \/ current = "OFFLINE")')
          \/ UNCHANGED <<count, current>>
      BY <1>a, <1>4, LifeIs, OnlineKept, ConnectionsKeepOffline DEF comVars, modelVars
    <2>3. MainTypes'
      BY ThreadsKept
    <2>4. QED
      BY <1>a, <2>1, <2>2, <2>3 DEF OfflineFirst, OnlineUntilShutdown, Online, MainTypes
  <1>5. QED
    BY <1>1, <1>2, <1>3, <1>4

-----------------------------------------------------------------------------
(* A connection that was shut down remains so until its memory is used      *)
(* again.                                                                  *)
LEMMA ShutStays ==
  ASSUME Lifetimes, ComNext, \A c \in Conns : ~HandleAccept(c)
  PROVE  \A d \in Conns : shut[d] => shut'[d]
  <1> USE DEF connVars, serverVars
  <1>a. ASSUME NEW c \in Conns, NEW holder, NEW new, Release(c, holder, new)
        PROVE  \A d \in Conns : shut[d] => shut'[d]
    BY <1>a DEF Release, Shut, Lifetimes, ConnTypes
  <1>1. ASSUME NEW c \in Conns, Closing(c) \/ LookUp(c) \/ Power(c) PROVE UNCHANGED shut
    BY <1>1 DEF Closing, CloseCount, CloseErase, CloseFlag, CloseAct, LookUp, Power
  <1>2. ASSUME NEW c \in Conns, Serves(c) PROVE \A d \in Conns : shut[d] => shut'[d]
    BY <1>a, <1>2, ServesIs
  <1>3. CASE Leave
    <2>1. accept.conn \in Conns
      BY <1>3 DEF Leave, Lifetimes, AcceptHolds, Busy
    <2>2. QED
      BY <1>a, <1>3, <2>1 DEF Leave
  <1>4. CASE AcceptFlag \/ AcceptAct \/ BeginProtocol \/ BeginCounts
    BY <1>4 DEF AcceptFlag, AcceptAct, BeginProtocol, BeginCounts
  <1>5. CASE BroadcastDrop \/ StopClosed
    <2>1. /\ BroadcastDrop => bcast.conn \in Conns
          /\ StopClosed => stopping.conn \in Conns
      BY DEF BroadcastDrop, StopClosed, Lifetimes, AtHand
    <2>2. QED
      BY <1>a, <1>5, <2>1 DEF BroadcastDrop, StopClosed
  <1>6. ASSUME NEW c \in Conns, BroadcastWrite(c) \/ StopConnection(c)
        PROVE  \A d \in Conns : shut[d] => shut'[d]
    BY <1>6 DEF BroadcastWrite, StopConnection, Shut, Lifetimes, ConnTypes
  <1>7. CASE BroadcastEnds \/ Stop \/ StopList \/ Destroy
    BY <1>7 DEF BroadcastEnds, Stop, StopList, Destroy
  <1>8. ASSUME NEW b \in Broadcasters, Broadcast(b) PROVE UNCHANGED shut
    BY <1>8 DEF Broadcast
  <1>9. QED
    BY <1>1, <1>2, <1>3, <1>4, <1>5, <1>6, <1>7, <1>8, ComNextIs DEF Broadcasting, Stopping

(* ... and only such a one is erased. *)
LEMMA ErasedIsShut ==
  ASSUME Lifetimes, ComNext, \A c \in Conns : ~HandleAccept(c)
  PROVE  \A d \in connections : d \in connections' \/ shut[d]
  <1> USE DEF serverVars
  <1>1. ASSUME NEW c \in Conns, CloseErase(c) PROVE connections' = connections \ {c} /\ shut[c]
    BY <1>1 DEF CloseErase, EraseConnection, Lifetimes, ShutIsClosing
  <1>2. ASSUME NEW c \in Conns, CloseCount(c) \/ CloseFlag(c) \/ CloseAct(c) \/ Serves(c) \/ LookUp(c) \/ Power(c)
        PROVE  UNCHANGED connections
    BY <1>2, ServesIs DEF CloseCount, CloseFlag, CloseAct, LookUp, Power
  <1>3. ASSUME NEW b \in Broadcasters, Broadcast(b) PROVE UNCHANGED connections
    BY <1>3 DEF Broadcast
  <1>4. CASE AcceptFlag \/ AcceptAct \/ BeginProtocol \/ BeginCounts \/ Leave \/ Broadcasting \/ Stop \/ Stopping
    BY <1>4 DEF AcceptFlag, AcceptAct, BeginProtocol, BeginCounts, Leave, Broadcasting, BroadcastWrite,
       BroadcastDrop, BroadcastEnds, Stop, Stopping, StopList, StopConnection, StopClosed, Destroy
  <1>5. QED
    BY <1>1, <1>2, <1>3, <1>4, ComNextIs DEF Closing

LEMMA OpenKept ==
  ASSUME IInv, OpenIsRegistered, ComNext
  PROVE  OpenIsRegistered'
  <1>a. Lifetimes /\ ConnTypes /\ connections \subseteq Conns
    BY DEF IInv, Lifetimes, ServerTypes
  <1>1. ASSUME NEW c \in Conns, HandleAccept(c) PROVE OpenIsRegistered'
    <2>1. CASE stopping.at # "no"
      BY <1>1, <2>1 DEF HandleAccept, connVars, OpenIsRegistered
    <2>2. CASE stopping.at = "no"
      BY <1>a, <1>1, <2>2 DEF HandleAccept, OpenIsRegistered, ConnTypes
    <2>3. QED
      BY <2>1, <2>2
  <1>2. CASE \A c \in Conns : ~HandleAccept(c)
    BY <1>a, <1>2, ShutStays, ErasedIsShut DEF OpenIsRegistered
  <1>3. QED
    BY <1>1, <1>2

LEMMA StopShutsKept ==
  ASSUME IInv, OpenIsRegistered, StopShuts, ComNext
  PROVE  StopShuts'
  <1>a. /\ Lifetimes /\ ConnTypes /\ DeadIsShut
        /\ stopping \in [at : {"no", "list", "next", "close", "destroyed"}, conn : ConnOrNone,
                         left : SUBSET Conns]
    BY DEF IInv, Lifetimes, ServerTypes
  <1>1. ASSUME NEW c \in Conns, HandleAccept(c) PROVE StopShuts'
    BY <1>1 DEF HandleAccept, connVars, StopShuts
  <1>2. ASSUME \A c \in Conns : ~HandleAccept(c) PROVE StopShuts'
    <2>a. \A d \in Conns : shut[d] => shut'[d]
      BY <1>a, <1>2, ShutStays
    <2>1. CASE Stop
      BY <2>1 DEF Stop, StopShuts
    <2>2. CASE StopList
      <3>1. stopping'.at = "next" /\ stopping'.left = connections
        BY <1>a, <2>2 DEF StopList
      <3>2. QED
        BY <2>a, <3>1 DEF OpenIsRegistered, StopShuts
    <2>3. ASSUME NEW c \in Conns, StopConnection(c) PROVE StopShuts'
      <3>1. stopping'.at \in {"next", "close"} /\ stopping'.left = stopping.left \ {c} /\ stopping.at = "next"
        BY <1>a, <2>3 DEF StopConnection
      <3>2. shut'[c]
        BY <1>a, <2>a, <2>3 DEF StopConnection, Shut, DeadIsShut, ConnTypes
      <3>3. QED
        BY <2>a, <3>1, <3>2 DEF StopShuts
    <2>4. CASE StopClosed
      <3>1. stopping'.at = "next" /\ stopping'.left = stopping.left /\ stopping.at = "close"
        BY <1>a, <2>4 DEF StopClosed
      <3>2. QED
        BY <2>a, <3>1 DEF StopShuts
    <2>5. CASE Destroy
      <3>1. stopping'.at = "destroyed" /\ stopping'.left = {} /\ stopping.at = "next" /\ stopping.left = {}
        BY <1>a, <2>5 DEF Destroy
      <3>2. QED
        BY <2>a, <3>1 DEF StopShuts
    <2>6. CASE UNCHANGED stopping
      BY <2>a, <2>6 DEF StopShuts
    <2>7. Stop \/ Stopping \/ UNCHANGED stopping
      <3>1. ASSUME NEW c \in Conns, Closing(c) \/ Serves(c) \/ LookUp(c) \/ Power(c) PROVE UNCHANGED stopping
        BY <1>a, <3>1, ClosingIs, ServesIs DEF LookUp, Power, serverVars
      <3>2. ASSUME NEW b \in Broadcasters, Broadcast(b) PROVE UNCHANGED stopping
        BY <3>2 DEF Broadcast
      <3>3. CASE AcceptFlag \/ AcceptAct \/ BeginProtocol \/ BeginCounts \/ Leave \/ Broadcasting
        BY <3>3 DEF AcceptFlag, AcceptAct, BeginProtocol, BeginCounts, Leave, Broadcasting, BroadcastWrite,
           BroadcastDrop, BroadcastEnds
      <3>4. QED
        BY <1>2, <3>1, <3>2, <3>3, ComNextIs
    <2>8. QED
      BY <2>1, <2>2, <2>3, <2>4, <2>5, <2>6, <2>7 DEF Stopping
  <1>3. QED
    BY <1>1, <1>2

(* After the io_context has stopped no handler runs, and all that closes is *)
(* what the broadcast destroys.                                            *)
LEMMA IdleStays ==
  ASSUME Lifetimes, IoIdle, stopping.at = "destroyed", \A c \in Conns : shut[c], ComNext
  PROVE  IoIdle'
  <1> USE DEF connVars, serverVars
  <1>a. ASSUME UNCHANGED <<accept, bcast, closing>> PROVE IoIdle'
    BY <1>a DEF IoIdle
  <1>b. ASSUME NEW c \in Conns, NEW holder, NEW new, Release(c, holder, new) PROVE UNCHANGED closing
    BY <1>b DEF Release, Shut
  <1>1. ASSUME NEW c \in Conns, Closing(c) PROVE IoIdle'
    <2>1. /\ UNCHANGED <<accept, bcast>> /\ closing[c].at \notin {"no", "done"}
          /\ \A d \in Conns : d # c => closing'[d] = closing[d]
      BY <1>1, ClosingIs DEF Closing, CloseCount, CloseErase, CloseFlag, CloseAct
    <2>2. QED
      BY <2>1 DEF IoIdle
  <1>2. ASSUME NEW c \in Conns, Serves(c) \/ LookUp(c) \/ Power(c) PROVE IoIdle'
    BY <1>a, <1>b, <1>2, ServesIs DEF LookUp, Power
  <1>3. ASSUME NEW b \in Broadcasters, Broadcast(b) PROVE IoIdle'
    BY <1>3 DEF Broadcast, MapFree, IoIdle
  <1>4. ASSUME NEW c \in Conns, BroadcastWrite(c) PROVE IoIdle'
    BY <1>4 DEF BroadcastWrite, IoIdle
  <1>5. CASE BroadcastDrop
    <2>1. UNCHANGED <<accept, closing>> /\ bcast.at = "wrote"
      BY <1>5, <1>b DEF BroadcastDrop, Lifetimes, AtHand
    <2>2. QED
      BY <2>1 DEF IoIdle
  <1>6. CASE BroadcastEnds
    BY <1>6 DEF BroadcastEnds, IoIdle
  <1>7. ~Stop /\ ~Stopping /\ \A c \in Conns : ~HandleAccept(c)
    BY DEF Stop, Stopping, StopList, StopConnection, StopClosed, Destroy, HandleAccept
  <1>8. ~(AcceptFlag \/ AcceptAct \/ BeginProtocol \/ BeginCounts \/ Leave)
    BY DEF AcceptFlag, AcceptAct, BeginProtocol, BeginCounts, Leave, IoIdle
  <1>9. QED
    BY <1>1, <1>2, <1>3, <1>4, <1>5, <1>6, <1>7, <1>8, ComNextIs DEF Broadcasting

LEMMA ClosedKept ==
  ASSUME MainIInv, MainNext
  PROVE  OpenIsRegistered' /\ StopShuts' /\ StoppedIsIdle'
  <1>a. IInv /\ Lifetimes /\ OpenIsRegistered /\ StopShuts /\ StoppedIsIdle /\ StoppedByCommand
    BY DEF MainIInv, IInv
  <1>1. CASE ComNext /\ UNCHANGED server
    <2>1. OpenIsRegistered' /\ StopShuts'
      BY <1>a, <1>1, OpenKept, StopShutsKept
    <2>2. ASSUME server \in {"stopped", "done"} PROVE IoIdle'
      BY <1>a, <1>1, <2>2, IdleStays DEF StoppedByCommand, StopShuts, StoppedIsIdle
    <2>3. QED
      BY <1>1, <2>1, <2>2 DEF StoppedIsIdle
  <1>2. CASE ~(ComNext /\ UNCHANGED server)
    <2>1. UNCHANGED <<connections, accept, bcast, stopping, shut, closing>>
      BY <1>2, LifeIs DEF CtrlStart, Offline, TurnOffAll, comVars, serverVars, connVars, lifeVars
    <2>2. server' \in {"stopped", "done"} => server \in {"stopped", "done"} \/ IoIdle
      <3>1. CASE ServerThread
        BY <3>1 DEF ServerThread, ServerStep
      <3>2. CASE MainPart
        BY <3>2 DEF MainPart, Setup, CtrlStart, StartTelemetry, CreateServer, WaitForRunning, ServerStopped,
           CtrlStop, CtrlJoin, JoinServer
      <3>3. CASE EnginePart \/ FpgaLoop \/ Connections
        BY <3>3 DEF EnginePart, FpgaLoop, Connections, lifeVars
      <3>4. CASE Shutdown \/ WelcomeFails \/ \E c \in Conns : RequestShutdown(c)
        BY <3>4 DEF Shutdown, Offline, TurnOffAll, StopLoop, StopEngine, StopServer, WelcomeFails, RequestShutdown,
           lifeVars
      <3>5. QED
        BY <3>1, <3>2, <3>3, <3>4 DEF MainNext
    <2>3. IoIdle => IoIdle'
      BY <2>1 DEF IoIdle
    <2>4. QED
      BY <1>a, <2>1, <2>2, <2>3 DEF OpenIsRegistered, StopShuts, StoppedIsIdle
  <1>3. QED
    BY <1>1, <1>2

-----------------------------------------------------------------------------
LEMMA MainIInvNext == MainIInv /\ [MainNext]_mainVars => MainIInv'
  <1> SUFFICES ASSUME MainIInv, [MainNext]_mainVars PROVE MainIInv'
    OBVIOUS
  <1>1. CASE MainNext
    BY <1>1, IInvKept, ThreadsKept, QuietKept, StoppedKept, OfflineKept, ClosedKept DEF MainIInv
  <1>2. CASE UNCHANGED mainVars
    <2>1. IInv'
      BY <1>2, IInvNext DEF MainIInv, mainVars
    <2>2. MainTypes' /\ EngineTypes' /\ StartedThenJoined'
      BY <1>2 DEF MainIInv, MainTypes, EngineTypes, StartedThenJoined, mainVars, lifeVars
    <2>3. QuietBefore' /\ StoppedByCommand' /\ OfflineFirst' /\ OnlineUntilShutdown'
      BY <1>2 DEF MainIInv, QuietBefore, Quiet, StoppedByCommand, OfflineFirst, OnlineUntilShutdown, Online,
         mainVars, lifeVars, comVars, serverVars, connVars, modelVars
    <2>4. OpenIsRegistered' /\ StopShuts' /\ StoppedIsIdle'
      BY <1>2 DEF MainIInv, OpenIsRegistered, StopShuts, StoppedIsIdle, IoIdle, mainVars, lifeVars, comVars,
         serverVars, connVars
    <2>5. QED
      BY <2>1, <2>2, <2>3, <2>4 DEF MainIInv
  <1>3. QED
    BY <1>1, <1>2

(* The invariant that the properties of the program's life follow from. *)
THEOREM MainInvariance == MainSpec => []MainIInv
  BY MainInitIInv, MainIInvNext, PTL DEF MainSpec

(* The types of ControlMain, of the thread of cmd_systemShutdown, of FpgaIo *)
(* and of MotionEngine, whose queue has at most the end besides the checks. *)
THEOREM MainTypeCorrect == MainSpec => []MainTypeOK
  <1>1. MainIInv => MainTypeOK
    BY MainAssumption DEF MainIInv, MainTypes, EngineTypes, Engine, Room, MainTypeOK
  <1>2. QED
    BY <1>1, MainInvariance, PTL

(* ctrlJoin and ControlMain's join of the server's thread: when main has     *)
(* returned, no thread of MotionEngine or ComServer runs.                  *)
THEOREM MainJoinsThreads == MainSpec => []ThreadsJoined
  <1>1. MainIInv => ThreadsJoined
    BY DEF MainIInv, StartedThenJoined, ThreadsJoined
  <1>2. QED
    BY <1>1, MainInvariance, PTL

(* ComServer::shutdown, ComConnection::shutdown: when the program has ended  *)
(* by itself the Model is OFFLINE, unless a connection was counted after it *)
(* had been shut down, or a broadcast has yet to uncount one.              *)
THEOREM MainEndsOffline == MainSpec => []EndsOffline
  <1>1. MainIInv => EndsOffline
    <2>1. SUFFICES ASSUME MainIInv, main.at = "done", current # "OFFLINE"
                   PROVE  \E c \in Conns :
                             /\ active[c]
                             /\ (closing[c].at = "done" \/ (bcast.at = "destroy" /\ bcast.conn = c))
      BY DEF EndsOffline
    <2>2. server = "done" /\ stopping.at = "destroyed" /\ stopper = "stopping"
      BY <2>1 DEF MainIInv, StartedThenJoined, StoppedByCommand
    <2>3. count > 0
      BY <2>1, <2>2 DEF MainIInv, OfflineFirst
    <2>4. IoIdle /\ \A c \in Conns : shut[c]
      BY <2>1, <2>2 DEF MainIInv, StoppedIsIdle, StopShuts
    <2>5. Active # {}
      <3>1. Cardinality(Active) # 0
        BY <2>1, <2>3, <2>4, ActiveIs DEF MainIInv, IInv, Lifetimes, CountIsActive, Uncounted, IoIdle
      <3>2. QED
        BY <3>1, FS_EmptySet
    <2>6. PICK c \in Conns : active[c]
      BY <2>5 DEF Active
    <2>7. closing[c].at # "no"
      BY <2>1, <2>4 DEF MainIInv, IInv, Lifetimes, ShutIsClosing
    <2>8. QED
      BY <2>4, <2>6, <2>7 DEF IoIdle
  <1>2. QED
    BY <1>1, MainInvariance, PTL

(* ComConnection, Globals, NCmdPower::action: what is true of the           *)
(* connections by themselves is true of them in the program, with all else *)
(* that goes on in it; of the power, until cmd_systemShutdown goes OFFLINE *)
(* and while the server is not shut down respectively.                     *)
THEOREM ConnectionsInProgram ==
  MainSpec => [](/\ RegisteredExists /\ CountsLiveClients
                 /\ stopping.at = "no" /\ powered => count > 0
                 /\ stopper \in {"none", "offline"} => PowerNeedsClient)
  <1>1. MainIInv => RegisteredExists
    BY DEF MainIInv, IInv, Lifetimes, ServerTypes, RegisteredIsOpen, ShutIsClosing, DeadIsShut, RegisteredExists
  <1>2. MainIInv => CountsLiveClients
    BY DEF MainIInv, IInv, Lifetimes, CountIsActive, Active, Uncounted, OnlyDestructorsShut, ShutIsClosing,
       DeadIsShut, CountsLiveClients
  <1>3. MainIInv => (stopping.at = "no" /\ powered => count > 0)
    BY DEF MainIInv, IInv, ModelInv, CountedPower
  <1>4. MainIInv => (stopper \in {"none", "offline"} => PowerNeedsClient)
    BY <1>3 DEF MainIInv, OnlineUntilShutdown, Online, PowerNeedsClient
  <1>5. QED
    BY <1>1, <1>2, <1>3, <1>4, MainInvariance, PTL
=============================================================================
