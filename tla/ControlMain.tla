---------------------------- MODULE ControlMain ----------------------------
(***************************************************************************)
(* The life of the program: ControlMain's thread, the threads of ComServer *)
(* and of MotionEngine, the loop of FpgaIo, and the thread by which        *)
(* cmd_systemShutdown ends them all, on top of the server's connections.   *)
(*                                                                         *)
(* There is one cmd_systemShutdown; ComServer::run and its io threads are  *)
(* one thread.  When ControlMain's thread ends, or throws, so does the     *)
(* program.                                                                *)
(***************************************************************************)
EXTENDS ComServer, Sequences

CONSTANTS
    MaxPolls,  \* how often main looks whether the server runs before it gives up
    MaxChecks  \* bound on the checks waiting for MotionEngine's thread

ASSUME MainAssumption == MaxPolls \in Nat \ {0} /\ MaxChecks \in Nat \ {0}

VARIABLES
    main,     \* ControlMain::_cMain
    server,   \* the thread that runs ComServer::run, and ComServer::_state
    stopper,  \* the thread of cmd_systemShutdown
    fpga,     \* FpgaIo: _loop, and the power bits as last written
    engine    \* MotionEngine, its two threads and its queue

lifeVars == <<main, server, stopper, fpga, engine>>
mainVars == <<comVars, lifeVars>>

Ended == main.at \in {"done", "failed"}

-----------------------------------------------------------------------------
(* MotionEngine *)
NewEngine ==
    [started |-> FALSE, stopCalled |-> FALSE, loop |-> TRUE, queue |-> <<>>, thread |-> "none",
     timeout |-> "none"]

EngineStart(e) == [e EXCEPT !.started = TRUE, !.thread = "run", !.timeout = "test"]

(* Mutant: the queue is not ended. *)
EngineStop_Flags(e) == [e EXCEPT !.stopCalled = TRUE, !.loop = FALSE]

(* engineStop: the first call only. *)
EngineStop(e) ==
    IF e.stopCalled THEN e
    ELSE [e EXCEPT !.stopCalled = TRUE, !.loop = FALSE, !.queue = Append(e.queue, "end")]

(* Mutant: only the event thread is joined. *)
EngineJoined_EventThreadOnly(e) == e.thread = "ended"

(* engineJoin returns. *)
EngineJoined(e) == e.started => e.thread = "ended" /\ e.timeout = "ended"

(* The timeout thread tests its loop, and then queues a check, which the    *)
(* event thread may never come to when it was stopped in between.          *)
TimeoutThread ==
    \/ /\ engine.timeout = "test"
       /\ engine' = [engine EXCEPT !.timeout = IF engine.loop THEN "queue" ELSE "ended"]
    \/ /\ engine.timeout = "queue"
       /\ engine' = [engine EXCEPT !.timeout = "test",
              !.queue = IF Len(@) < MaxChecks THEN Append(@, "check") ELSE @]

(* A check reports to FaultMgr, and broadcasts what it finds changed. *)
Checking == engine.thread = "run" /\ engine.queue # <<>> /\ Head(engine.queue) = "check"

EventThread ==
    /\ engine.thread = "run" /\ engine.queue # <<>> /\ bcast.by # "event"
    /\ engine' = [engine EXCEPT !.queue = Tail(@), !.thread = IF Head(engine.queue) = "end" THEN "ended" ELSE @]

EnginePart == (TimeoutThread \/ EventThread) /\ UNCHANGED <<comVars, main, server, stopper, fpga>>

(* FpgaIo::_readWriteFpga, from the constructor until stopLoop; it runs     *)
(* many times in the second that systemShutdown sleeps.                    *)
FpgaLoop ==
    /\ fpga.loop /\ main.at # "setup"
    /\ fpga' = [fpga EXCEPT !.port = powered]
    /\ stopper' = IF stopper = "sleep" THEN "stopLoop" ELSE stopper
    /\ UNCHANGED <<comVars, main, server, engine>>

-----------------------------------------------------------------------------
(* _cMain *)
Main(from, to) == main.at = from /\ main' = [at |-> to, polls |-> 0]

Setup == Main("setup", "start") /\ UNCHANGED <<comVars, server, stopper, fpga, engine>>

CtrlStart ==
    /\ Main("start", "telemetry")
    /\ engine' = EngineStart(engine)
    /\ ChangeState("STANDBY")
    /\ UNCHANGED <<serverVars, connVars, commLost, count, granted, server, stopper, fpga>>

(* The telemetry server runs within 5 seconds, or the program exits. *)
StartTelemetry ==
    /\ \E to \in {"create", "failed"} : Main("telemetry", to)
    /\ UNCHANGED <<comVars, server, stopper, fpga, engine>>

CreateServer ==
    /\ Main("create", "wait") /\ engine.started
    /\ server' = "created"
    /\ UNCHANGED <<comVars, stopper, fpga, engine>>

(* Main looks once in a second: a server that ran and stopped in between    *)
(* is waited for until main gives up.                                      *)
WaitForRunning ==
    /\ main.at = "wait"
    /\ main' = IF server = "running" THEN [at |-> "serve", polls |-> 0]
               ELSE IF main.polls + 1 >= MaxPolls THEN [at |-> "failed", polls |-> 0]
               ELSE [main EXCEPT !.polls = @ + 1]
    /\ UNCHANGED <<comVars, server, stopper, fpga, engine>>

ServerStopped ==
    /\ Main("serve", "ctrlStop") /\ server \in {"stopped", "done"}
    /\ UNCHANGED <<comVars, server, stopper, fpga, engine>>

CtrlStop ==
    /\ Main("ctrlStop", "ctrlJoin")
    /\ engine' = EngineStop(engine)
    /\ UNCHANGED <<comVars, server, stopper, fpga>>

CtrlJoin ==
    /\ Main("ctrlJoin", "join") /\ EngineJoined(engine)
    /\ UNCHANGED <<comVars, server, stopper, fpga, engine>>

JoinServer ==
    /\ Main("join", "done") /\ server = "done"
    /\ UNCHANGED <<comVars, server, stopper, fpga, engine>>

MainPart == \/ Setup \/ CtrlStart \/ StartTelemetry \/ CreateServer \/ WaitForRunning
            \/ ServerStopped \/ CtrlStop \/ CtrlJoin \/ JoinServer

-----------------------------------------------------------------------------
(* ComServer::run: connections are accepted before _state is RUNNING.  It   *)
(* waits for the handlers that run, when destroy stopped the io_context:    *)
(* the acceptor's, and those that destroy a connection.                    *)
IoRunning == server \in {"accepting", "running"}
IoIdle ==
    /\ accept.at \in {"listen", "ended"}
    /\ \A c \in Conns : closing[c].at \in {"no", "done"} \/ (bcast.at = "destroy" /\ bcast.conn = c)

ServerStep ==
    \/ server = "created" /\ server' = "accepting"
    \/ server = "accepting" /\ server' = "running"
    \/ /\ server = "running" /\ stopping.at = "destroyed" /\ IoIdle
       /\ server' = "stopped"
    \/ server = "stopped" /\ server' = "done"

ServerThread == ServerStep /\ UNCHANGED <<comVars, main, stopper, fpga, engine>>

(* The connections, as ComServer has them. *)
Connections ==
    /\ \/ \E c \in Conns :
            \/ IoRunning /\ HandleAccept(c)
            \/ Closing(c) \/ ReadFails(c) \/ ReadCommand(c) \/ ResponseSent(c) \/ WriteSent(c)
            \/ LookUp(c) \/ Power(c) \/ CommandEnds(c) \/ Broadcast(c)
       \/ server # "none" /\ Checking /\ Broadcast("event")
       \/ Accepting \/ Broadcasting
    /\ UNCHANGED lifeVars

(* beginProtocol: nobody catches what the write of the welcome message      *)
(* throws when the client is gone already.                                 *)
WelcomeFails ==
    /\ accept.at = "leave" /\ accept.ok
    /\ main' = [at |-> "failed", polls |-> 0]
    /\ UNCHANGED <<comVars, server, stopper, fpga, engine>>

-----------------------------------------------------------------------------
(* NCmdSystemShutdown::action and Model::systemShutdown *)
RequestShutdown(c) ==
    /\ "cmd" \in refs[c] /\ stopper = "none"
    /\ stopper' = "offline"
    /\ UNCHANGED <<comVars, main, server, fpga, engine>>

Offline ==
    /\ stopper = "offline" /\ stopper' = "turnOff"
    /\ ChangeState("OFFLINE")
    /\ UNCHANGED <<serverVars, connVars, commLost, count, granted, main, server, fpga, engine>>

TurnOffAll ==
    /\ stopper = "turnOff" /\ stopper' = "sleep"
    /\ powered' = FALSE
    /\ UNCHANGED <<serverVars, connVars, commLost, current, count, granted, main, server, fpga, engine>>

StopLoop ==
    /\ stopper = "stopLoop" /\ stopper' = "engineStop"
    /\ fpga' = [fpga EXCEPT !.loop = FALSE]
    /\ UNCHANGED <<comVars, main, server, engine>>

StopEngine ==
    /\ stopper = "engineStop" /\ stopper' = "stop"
    /\ engine' = EngineStop(engine)
    /\ UNCHANGED <<comVars, main, server, fpga>>

(* ControlMain::stop *)
StopServer ==
    \/ stopper = "stop" /\ stopper' = "stopping" /\ Stop /\ UNCHANGED <<main, server, fpga, engine>>
    \/ Stopping /\ UNCHANGED lifeVars

Shutdown == Offline \/ TurnOffAll \/ StopLoop \/ StopEngine \/ StopServer

-----------------------------------------------------------------------------
MainInit ==
    /\ ServerInit /\ current = "STARTUP"
    /\ main = [at |-> "setup", polls |-> 0] /\ server = "none" /\ stopper = "none"
    /\ fpga = [loop |-> TRUE, port |-> FALSE] /\ engine = NewEngine

MainNext ==
    /\ ~Ended
    /\ \/ MainPart \/ ServerThread \/ EnginePart \/ FpgaLoop \/ Connections \/ Shutdown
       \/ WelcomeFails \/ \E c \in Conns : RequestShutdown(c)

(* The threads run, and ComConnection::shutdown goes on where it began;     *)
(* what clients do is their own affair.  Broadcasts come to an end, and    *)
(* whoever waits for _mapMtx gets it between two of them; so does the      *)
(* event thread go on to the next in its queue.  FpgaIo's loop runs while  *)
(* systemShutdown sleeps.                                                  *)
MainFairness ==
    /\ WF_mainVars(~Ended /\ MainPart) /\ WF_mainVars(~Ended /\ ServerThread)
    /\ WF_mainVars(~Ended /\ TimeoutThread /\ EnginePart) /\ SF_mainVars(~Ended /\ EventThread /\ EnginePart)
    /\ WF_mainVars(~Ended /\ Accepting /\ UNCHANGED lifeVars)
    /\ WF_mainVars(~Ended /\ Broadcasting /\ UNCHANGED lifeVars)
    /\ SF_mainVars(~Ended /\ (Shutdown \/ (stopper = "sleep" /\ FpgaLoop)))
    /\ \A c \in Conns : SF_mainVars(~Ended /\ Closing(c) /\ UNCHANGED lifeVars)

MainSpec == MainInit /\ [][MainNext]_mainVars
MainFairSpec == MainSpec /\ MainFairness

-----------------------------------------------------------------------------
MainTypeOK ==
    /\ main \in [at : {"setup", "start", "telemetry", "create", "wait", "serve", "ctrlStop", "ctrlJoin", "join",
                       "done", "failed"}, polls : 0..(MaxPolls - 1)]
    /\ server \in {"none", "created", "accepting", "running", "stopped", "done"}
    /\ stopper \in {"none", "offline", "turnOff", "sleep", "stopLoop", "engineStop", "stop", "stopping"}
    /\ fpga \in [loop : BOOLEAN, port : BOOLEAN]
    /\ engine.thread \in {"none", "run", "ended"} /\ engine.timeout \in {"none", "test", "queue", "ended"}
    /\ Len(engine.queue) <= MaxChecks + 1

(* ctrlJoin and the join of the server's thread: when main returns, which   *)
(* destroys what they use, no thread of MotionEngine or ComServer runs.    *)
ThreadsJoined ==
    main.at = "done" => engine.thread = "ended" /\ engine.timeout = "ended" /\ server = "done"

(* cmd_systemShutdown ends the program, wherever the clients are and        *)
(* whoever broadcasts; only a broadcast that destroys a connection, and so *)
(* waits for the _mapMtx it holds, keeps it from that.                     *)
ShutdownEnds == []<>(stopper = "none" \/ Ended \/ ~BroadcastNeverWaitsForItself)

(* systemShutdown, ComConnection::shutdown: when the program ends by itself *)
(* every connection has been closed and uncounted, and the Model is        *)
(* OFFLINE.  That is not so of one that was shut down before it began,     *)
(* which is counted for good, nor of one that a broadcast's thread has     *)
(* still to uncount, for which the server does not wait.                   *)
EndsOffline ==
    main.at = "done" =>
        \/ current = "OFFLINE"
        \/ \E c \in Conns : /\ active[c]
                            /\ closing[c].at = "done" \/ (bcast.at = "destroy" /\ bcast.conn = c)

(* Model.cpp: "Going to OFFLINESTATE should prevent anything from being     *)
(* turned back on during shutdown."  Once FpgaIo's loop has stopped, what   *)
(* it has written last stays.                                              *)
ShutdownStaysOff == ~fpga.loop => ~fpga.port
=============================================================================
