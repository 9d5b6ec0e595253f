------------------------------ MODULE ComServer ------------------------------
(***************************************************************************)
(* The server's connections: ComServer and ComConnection, what they report *)
(* to Globals and FaultMgr, and what that does to the Model and the power. *)
(*                                                                         *)
(* A connection lives as long as someone holds a shared pointer to it: the *)
(* accept handler, a pending read or write, a command, a broadcast or      *)
(* ComServer::shutdown.  Whoever drops the last one runs the destructor,   *)
(* and thereby ComConnection::shutdown.  The map has weak pointers only.   *)
(*                                                                         *)
(* Steps are cut at the locks: ComServer::_mapMtx is held over several     *)
(* steps by a broadcast alone, and the count that is taken under it is     *)
(* reported to FaultMgr after it.  The state that a power command is given *)
(* to is looked up under the Model's lock and used without it.             *)
(*                                                                         *)
(* `powered` is whether any target is ON.  A connection may have as many   *)
(* commands running as it likes; "cmd" in refs stands for all of them.     *)
(***************************************************************************)
EXTENDS Integers, FiniteSets, StateMap

CONSTANT
    Conns        \* connections that may exist at the same time

ASSUME ConnsAssumption == IsFiniteSet(Conns)

VARIABLES
    connections, \* _connections
    refs,        \* who holds each connection
    shut,        \* ComConnection::_shutdown
    active,      \* ComConnection::_connectionActive
    closing,     \* how far ComConnection::shutdown of each is
    accept,      \* the accept handler, of which there is one at a time
    bcast,       \* asyncWriteToAllComConn
    stopping,    \* ComServer::shutdown and destroy
    count,       \* Globals::_tcpIpConnectedCount
    commLost,    \* FaultMgr::_commConnectionFault
    current,     \* the Model's state
    granted,     \* those whose commands have looked up a state that does as told
    powered      \* whether power is wanted

serverVars == <<connections, accept, bcast, stopping>>
connVars   == <<refs, shut, active, closing>>
modelVars  == <<current, powered>>
comVars == <<serverVars, connVars, modelVars, commLost, count, granted>>

-----------------------------------------------------------------------------
ChangeState(new) ==
    /\ current' = NextState(current, new, TRUE)
    /\ powered' = (powered /\ ~(Enters(current, new, TRUE) /\ EntryTurnsOff(new)))

GoToSafeMode ==
    /\ current' = NextState(current, SafeTarget(current, "STANDBY"), TRUE)
    /\ powered' = FALSE

(* Mutant: a count that falls is not looked at. *)
SetTcpIpConnected_OnlyRising(n) ==
    /\ count' = count + n
    /\ IF count <= 0 /\ count' > 0 THEN ChangeState("STANDBY") ELSE UNCHANGED modelVars

(* Globals::setTcpIpConnected, all of it under its lock. *)
SetTcpIpConnected(n) ==
    /\ count' = count + n
    /\ IF count' <= 0 THEN ChangeState("OFFLINE")
       ELSE IF count <= 0 THEN ChangeState("STANDBY")
       ELSE UNCHANGED modelVars

(* FaultMgr::reportComConnectionCount: what is done depends on the fault as *)
(* it is then, not on the count that was reported.  (The fault's bit in the *)
(* summary is FaultMgr's, and changes nothing here.)                       *)
ReportCount(n) == commLost' = (n < 1)
ReportActs == IF commLost THEN GoToSafeMode ELSE UNCHANGED modelVars

-----------------------------------------------------------------------------
MapFree == bcast.at = "idle"

Exists(c) == refs[c] # {}

(* Mutant: a connection that has not begun is not shut down. *)
Shut_OnlyWhenActive(c) ==
    /\ shut' = [shut EXCEPT ![c] = TRUE]
    /\ closing' = IF shut[c] THEN closing
                  ELSE [closing EXCEPT ![c].at = IF active[c] THEN "count" ELSE "done"]

(* ComConnection::shutdown begins, once in the life of a connection. *)
Shut(c) ==
    /\ shut' = [shut EXCEPT ![c] = TRUE]
    /\ closing' = IF shut[c] THEN closing ELSE [closing EXCEPT ![c].at = "count"]

(* Mutant: the destructor leaves the connection to others. *)
Release_NoShutdown(c, holder, new) ==
    /\ refs' = [refs EXCEPT ![c] = (@ \ {holder}) \cup new]
    /\ UNCHANGED <<shut, closing>>

(* A holder lets go of c, for `new` ones; the last one destroys it. *)
Release(c, holder, new) ==
    /\ refs' = [refs EXCEPT ![c] = (@ \ {holder}) \cup new]
    /\ IF refs'[c] = {} THEN Shut(c) ELSE UNCHANGED <<shut, closing>>

(* The destructor is done and the connection's memory is free. *)
Gone(c) == ~Exists(c) /\ closing[c].at = "done"

(* ComConnection::shutdown tells Globals, ... *)
CloseCount(c) ==
    /\ closing[c].at = "count"
    /\ closing' = [closing EXCEPT ![c].at = "erase"]
    /\ active' = [active EXCEPT ![c] = FALSE]
    /\ IF active[c] THEN SetTcpIpConnected(-1) ELSE UNCHANGED <<count, modelVars>>
    /\ UNCHANGED <<serverVars, refs, shut, commLost, granted>>

(* eraseConnection: the map under its lock, ... *)
EraseConnection(c) ==
    /\ connections' = connections \ {c}
    /\ closing' = [closing EXCEPT ![c] =
           IF c \in connections THEN [at |-> "flag", n |-> Cardinality(connections')]
           ELSE [at |-> "done", n |-> 0]]

CloseErase(c) ==
    /\ closing[c].at = "erase" /\ MapFree
    /\ EraseConnection(c)
    /\ UNCHANGED <<accept, bcast, stopping, refs, shut, active, commLost, modelVars, count, granted>>

(* ... and then the report to FaultMgr. *)
CloseFlag(c) ==
    /\ closing[c].at = "flag"
    /\ ReportCount(closing[c].n)
    /\ closing' = [closing EXCEPT ![c].at = "act"]
    /\ UNCHANGED <<serverVars, refs, shut, active, modelVars, count, granted>>

CloseAct(c) ==
    /\ closing[c].at = "act"
    /\ ReportActs
    /\ closing' = [closing EXCEPT ![c] = [at |-> "done", n |-> 0]]
    /\ UNCHANGED <<serverVars, refs, shut, active, commLost, count, granted>>

-----------------------------------------------------------------------------
(* The accept handler.  A failed accept is registered and reported as well. *)
NoAccept(at) == [at |-> at, conn |-> "none", n |-> 0, ok |-> FALSE]

HandleAccept(c) ==
    /\ accept.at = "listen" /\ stopping.at # "destroyed"
    /\ Gone(c)
    /\ IF stopping.at # "no"
       THEN accept' = NoAccept("ended") /\ UNCHANGED <<connections, connVars>>
       ELSE /\ MapFree
            /\ connections' = connections \cup {c}
            /\ \E ok \in BOOLEAN :
                  accept' = [at |-> "flag", conn |-> c, n |-> Cardinality(connections'), ok |-> ok]
            /\ refs' = [refs EXCEPT ![c] = {"accept"}]
            /\ shut' = [shut EXCEPT ![c] = FALSE]
            /\ active' = [active EXCEPT ![c] = FALSE]
            /\ closing' = [closing EXCEPT ![c] = [at |-> "no", n |-> 0]]
    /\ UNCHANGED <<bcast, stopping, commLost, modelVars, count, granted>>

AcceptFlag ==
    /\ accept.at = "flag"
    /\ ReportCount(accept.n)
    /\ accept' = [accept EXCEPT !.at = "act"]
    /\ UNCHANGED <<connections, bcast, stopping, connVars, modelVars, count, granted>>

AcceptAct ==
    /\ accept.at = "act"
    /\ ReportActs
    /\ accept' = [accept EXCEPT !.at = IF accept.ok THEN "begin" ELSE "leave"]
    /\ UNCHANGED <<connections, bcast, stopping, connVars, commLost, count, granted>>

(* beginProtocol *)
BeginProtocol ==
    /\ accept.at = "begin"
    /\ active' = [active EXCEPT ![accept.conn] = TRUE]
    /\ accept' = [accept EXCEPT !.at = "count"]
    /\ UNCHANGED <<connections, bcast, stopping, refs, shut, closing, commLost, modelVars, count, granted>>

(* ComServer's own thread ends with the program if the welcome message that *)
(* follows cannot be written: WelcomeFails of ControlMain.                 *)
BeginCounts ==
    /\ accept.at = "count"
    /\ SetTcpIpConnected(1)
    /\ accept' = [accept EXCEPT !.at = "leave"]
    /\ UNCHANGED <<connections, bcast, stopping, connVars, commLost, granted>>

(* _receiveCommand, unless it was shut down meanwhile; the handler ends    *)
(* and the next connection is waited for.                                  *)
Leave ==
    /\ accept.at = "leave"
    /\ Release(accept.conn, "accept", IF accept.ok /\ ~shut[accept.conn] THEN {"read"} ELSE {})
    /\ accept' = NoAccept(IF stopping.at = "no" THEN "listen" ELSE "ended")
    /\ UNCHANGED <<connections, bcast, stopping, active, commLost, modelVars, count, granted>>

-----------------------------------------------------------------------------
(* The handlers of a connection. *)
IoRuns(c, holder) == holder \in refs[c] /\ stopping.at # "destroyed"

(* The client closed the connection, or reading failed. *)
ReadFails(c) ==
    /\ IoRuns(c, "read")
    /\ Release(c, "read", {})
    /\ UNCHANGED <<serverVars, active, commLost, modelVars, count, granted>>

(* _readCommand: the acknowledgement is sent, the command's thread started. *)
ReadCommand(c) ==
    /\ IoRuns(c, "read")
    /\ Release(c, "read", {"ack", "cmd"})
    /\ UNCHANGED <<serverVars, active, commLost, modelVars, count, granted>>

NextRead(c) == IF shut[c] THEN {} ELSE {"read"}

(* _responseSent: the next command is read, if the write went well. *)
ResponseSent(c) ==
    /\ IoRuns(c, "ack")
    /\ \E next \in {NextRead(c), {}} : Release(c, "ack", next)
    /\ UNCHANGED <<serverVars, active, commLost, modelVars, count, granted>>

(* _asyncWriteSent *)
WriteSent(c) ==
    /\ IoRuns(c, "write")
    /\ Release(c, "write", {})
    /\ UNCHANGED <<serverVars, active, commLost, modelVars, count, granted>>

(* NCmdPower::action looks up the Model's current state, under its lock, *)
LookUp(c) ==
    /\ "cmd" \in refs[c] /\ current = "STANDBY"
    /\ granted' = granted \cup {c}
    /\ UNCHANGED <<serverVars, connVars, commLost, modelVars, count>>

(* and has that state turn power on or off, whatever the state is by then. *)
(* FaultMgr refuses power without a connection, and turns off instead; it  *)
(* is asked with the subsystem's lock held, which to turn off takes too.   *)
Power(c) ==
    /\ c \in granted
    /\ powered' \in {powered, FALSE} \cup (IF commLost THEN {} ELSE {TRUE})
    /\ UNCHANGED <<serverVars, connVars, commLost, current, count, granted>>

(* A command writes its response and ends; there may be more. *)
CommandEnds(c) ==
    /\ "cmd" \in refs[c]
    /\ \E more \in {{}, {"cmd"}} :
          /\ bcast.by = c => more # {}
          /\ Release(c, "cmd", {"write"} \cup more)
          /\ granted' = IF more = {} THEN granted \ {c} ELSE granted
    /\ UNCHANGED <<serverVars, active, commLost, modelVars, count>>

-----------------------------------------------------------------------------
(* asyncWriteToAllComConn, by a command or by the event thread that reports *)
(* a change of power, holds _mapMtx.                                       *)
Broadcasters == Conns \cup {"event"}

NoBroadcast == [at |-> "idle", by |-> "none", conn |-> "none", left |-> {}]

Broadcast(b) ==
    /\ MapFree /\ (b \in Conns => "cmd" \in refs[b])
    /\ bcast' = [at |-> "next", by |-> b, conn |-> "none", left |-> connections]
    /\ UNCHANGED <<connections, accept, stopping, connVars, commLost, modelVars, count, granted>>

(* The pointer to c is taken, if there still is a c, and its write begun.  *)
BroadcastWrite(c) ==
    /\ bcast.at = "next" /\ c \in bcast.left
    /\ IF Exists(c)
       THEN /\ bcast' = [bcast EXCEPT !.at = "wrote", !.conn = c, !.left = @ \ {c}]
            /\ refs' = [refs EXCEPT ![c] = @ \cup {"bcast", "write"}]
       ELSE bcast' = [bcast EXCEPT !.left = @ \ {c}] /\ UNCHANGED refs
    /\ UNCHANGED <<connections, accept, stopping, shut, active, closing, commLost, modelVars, count, granted>>

(* The pointer goes out of scope, with _mapMtx still held.  If that was the *)
(* last one, the destructor must end first, which it cannot: a connection  *)
(* that is in the map is erased from it under that lock.                   *)
BroadcastDrop ==
    /\ bcast.at = "wrote"
    /\ Release(bcast.conn, "bcast", {})
    /\ bcast' = IF refs'[bcast.conn] # {} THEN [bcast EXCEPT !.at = "next", !.conn = "none"]
                ELSE [bcast EXCEPT !.at = "destroy"]
    /\ UNCHANGED <<connections, accept, stopping, active, commLost, modelVars, count, granted>>

BroadcastEnds ==
    /\ bcast.at = "next" /\ bcast.left = {}
    /\ bcast' = NoBroadcast
    /\ UNCHANGED <<connections, accept, stopping, connVars, commLost, modelVars, count, granted>>

-----------------------------------------------------------------------------
(* ComServer::shutdown takes the connections there are and shuts each. *)
Stop ==
    /\ stopping.at = "no"
    /\ stopping' = [at |-> "list", conn |-> "none", left |-> {}]
    /\ UNCHANGED <<connections, accept, bcast, connVars, commLost, modelVars, count, granted>>

StopList ==
    /\ stopping.at = "list" /\ MapFree
    /\ stopping' = [stopping EXCEPT !.at = "next", !.left = connections]
    /\ UNCHANGED <<connections, accept, bcast, connVars, commLost, modelVars, count, granted>>

StopConnection(c) ==
    /\ stopping.at = "next" /\ c \in stopping.left
    /\ IF Exists(c)
       THEN /\ stopping' = [at |-> "close", conn |-> c, left |-> stopping.left \ {c}]
            /\ refs' = [refs EXCEPT ![c] = @ \cup {"stop"}]
            /\ Shut(c)
       ELSE stopping' = [stopping EXCEPT !.left = @ \ {c}] /\ UNCHANGED <<refs, shut, closing>>
    /\ UNCHANGED <<connections, accept, bcast, active, commLost, modelVars, count, granted>>

StopClosed ==
    /\ stopping.at = "close" /\ closing[stopping.conn].at = "done"
    /\ Release(stopping.conn, "stop", {})
    /\ stopping' = [stopping EXCEPT !.at = "next", !.conn = "none"]
    /\ UNCHANGED <<connections, accept, bcast, active, commLost, modelVars, count, granted>>

(* destroy: the io_context stops, no handler is called any more. *)
Destroy ==
    /\ stopping.at = "next" /\ stopping.left = {}
    /\ stopping' = [stopping EXCEPT !.at = "destroyed"]
    /\ UNCHANGED <<connections, accept, bcast, connVars, commLost, modelVars, count, granted>>

-----------------------------------------------------------------------------
ServerInit ==
    /\ connections = {} /\ accept = NoAccept("listen") /\ bcast = NoBroadcast
    /\ stopping = [at |-> "no", conn |-> "none", left |-> {}]
    /\ refs = [c \in Conns |-> {}] /\ shut = [c \in Conns |-> TRUE]
    /\ active = [c \in Conns |-> FALSE]
    /\ closing = [c \in Conns |-> [at |-> "done", n |-> 0]]
    /\ count = 0 /\ commLost = TRUE
    /\ granted = {} /\ powered = FALSE

(* The Model is in STANDBY before the server runs. *)
ComInit == ServerInit /\ current = "STANDBY"

Closing(c)   == CloseCount(c) \/ CloseErase(c) \/ CloseFlag(c) \/ CloseAct(c)
Accepting    == AcceptFlag \/ AcceptAct \/ BeginProtocol \/ BeginCounts \/ Leave
Broadcasting == \/ \E c \in Conns : BroadcastWrite(c)
                \/ BroadcastDrop \/ BroadcastEnds
Stopping     == \/ StopList \/ StopClosed \/ Destroy
                \/ \E c \in Conns : StopConnection(c)

ComNext ==
    \/ \E c \in Conns : HandleAccept(c) \/ Closing(c) \/ ReadFails(c) \/ ReadCommand(c)
                        \/ ResponseSent(c) \/ WriteSent(c) \/ LookUp(c) \/ Power(c) \/ CommandEnds(c)
    \/ \E b \in Broadcasters : Broadcast(b)
    \/ Accepting \/ Broadcasting \/ Stop \/ Stopping

ComSpec == ComInit /\ [][ComNext]_comVars

-----------------------------------------------------------------------------
Holders == {"accept", "read", "ack", "write", "cmd", "bcast", "stop"}
ConnOrNone == Conns \cup {"none"}

ComTypeOK ==
    /\ connections \subseteq Conns
    /\ refs \in [Conns -> SUBSET Holders]
    /\ shut \in [Conns -> BOOLEAN] /\ active \in [Conns -> BOOLEAN]
    /\ closing \in [Conns -> [at : {"no", "count", "erase", "flag", "act", "done"}, n : Nat]]
    /\ accept \in [at : {"listen", "flag", "act", "begin", "count", "leave", "ended"},
                   conn : ConnOrNone, n : Nat, ok : BOOLEAN]
    /\ bcast \in [at : {"idle", "next", "wrote", "destroy"}, by : Broadcasters \cup {"none"},
                  conn : ConnOrNone, left : SUBSET Conns]
    /\ stopping \in [at : {"no", "list", "next", "close", "destroyed"}, conn : ConnOrNone,
                     left : SUBSET Conns]
    /\ count \in (-1)..Cardinality(Conns) /\ commLost \in BOOLEAN
    /\ current \in {"STANDBY", "OFFLINE"} /\ powered \in BOOLEAN
    /\ granted \subseteq {c \in Conns : "cmd" \in refs[c]}

(* ~ComConnection: a registered connection is one that exists, or whose    *)
(* destructor has yet to erase it; no dead pointer stays in the map and in *)
(* the counts that are reported.                                           *)
RegisteredExists ==
    \A c \in connections : Exists(c) \/ closing[c].at \in {"count", "erase"}

(* setTcpIpConnected: while the server runs, the count that keeps the      *)
(* Model online is of connections that exist or are about to be uncounted, *)
(* whatever order they begin and close in.                                 *)
CountsLiveClients ==
    stopping.at = "no" =>
        /\ count = Cardinality({c \in Conns : active[c]}) - (IF accept.at = "count" THEN 1 ELSE 0)
        /\ \A c \in Conns : active[c] => Exists(c) \/ closing[c].at = "count"

(* NCmdPower::action: while the server runs, power is wanted only while a   *)
(* client is counted and the Model is not OFFLINE, although a command uses *)
(* the state it has looked up before.  A command holds its connection, so  *)
(* that Globals cannot take the Model OFFLINE in between; those that can   *)
(* are ComServer::shutdown, which closes connections whose commands run,   *)
(* and Model::systemShutdown before it (ShutdownStaysOff of ControlMain).  *)
PowerNeedsClient ==
    stopping.at = "no" /\ powered => count > 0 /\ current # "OFFLINE"

(* reportComConnectionCount: when every report is done, the connection     *)
(* fault is there exactly if there is no connection.                       *)
FaultMatchesConnections ==
    (accept.at = "listen" /\ \A c \in Conns : closing[c].at \in {"no", "done"})
        => (commLost <=> connections = {})

(* asyncWriteToAllComConn: the broadcast, which holds _mapMtx, does not    *)
(* itself run a destructor that goes on to lock _mapMtx for the erase.     *)
BroadcastNeverWaitsForItself ==
    ~(bcast.at = "destroy" /\ closing[bcast.conn].at = "erase")
=============================================================================
