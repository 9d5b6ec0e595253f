---------------------------- MODULE TelemetryCom ----------------------------
(***************************************************************************)
(* system/TelemetryCom: the server that sends the telemetry to any number  *)
(* of clients and takes the telescope's elevation from them.               *)
(*                                                                         *)
(* A server thread accepts connections; each has a thread that sends every *)
(* item again and again and one that reads; the owner starts the server,   *)
(* waits for it and destroys it.  A socket is known by its connection; the *)
(* descriptor by which the threads name it may be closed several times and *)
(* given to a later connection in between, for which the table of open     *)
(* files is part of the model.  shutdown and close of servConnHShutdown    *)
(* are one step, so are the reading of an item and its setting, and the    *)
(* test of a loop is part of the step before it or after it.               *)
(***************************************************************************)
EXTENDS TelemetryItems, Sequences, FiniteSets

CONSTANTS
    Conns,       \* the connections, each of which is made once
    Items,       \* the items of the TelemetryMap that are looked at
    Values,      \* what an elevation may be
    Inputs,      \* the kinds of messages of clients
    Speakers,    \* those of clients that send, as the telescope's control does
    MaxSaid,     \* bound on the number of messages of clients
    AcceptMayFail

ASSUME TelemetryAssumption ==
    /\ {"tel_elevation", "inclinometerAngleTma"} \subseteq Items /\ Items \subseteq DOMAIN ItemDefs
    /\ Values \subseteq Nat /\ MaxSaid \in Nat /\ AcceptMayFail \in BOOLEAN
    /\ Speakers \subseteq Conns /\ Inputs \subseteq {"good", "partial", "resized", "illTyped", "ignored"}

VARIABLES
    owner,    \* the thread that owns the server, and its place in _handlerThreads
    server,   \* the server thread, and its place in _handlerThreads
    flags,    \* _acceptLoop, _serverRunning, _shutdownComCalled
    handlers, \* _handlerThreads
    conn,     \* the members and the two threads of each ServerConnectionHandler
    fds,      \* the table of open files: of which connection each is the socket
    shut,     \* the sockets that are shut down
    items,    \* the values of the items
    peer,     \* the client of each connection
    out, in,  \* what is under way to the client and from it
    copy,     \* the TelemetryMap of each client
    said,     \* the number of messages of clients so far
    alive     \* FALSE when an exception or an access out of bounds ended it all

threadVars == <<owner, server, flags>>
connVars   == <<handlers, conn>>
fileVars   == <<fds, shut>>
clientVars == <<peer, out, in, copy, said>>
tcVars == <<threadVars, connVars, fileVars, items, clientVars, alive>>

None == "none"
Fds  == 1..Cardinality(Conns)
Nobody == [id |-> None]

NoHandler ==
    [sock |-> 0, connLoop |-> FALSE, handler |-> "none", todo |-> {},
     reader |-> "none", file |-> None, angle |-> Default]

NewHandler(sock) ==
    [NoHandler EXCEPT !.sock = sock, !.connLoop = TRUE, !.handler = "loop", !.reader = "call"]

LowestFree == CHOOSE fd \in Fds : fds[fd] = None /\ \A x \in 1..(fd - 1) : fds[x] # None

File(c)     == fds[conn[c].sock]
CloseOf(c)  == fds' = [fds EXCEPT ![conn[c].sock] = None]

(* servConnHShutdown, of whatever socket the descriptor now is *)
ShutSocket(c) ==
    /\ shut' = shut \cup ({File(c)} \ {None})
    /\ CloseOf(c)

-----------------------------------------------------------------------------
(* startServer and waitForServerRunning *)
StartServer ==
    /\ owner.at = "start"
    /\ owner' = [owner EXCEPT !.at = "wait"]
    /\ server' = [server EXCEPT !.at = "start"]
    /\ UNCHANGED <<flags, connVars, fileVars, items, clientVars, alive>>

WaitForServerRunning ==
    /\ owner.at = "wait" /\ flags.serverRunning
    /\ owner' = [owner EXCEPT !.at = "serve"]
    /\ UNCHANGED <<server, flags, connVars, fileVars, items, clientVars, alive>>

(* _server *)
ServerListens ==
    /\ server.at = "start"
    /\ server' = [server EXCEPT !.at = IF flags.shutdownCalled THEN "ended" ELSE "accept"]
    /\ flags' = [flags EXCEPT !.serverRunning = ~flags.shutdownCalled]
    /\ UNCHANGED <<owner, connVars, fileVars, items, clientVars, alive>>

(* socket, setsockopt, bind or listen fails: nothing catches what is thrown. *)
ListenFails ==
    /\ server.at = "start" /\ ~flags.shutdownCalled
    /\ alive' = FALSE
    /\ UNCHANGED <<threadVars, connVars, fileVars, items, clientVars>>

(* The loop again. *)
ServerLoop == [at |-> IF flags.acceptLoop THEN "accept" ELSE "ended", place |-> 0]

(* A connection that is accepted after the loop was ended is left open. *)
Accept(c) ==
    /\ server.at = "accept" /\ peer[c] = "backlog"
    /\ peer' = [peer EXCEPT ![c] = "open"]
    /\ fds' = [fds EXCEPT ![LowestFree] = c]
    /\ IF flags.acceptLoop
       THEN /\ conn' = [conn EXCEPT ![c] = NewHandler(LowestFree)]
            /\ handlers' = Append(handlers, c)
            /\ server' = [at |-> "sweep", place |-> 1]
       ELSE /\ server' = ServerLoop
            /\ UNCHANGED connVars
    /\ UNCHANGED <<owner, flags, shut, items, out, in, copy, said, alive>>

(* Mutant: shutdownCom makes no connection. *)
AcceptOwn_NotMade ==
    /\ server.at = "accept" /\ owner.at = "joinServer" /\ server' = server
    /\ UNCHANGED <<owner, flags, connVars, fileVars, items, clientVars, alive>>

(* The connection that shutdownCom has made. *)
AcceptOwn ==
    /\ server.at = "accept" /\ owner.at = "joinServer"
    /\ server' = ServerLoop
    /\ UNCHANGED <<owner, flags, connVars, fileVars, items, clientVars, alive>>

(* One accept that fails ends the loop. *)
AcceptFails ==
    /\ AcceptMayFail /\ server.at = "accept"
    /\ server' = [server EXCEPT !.at = "ended"]
    /\ flags' = [flags EXCEPT !.acceptLoop = FALSE]
    /\ UNCHANGED <<owner, connVars, fileVars, items, clientVars, alive>>

(* checkJoinAll: a thread that is ready is joined at once. *)
JoinsHandler(c) == conn[c].handler = "ended"

(* Mutant: the reader is not waited for. *)
JoinsBoth_HandlerOnly(c) == JoinsHandler(c)

JoinsBoth(c) == JoinsHandler(c) /\ conn[c].reader = "ended"

(* One handler of _handlerThreads.  The iterator already points to the     *)
(* next place when a handler is erased: what moves there is not looked at, *)
(* and beyond the last it has nothing to point to.                         *)
Sweep ==
    /\ server.at = "sweep"
    /\ LET k == server.place
           left == IF JoinsBoth(handlers[k])
                   THEN SubSeq(handlers, 1, k - 1) \o SubSeq(handlers, k + 1, Len(handlers))
                   ELSE handlers
       IN  /\ handlers' = left
           /\ server' = IF k < Len(left) THEN [server EXCEPT !.place = k + 1] ELSE ServerLoop
           /\ alive' = (k <= Len(left))
    /\ UNCHANGED <<owner, flags, conn, fileVars, items, clientVars>>

-----------------------------------------------------------------------------
(* _servConnHandler *)

(* Mutant: the inclinometer is not to be sent either. *)
Sent_NotFromTma == {item \in Items : ~DoNotSend(item) /\ item # "inclinometerAngleTma"}

Sent == {item \in Items : ~DoNotSend(item)}

(* The items that are left of the loop over the map; it begins again while  *)
(* _connLoop.                                                              *)
ToSend(c) ==
    IF conn[c].handler = "send" THEN conn[c].todo
    ELSE IF conn[c].handler = "loop" /\ conn[c].connLoop THEN Sent ELSE {}

(* getJson and send of the next: what is sent to a client that has gone     *)
(* may still be taken.                                                     *)
Send(c) ==
    /\ ToSend(c) # {} /\ File(c) \notin shut \cup {None}
    /\ \E item \in ToSend(c) :
        /\ IF peer[File(c)] = "gone" THEN UNCHANGED out
           ELSE /\ out[File(c)] = <<>>
                /\ out' = [out EXCEPT ![File(c)] = <<Json(item, items[item])>>]
        /\ LET left == ToSend(c) \ {item} IN
            conn' = [conn EXCEPT ![c].todo = left, ![c].handler = IF left = {} THEN "loop" ELSE "send"]
    /\ UNCHANGED <<threadVars, handlers, fileVars, items, peer, in, copy, said, alive>>

SendFails(c) ==
    /\ ToSend(c) # {}
    /\ File(c) \notin shut \cup {None} => peer[File(c)] = "gone"
    /\ conn' = [conn EXCEPT ![c] = [@ EXCEPT !.handler = "close", !.connLoop = FALSE, !.todo = {}]]
    /\ ShutSocket(c)
    /\ UNCHANGED <<threadVars, handlers, items, clientVars, alive>>

HandlerEnds(c) ==
    /\ conn[c].handler = "close" \/ (conn[c].handler = "loop" /\ ~conn[c].connLoop)
    /\ conn' = [conn EXCEPT ![c].handler = "ended"]
    /\ CloseOf(c)
    /\ UNCHANGED <<threadVars, handlers, shut, items, clientVars, alive>>

-----------------------------------------------------------------------------
(* _servConnReader *)
ReaderLoop(h) == IF h.connLoop THEN "call" ELSE "close"

(* read holds on to the socket that the descriptor names as it is called. *)
CallRead(c) ==
    /\ conn[c].reader = "call"
    /\ conn' = IF File(c) = None THEN [conn EXCEPT ![c].reader = "close"]
               ELSE [conn EXCEPT ![c].reader = "read", ![c].file = File(c)]
    /\ UNCHANGED <<threadVars, handlers, fileVars, items, clientVars, alive>>

ReadFails(c) ==
    /\ conn[c].reader = "read" /\ in[conn[c].file] = <<>>
    /\ conn[c].file \in shut \/ peer[conn[c].file] = "gone"
    /\ conn' = [conn EXCEPT ![c].reader = "ended", ![c].file = None]
    /\ CloseOf(c)
    /\ UNCHANGED <<threadVars, handlers, shut, items, clientVars, alive>>

(* A whole message and setItemFromJsonStr.  Nothing catches what a wrong    *)
(* type throws; one that is no item's, or does not parse, is passed over;  *)
(* only an elevation of which everything could be set goes on.             *)
ReadMessage(c) ==
    LET js == in[conn[c].file][1] IN
    /\ conn[c].reader = "read" /\ in[conn[c].file] # <<>>
    /\ in' = [in EXCEPT ![conn[c].file] = <<>>]
    /\ items' = IF js # Nobody /\ js.typed THEN SetItem(items, js) ELSE items
    /\ conn' = [conn EXCEPT ![c] = [@ EXCEPT !.file = None,
            !.reader = IF js # Nobody /\ SetOk(js) /\ js.id = "tel_elevation" THEN "angle" ELSE ReaderLoop(conn[c])]]
    /\ alive' = (js # Nobody => js.typed)
    /\ UNCHANGED <<threadVars, handlers, fileVars, peer, out, copy, said>>

(* The angle is read back from the item, which another reader may have set. *)
GetAngle(c) ==
    /\ conn[c].reader = "angle"
    /\ conn' = [conn EXCEPT ![c].reader = "incline", ![c].angle = items["tel_elevation"]["actualPosition"]]
    /\ UNCHANGED <<threadVars, handlers, fileVars, items, clientVars, alive>>

SetInclinometer(c) ==
    /\ conn[c].reader = "incline"
    /\ items' = [items EXCEPT !["inclinometerAngleTma"]["inclinometer"] = conn[c].angle]
    /\ conn' = [conn EXCEPT ![c] = [@ EXCEPT !.reader = ReaderLoop(conn[c]), !.angle = Default]]
    /\ UNCHANGED <<threadVars, handlers, fileVars, clientVars, alive>>

ReaderEnds(c) ==
    /\ conn[c].reader = "close"
    /\ conn' = [conn EXCEPT ![c].reader = "ended"]
    /\ CloseOf(c)
    /\ UNCHANGED <<threadVars, handlers, shut, items, clientVars, alive>>

-----------------------------------------------------------------------------
(* shutdownCom and the destructor.  When _clientConnect fails, nothing but  *)
(* a client or an accept that fails brings the server thread to its end,   *)
(* and the join waits for that.                                            *)
ShutdownCom ==
    /\ owner.at = "serve"
    /\ \E at \in {"joinServer", "joinAlone"} : owner' = [owner EXCEPT !.at = at]
    /\ flags' = [flags EXCEPT !.acceptLoop = FALSE, !.shutdownCalled = TRUE]
    /\ UNCHANGED <<server, connVars, fileVars, items, clientVars, alive>>

JoinServer ==
    /\ owner.at \in {"joinServer", "joinAlone"} /\ server.at = "ended"
    /\ owner' = [at |-> "shut", place |-> 1]
    /\ UNCHANGED <<server, flags, connVars, fileVars, items, clientVars, alive>>

ShutHandler ==
    /\ owner.at \in {"shut", "destroy"} /\ owner.place <= Len(handlers)
    /\ LET c == handlers[owner.place] IN
        /\ ShutSocket(c)
        /\ conn' = [conn EXCEPT ![c].connLoop = FALSE]
    /\ owner' = IF owner.at = "shut" THEN [owner EXCEPT !.place = owner.place + 1]
                ELSE [owner EXCEPT !.at = "join"]
    /\ UNCHANGED <<server, flags, handlers, items, clientVars, alive>>

Joinable(c) == conn[c].handler = "ended" /\ conn[c].reader = "ended"

JoinAll ==
    /\ owner.at = "join"
    /\ Joinable(handlers[owner.place])
    /\ owner' = [at |-> "destroy", place |-> owner.place + 1]
    /\ UNCHANGED <<server, flags, connVars, fileVars, items, clientVars, alive>>

AllDone ==
    /\ owner.at \in {"shut", "destroy"} /\ owner.place > Len(handlers)
    /\ owner' = IF owner.at = "shut" THEN [at |-> "destroy", place |-> 1] ELSE [at |-> "done", place |-> 0]
    /\ UNCHANGED <<server, flags, connVars, fileVars, items, clientVars, alive>>

-----------------------------------------------------------------------------
(* The clients: TelemetryCom::client, and ones that also send. *)
Connect(c) ==
    /\ peer[c] = "none" /\ server.at \in {"accept", "sweep"}
    /\ peer' = [peer EXCEPT ![c] = "backlog"]
    /\ UNCHANGED <<threadVars, connVars, fileVars, items, out, in, copy, said, alive>>

Elevation(v) == Json("tel_elevation", [actualPosition |-> v, compName |-> Default])

Messages ==
    LET E == {Elevation(v) : v \in Values} IN
    UNION {IF "good" \in Inputs THEN E ELSE {},
           IF "partial" \in Inputs THEN {Without(js, e) : js \in E, e \in Elements("tel_elevation")} ELSE {},
           IF "resized" \in Inputs THEN {Resized(js) : js \in E} ELSE {},
           IF "illTyped" \in Inputs THEN {IllTyped(js) : js \in E} ELSE {},
           IF "ignored" \in Inputs THEN {Nobody} ELSE {}}

Say(c) ==
    /\ c \in Speakers /\ peer[c] = "open" /\ in[c] = <<>> /\ said < MaxSaid
    /\ \E js \in Messages : in' = [in EXCEPT ![c] = <<js>>]
    /\ said' = said + 1
    /\ UNCHANGED <<threadVars, connVars, fileVars, items, peer, out, copy, alive>>

Receive(c) ==
    /\ peer[c] = "open" /\ out[c] # <<>>
    /\ copy' = [copy EXCEPT ![c] = SetItem(copy[c], out[c][1])]
    /\ out' = [out EXCEPT ![c] = <<>>]
    /\ UNCHANGED <<threadVars, connVars, fileVars, items, peer, in, said, alive>>

Goes(c) ==
    /\ peer' = [peer EXCEPT ![c] = "gone"]
    /\ out' = [out EXCEPT ![c] = <<>>]
    /\ copy' = [copy EXCEPT ![c] = NewMap(Items)]
    /\ UNCHANGED <<threadVars, connVars, fileVars, items, in, said, alive>>

Leave(c) == peer[c] = "open" /\ Goes(c)

(* A socket is closed when no descriptor and no call of read refers to it. *)
Closed(c) == c \notin {fds[fd] : fd \in Fds} \cup {conn[x].file : x \in Conns}

EndOfFile(c) ==
    /\ \/ peer[c] = "backlog" /\ server.at = "ended"
       \/ peer[c] = "open" /\ out[c] = <<>> /\ (c \in shut \/ Closed(c) \/ owner.at = "done")
    /\ Goes(c)

-----------------------------------------------------------------------------
Init ==
    /\ owner = [at |-> "start", place |-> 0] /\ server = [at |-> "none", place |-> 0]
    /\ flags = [acceptLoop |-> TRUE, serverRunning |-> FALSE, shutdownCalled |-> FALSE]
    /\ handlers = <<>> /\ conn = [c \in Conns |-> NoHandler]
    /\ fds = [fd \in Fds |-> None] /\ shut = {}
    /\ items = NewMap(Items)
    /\ peer = [c \in Conns |-> "none"] /\ out = [c \in Conns |-> <<>>] /\ in = [c \in Conns |-> <<>>]
    /\ copy = [c \in Conns |-> NewMap(Items)] /\ said = 0
    /\ alive = TRUE

Server     == ServerListens \/ (\E c \in Conns : Accept(c)) \/ AcceptOwn \/ Sweep
Handler(c) == Send(c) \/ SendFails(c) \/ HandlerEnds(c)
Reader(c)  == CallRead(c) \/ ReadFails(c) \/ ReadMessage(c) \/ GetAngle(c) \/ SetInclinometer(c) \/ ReaderEnds(c)
Owner      == StartServer \/ WaitForServerRunning \/ JoinServer \/ ShutHandler \/ JoinAll \/ AllDone
Client(c)  == Connect(c) \/ Say(c) \/ Receive(c) \/ Leave(c) \/ EndOfFile(c)

Next ==
    /\ alive
    /\ \/ Server \/ ListenFails \/ AcceptFails \/ Owner \/ ShutdownCom
       \/ \E c \in Conns : Handler(c) \/ Reader(c) \/ Client(c)

(* Threads run, and a client reads what it is sent. *)
Fairness ==
    /\ WF_tcVars(alive /\ Server) /\ WF_tcVars(alive /\ Owner)
    /\ \A c \in Conns : /\ WF_tcVars(alive /\ Handler(c)) /\ WF_tcVars(alive /\ Reader(c))
                        /\ WF_tcVars(alive /\ (Receive(c) \/ EndOfFile(c)))

Spec     == Init /\ [][Next]_tcVars
FairSpec == Spec /\ Fairness

-----------------------------------------------------------------------------
TypeOK ==
    /\ owner \in [at : {"start", "wait", "serve", "joinServer", "joinAlone", "shut", "destroy", "join", "done"}, place : Nat]
    /\ server \in [at : {"none", "start", "accept", "sweep", "ended"}, place : Nat]
    /\ flags \in [acceptLoop : BOOLEAN, serverRunning : BOOLEAN, shutdownCalled : BOOLEAN]
    /\ handlers \in Seq(Conns)
    /\ \A c \in Conns :
        /\ conn[c].handler \in {"none", "loop", "send", "close", "ended"}
        /\ conn[c].reader \in {"none", "call", "read", "angle", "incline", "close", "ended"}
        /\ IF conn[c].handler = "none" THEN conn[c] = NoHandler ELSE conn[c].sock \in Fds
        /\ conn[c].file \in Conns \cup {None}
        /\ conn[c].todo \subseteq Sent
    /\ fds \in [Fds -> Conns \cup {None}] /\ shut \subseteq Conns
    /\ items \in [Items -> UNION {[Elements(item) -> Values \cup {Default}] : item \in Items}]
    /\ peer \in [Conns -> {"none", "backlog", "open", "gone"}]
    /\ said \in 0..MaxSaid /\ alive \in BOOLEAN

(* checkJoinAll, joinAll: a ServerConnectionHandler is only let go of when *)
(* both of its threads have come to their ends.                            *)
DroppedWhenJoined ==
    \A c \in Conns :
        conn[c].handler # "none" /\ (owner.at = "done" \/ \A k \in DOMAIN handlers : handlers[k] # c) =>
            conn[c].handler = "ended" /\ conn[c].reader = "ended"

(* A read that nothing can end but the client: the descriptor was closed   *)
(* by the thread of another connection, so that servConnHShutdown cannot.  *)
Stranded(c) ==
    /\ conn[c].reader = "read"
    /\ conn[c].file \notin shut \cup {fds[fd] : fd \in Fds}
    /\ peer[conn[c].file] = "open"

(* ~TelemetryCom: once its connection to the server is made, the owner gets *)
(* past the joins, whatever the clients do, unless a reader is stranded.   *)
StopEnds ==
    owner.at = "joinServer" ~> (owner.at = "done" \/ ~alive \/ \E c \in Conns : Stranded(c))

(* _servConnHandler: a client that stays connected, and whose descriptor   *)
(* is still its own, has in the end what the server has of all items that  *)
(* are not kept from it.                                                   *)
Served(c) ==
    /\ alive /\ owner.at = "serve" /\ peer[c] = "open"
    /\ conn[c].connLoop /\ File(c) = c
Telemetry(map) == [item \in {x \in Items : ~DoNotSend(x)} |-> map[item]]
ClientsFollow == \A c \in Conns : []<>(Served(c) => CompareMaps(Telemetry(copy[c]), Telemetry(items)))

(* "This class is used to handle a unique client connection": the threads  *)
(* of two handlers never have the same socket.                             *)
UniqueConnection ==
    \A c, d \in Conns :
        c # d /\ ToSend(c) # {} /\ ToSend(d) # {} => File(c) # File(d) \/ File(c) = None
=============================================================================
