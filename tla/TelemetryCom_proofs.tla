---------------------------- MODULE TelemetryCom_proofs ----------------------------
(***************************************************************************)
(* What holds of TelemetryCom for any finite number of connections and any *)
(* items, whatever its clients send and however they come and go.          *)
(***************************************************************************)
EXTENDS TelemetryCom, SequenceTheorems, TLAPS

(* The shape of the handlers; what they hold is of no concern here. *)
Fields == DOMAIN NoHandler
Shapes ==
    /\ handlers \in Seq(Conns)
    /\ DOMAIN conn = Conns /\ \A c \in Conns : DOMAIN conn[c] = Fields
    /\ owner \in [at : {"start", "wait", "serve", "joinServer", "joinAlone", "shut", "destroy", "join", "done"}, place : Nat]
    /\ server \in [at : {"none", "start", "accept", "sweep", "ended"}, place : Nat]

(* The sweep is at a handler there is, as long as the program lives, and so *)
(* is the owner that joins one.                                            *)
SweepsWithin == alive /\ server.at = "sweep" => server.place \in 1..Len(handlers)
OwnerWithin ==
    /\ owner.at \in {"shut", "destroy", "join"} => owner.place >= 1
    /\ owner.at = "join" => owner.place <= Len(handlers)

(* A handler that is not in the list, or that the owner has passed, is over. *)
Over(c) == conn[c].handler = "ended" /\ conn[c].reader = "ended"
Listed(c) == \E k \in DOMAIN handlers : handlers[k] = c
OverWhenDropped == \A c \in Conns : conn[c].handler # "none" /\ ~Listed(c) => Over(c)
OverWhenPassed ==
    /\ owner.at \in {"destroy", "join"} => \A k \in DOMAIN handlers : k < owner.place => Over(handlers[k])
    /\ owner.at = "done" => \A k \in DOMAIN handlers : Over(handlers[k])

(* The owner begins with the handlers when the server thread has ended. *)
ServerEndsFirst == owner.at \in {"shut", "destroy", "join", "done"} => server.at = "ended"

IInv == Shapes /\ SweepsWithin /\ OwnerWithin /\ OverWhenDropped /\ OverWhenPassed /\ ServerEndsFirst

-----------------------------------------------------------------------------
(* A sequence from which one place is taken has what was at the others. *)
LEMMA OneTaken ==
  ASSUME NEW S, NEW s \in Seq(S), NEW k \in 1..Len(s)
  PROVE  LET left == SubSeq(s, 1, k - 1) \o SubSeq(s, k + 1, Len(s))
         IN  /\ left \in Seq(S) /\ Len(left) = Len(s) - 1
             /\ \A j \in 1..Len(s) : j # k => \E i \in 1..Len(left) : left[i] = s[j]
  <1> DEFINE a == SubSeq(s, 1, k - 1)
             b == SubSeq(s, k + 1, Len(s))
             left == a \o b
  <1>1. a \in Seq(S) /\ Len(a) = k - 1 /\ \A i \in 1..(k - 1) : a[i] = s[i]
    OBVIOUS
  <1>2. b \in Seq(S) /\ Len(b) = Len(s) - k /\ \A i \in 1..(Len(s) - k) : b[i] = s[i + k]
    OBVIOUS
  <1> HIDE DEF a, b
  <1>3. /\ left \in Seq(S) /\ Len(left) = Len(s) - 1
        /\ \A i \in 1..(Len(s) - 1) : left[i] = IF i < k THEN a[i] ELSE b[i - (k - 1)]
    <2>1. Len(a) \in Nat /\ Len(b) \in Nat /\ Len(s) \in Nat /\ k \in Nat
      BY <1>1, <1>2
    <2>2. /\ left \in Seq(S) /\ Len(left) = Len(a) + Len(b)
          /\ \A i \in 1..(Len(a) + Len(b)) : left[i] = IF i <= Len(a) THEN a[i] ELSE b[i - Len(a)]
      BY <1>1, <1>2, ConcatProperties
    <2> HIDE DEF left
    <2>3. Len(a) + Len(b) = Len(s) - 1 /\ Len(a) = k - 1
      BY <1>1, <1>2, <2>1
    <2>4. ASSUME NEW i \in 1..(Len(s) - 1) PROVE left[i] = IF i < k THEN a[i] ELSE b[i - (k - 1)]
      <3>1. i \in Nat /\ (i <= k - 1 <=> i < k)
        BY <2>1
      <3>2. left[i] = IF i <= k - 1 THEN a[i] ELSE b[i - (k - 1)]
        BY <2>2, <2>3
      <3>3. QED
        BY <3>1, <3>2
    <2>5. QED
      BY <2>2, <2>3, <2>4
  <1>4. ASSUME NEW j \in 1..Len(s), j # k PROVE \E i \in 1..Len(left) : left[i] = s[j]
    <2>1. CASE j < k
      <3>1. j \in 1..(Len(s) - 1) /\ j \in 1..(k - 1)
        BY <2>1
      <3>2. left[j] = s[j]
        BY <1>1, <1>3, <2>1, <3>1
      <3>3. QED
        BY <1>3, <3>1, <3>2
    <2>2. CASE j > k
      <3>1. /\ j - 1 \in 1..(Len(s) - 1) /\ ~(j - 1 < k) /\ j - k \in 1..(Len(s) - k)
            /\ (j - 1) - (k - 1) = j - k /\ (j - k) + k = j
        BY <2>2
      <3>2. left[j - 1] = s[j]
        BY <1>2, <1>3, <3>1
      <3>3. QED
        BY <1>3, <3>1, <3>2
    <2>3. QED
      BY <1>4, <2>1, <2>2
  <1>5. QED
    BY <1>3, <1>4 DEF a, b

-----------------------------------------------------------------------------
(* What the threads of the handlers and the owner do to them: none comes    *)
(* into being, and none that is over goes on.                              *)
ConnStep ==
    /\ DOMAIN conn' = Conns
    /\ \A c \in Conns : /\ DOMAIN conn'[c] = Fields
                        /\ conn'[c].handler # "none" => conn[c].handler # "none"
                        /\ Over(c) => Over(c)'

(* A step of one handler's threads. *)
Only(c) ==
    /\ DOMAIN conn' = Conns /\ DOMAIN conn'[c] = Fields
    /\ \A d \in Conns : d # c => conn'[d] = conn[d]

LEMMA OnlyIs ==
  ASSUME Shapes, NEW c \in Conns, Only(c),
         conn'[c].handler # "none" => conn[c].handler # "none",
         Over(c) => conn'[c].handler = "ended" /\ conn'[c].reader = "ended"
  PROVE  ConnStep
  BY DEF Shapes, Only, ConnStep, Over

LEMMA HandlerSteps ==
  ASSUME Shapes, NEW c \in Conns, Handler(c)
  PROVE  ConnStep /\ UNCHANGED <<owner, server, handlers>>
  <1>f. Fields = {"sock", "connLoop", "handler", "todo", "reader", "file", "angle"}
    BY DEF Fields, NoHandler
  <1>a. DOMAIN conn = Conns /\ \A d \in Conns : DOMAIN conn[d] = Fields
    BY DEF Shapes
  <1>b. UNCHANGED <<owner, server, handlers>>
    BY DEF Handler, Send, SendFails, HandlerEnds, threadVars
  <1>c. conn[c].handler \in {"send", "loop", "close"}
    BY DEF Handler, Send, SendFails, HandlerEnds, ToSend
  <1>1. CASE Send(c)
    <2>1. PICK left : conn' = [conn EXCEPT ![c].todo = left, ![c].handler = IF left = {} THEN "loop" ELSE "send"]
      <3>1. PICK item \in ToSend(c) : LET left == ToSend(c) \ {item} IN
               conn' = [conn EXCEPT ![c].todo = left, ![c].handler = IF left = {} THEN "loop" ELSE "send"]
        BY <1>1 DEF Send
      <3>2. QED
        BY <3>1
    <2>2. Only(c)
      BY <1>f, <1>a, <2>1 DEF Only
    <2>3. QED
      BY <1>b, <1>c, <2>2, OnlyIs DEF Over
  <1>2. CASE SendFails(c)
    <2>1. conn' = [conn EXCEPT ![c] = [@ EXCEPT !.handler = "close", !.connLoop = FALSE, !.todo = {}]]
      BY <1>2 DEF SendFails
    <2>2. Only(c)
      BY <1>f, <1>a, <2>1 DEF Only
    <2>3. QED
      BY <1>b, <1>c, <2>2, OnlyIs DEF Over
  <1>3. CASE HandlerEnds(c)
    <2>1. conn' = [conn EXCEPT ![c].handler = "ended"]
      BY <1>3 DEF HandlerEnds
    <2>2. Only(c)
      BY <1>f, <1>a, <2>1 DEF Only
    <2>3. QED
      BY <1>b, <1>c, <2>2, OnlyIs DEF Over
  <1>4. QED
    BY <1>1, <1>2, <1>3 DEF Handler

LEMMA ReaderSteps ==
  ASSUME Shapes, NEW c \in Conns, Reader(c)
  PROVE  ConnStep /\ UNCHANGED <<owner, server, handlers>>
  <1>f. Fields = {"sock", "connLoop", "handler", "todo", "reader", "file", "angle"}
    BY DEF Fields, NoHandler
  <1>a. DOMAIN conn = Conns /\ \A d \in Conns : DOMAIN conn[d] = Fields
    BY DEF Shapes
  <1>1. UNCHANGED <<owner, server, handlers>> /\ conn[c].reader # "ended"
    BY DEF Reader, CallRead, ReadFails, ReadMessage, GetAngle, SetInclinometer, ReaderEnds, threadVars
  <1>2. Only(c) /\ conn'[c].handler = conn[c].handler
    <2>1. CASE CallRead(c)
      <3>1. CASE File(c) = None
        <4>1. conn' = [conn EXCEPT ![c].reader = "close"]
          BY <2>1, <3>1 DEF CallRead
        <4>2. QED
          BY <1>f, <1>a, <4>1 DEF Only
      <3>2. CASE File(c) # None
        <4>1. conn' = [conn EXCEPT ![c].reader = "read", ![c].file = File(c)]
          BY <2>1, <3>2 DEF CallRead
        <4>2. QED
          BY <1>f, <1>a, <4>1 DEF Only
      <3>3. QED
        BY <3>1, <3>2
    <2>2. CASE ReadFails(c)
      <3>1. conn' = [conn EXCEPT ![c].reader = "ended", ![c].file = None]
        BY <2>2 DEF ReadFails
      <3>2. QED
        BY <1>f, <1>a, <3>1 DEF Only
    <2>3. CASE ReadMessage(c)
      <3>1. PICK at : conn' = [conn EXCEPT ![c] = [@ EXCEPT !.file = None, !.reader = at]]
        BY <2>3 DEF ReadMessage
      <3>2. QED
        BY <1>f, <1>a, <3>1 DEF Only
    <2>4. CASE GetAngle(c)
      <3>1. conn' = [conn EXCEPT ![c].reader = "incline", ![c].angle = items["tel_elevation"]["actualPosition"]]
        BY <2>4 DEF GetAngle
      <3>2. QED
        BY <1>f, <1>a, <3>1 DEF Only
    <2>5. CASE SetInclinometer(c)
      <3>1. conn' = [conn EXCEPT ![c] = [@ EXCEPT !.reader = ReaderLoop(conn[c]), !.angle = Default]]
        BY <2>5 DEF SetInclinometer
      <3>2. QED
        BY <1>f, <1>a, <3>1 DEF Only
    <2>6. CASE ReaderEnds(c)
      <3>1. conn' = [conn EXCEPT ![c].reader = "ended"]
        BY <2>6 DEF ReaderEnds
      <3>2. QED
        BY <1>f, <1>a, <3>1 DEF Only
    <2>7. QED
      BY <2>1, <2>2, <2>3, <2>4, <2>5, <2>6 DEF Reader
  <1>3. QED
    BY <1>1, <1>2, OnlyIs DEF Over

LEMMA ConnStepKeeps ==
  ASSUME IInv, alive, ConnStep, UNCHANGED <<owner, server, handlers>>
  PROVE  IInv'
  <1>1. Shapes' /\ SweepsWithin' /\ OwnerWithin' /\ ServerEndsFirst'
    BY DEF IInv, Shapes, SweepsWithin, OwnerWithin, ServerEndsFirst, ConnStep
  <1>2. \A k \in DOMAIN handlers : handlers[k] \in Conns
    BY DEF IInv, Shapes
  <1>3. OverWhenPassed'
    BY <1>2 DEF IInv, OverWhenPassed, ConnStep
  <1>4. OverWhenDropped'
    BY DEF IInv, OverWhenDropped, Listed, ConnStep
  <1>5. QED
    BY <1>1, <1>3, <1>4 DEF IInv

-----------------------------------------------------------------------------
(* The server thread, which moves only while the owner has not come to the  *)
(* handlers.                                                               *)
ServerAt == [at : {"none", "start", "accept", "sweep", "ended"}, place : Nat]
LEMMA ServerMoves ==
  ASSUME IInv, server.at # "ended", UNCHANGED <<owner, handlers, conn>>,
         server' \in ServerAt, server'.at # "sweep"
  PROVE  IInv'
  <1>1. Shapes' /\ SweepsWithin' /\ OwnerWithin' /\ ServerEndsFirst'
    BY DEF IInv, Shapes, SweepsWithin, OwnerWithin, ServerEndsFirst, ServerAt
  <1>2. OverWhenPassed' /\ OverWhenDropped'
    BY DEF IInv, OverWhenPassed, OverWhenDropped, Over, Listed
  <1>3. QED
    BY <1>1, <1>2 DEF IInv

LEMMA AcceptKeeps ==
  ASSUME IInv, NEW c \in Conns, Accept(c)
  PROVE  IInv'
  <1>a. Shapes /\ server.at = "accept" /\ UNCHANGED owner
    BY DEF IInv, Accept
  <1>1. CASE ~flags.acceptLoop
    <2>1. UNCHANGED <<handlers, conn>> /\ server' = [at |-> "ended", place |-> 0]
      BY <1>1 DEF Accept, ServerLoop, connVars
    <2>2. server' \in ServerAt /\ server'.at # "sweep"
      BY <2>1 DEF ServerAt
    <2>3. QED
      BY <1>a, <2>1, <2>2, ServerMoves
  <1>2. CASE flags.acceptLoop
    <2>1. /\ handlers' = Append(handlers, c) /\ server' = [at |-> "sweep", place |-> 1]
          /\ conn' = [conn EXCEPT ![c] = NewHandler(LowestFree)]
      BY <1>2 DEF Accept
    <2>2. DOMAIN NewHandler(LowestFree) = Fields
      BY DEF NewHandler, NoHandler, Fields
    <2>3. /\ handlers' \in Seq(Conns) /\ Len(handlers') = Len(handlers) + 1 /\ Len(handlers) \in Nat
          /\ \A k \in DOMAIN handlers : k \in DOMAIN handlers' /\ handlers'[k] = handlers[k]
          /\ Len(handlers') \in DOMAIN handlers' /\ handlers'[Len(handlers')] = c
      BY <1>a, <2>1 DEF Shapes
    <2>4. Shapes'
      BY <1>a, <2>1, <2>2, <2>3 DEF Shapes
    <2>5. owner.at \notin {"shut", "destroy", "join", "done"}
      BY <1>a DEF IInv, ServerEndsFirst
    <2>6. SweepsWithin' /\ OwnerWithin' /\ OverWhenPassed' /\ ServerEndsFirst'
      BY <1>a, <2>1, <2>3, <2>5 DEF SweepsWithin, OwnerWithin, OverWhenPassed, ServerEndsFirst
    <2>7. OverWhenDropped'
      <3>1. SUFFICES ASSUME NEW d \in Conns, conn'[d].handler # "none", ~Listed(d)'
                     PROVE  Over(d)'
        BY DEF OverWhenDropped
      <3>2. d # c /\ ~Listed(d)
        BY <2>3, <3>1 DEF Listed
      <3>3. conn'[d] = conn[d]
        BY <1>a, <2>1, <3>2 DEF Shapes
      <3>4. QED
        BY <3>1, <3>2, <3>3 DEF IInv, OverWhenDropped, Over
    <2>8. QED
      BY <2>4, <2>6, <2>7 DEF IInv
  <1>3. QED
    BY <1>1, <1>2

(* checkJoinAll: what the sweep drops is over. *)
LEMMA SweepKeeps ==
  ASSUME IInv, alive, Sweep
  PROVE  IInv'
  <1> DEFINE k == server.place
             left == IF JoinsBoth(handlers[k])
                     THEN SubSeq(handlers, 1, k - 1) \o SubSeq(handlers, k + 1, Len(handlers))
                     ELSE handlers
  <1>a. /\ Shapes /\ server.at = "sweep" /\ UNCHANGED <<owner, conn>> /\ handlers \in Seq(Conns)
        /\ k \in 1..Len(handlers) /\ Len(handlers) \in Nat
    BY DEF IInv, Shapes, SweepsWithin, Sweep
  <1>b. /\ handlers' = left /\ alive' = (k <= Len(left))
        /\ server' = IF k < Len(left) THEN [server EXCEPT !.place = k + 1] ELSE ServerLoop
    BY DEF Sweep
  <1>1. /\ left \in Seq(Conns) /\ Len(left) \in Nat
        /\ \A j \in DOMAIN handlers : Over(handlers[j]) \/ \E i \in DOMAIN left : left[i] = handlers[j]
    <2>1. CASE JoinsBoth(handlers[k])
      <3>1. left = SubSeq(handlers, 1, k - 1) \o SubSeq(handlers, k + 1, Len(handlers))
        BY <2>1
      <3> HIDE DEF left
      <3>2. /\ left \in Seq(Conns)
            /\ \A j \in 1..Len(handlers) : j # k => \E i \in 1..Len(left) : left[i] = handlers[j]
        BY <1>a, <3>1, OneTaken
      <3>3. Over(handlers[k])
        BY <2>1 DEF JoinsBoth, JoinsHandler, Over
      <3>4. QED
        BY <1>a, <3>2, <3>3
    <2>2. CASE ~JoinsBoth(handlers[k])
      BY <1>a, <2>2
    <2>3. QED
      BY <2>1, <2>2
  <1> HIDE DEF left
  <1>2. server' \in ServerAt /\ (server'.at = "sweep" => server'.place \in 1..Len(left))
    <2>1. CASE k < Len(left)
      <3>1. server' = [server EXCEPT !.place = k + 1]
        BY <1>b, <2>1
      <3>2. QED
        BY <1>a, <1>1, <2>1, <3>1 DEF Shapes, ServerAt
    <2>2. CASE ~(k < Len(left))
      BY <1>b, <2>2 DEF ServerLoop, ServerAt
    <2>3. QED
      BY <2>1, <2>2
  <1>3. owner.at \notin {"shut", "destroy", "join", "done"}
    BY <1>a DEF IInv, ServerEndsFirst
  <1>4. Shapes'
    BY <1>a, <1>b, <1>1, <1>2 DEF Shapes, ServerAt
  <1>5. SweepsWithin' /\ OwnerWithin' /\ OverWhenPassed' /\ ServerEndsFirst'
    BY <1>a, <1>b, <1>2, <1>3 DEF SweepsWithin, OwnerWithin, OverWhenPassed, ServerEndsFirst
  <1>6. OverWhenDropped'
    <2>1. SUFFICES ASSUME NEW d \in Conns, conn[d].handler # "none", ~Listed(d)'
                   PROVE  Over(d)
      BY <1>a DEF OverWhenDropped, Over
    <2>2. CASE Listed(d)
      BY <1>b, <1>1, <2>1, <2>2 DEF Listed
    <2>3. CASE ~Listed(d)
      BY <2>1, <2>3 DEF IInv, OverWhenDropped
    <2>4. QED
      BY <2>2, <2>3
  <1>7. QED
    BY <1>4, <1>5, <1>6 DEF IInv

-----------------------------------------------------------------------------
(* shutdownCom and the destructor, which joins the handlers one by one. *)
OwnerAt == [at : {"start", "wait", "serve", "joinServer", "joinAlone", "shut", "destroy", "join", "done"}, place : Nat]

LEMMA OwnerBefore ==
  ASSUME IInv, UNCHANGED <<handlers, conn>>, owner' \in OwnerAt, server' \in ServerAt,
         owner'.at \notin {"shut", "destroy", "join", "done"}, server'.at = "sweep" => UNCHANGED server,
         alive' => alive
  PROVE  IInv'
  <1>1. Shapes' /\ SweepsWithin' /\ OwnerWithin' /\ ServerEndsFirst'
    BY DEF IInv, Shapes, SweepsWithin, OwnerWithin, ServerEndsFirst, ServerAt, OwnerAt
  <1>2. OverWhenPassed' /\ OverWhenDropped'
    BY DEF IInv, OverWhenPassed, OverWhenDropped, Over, Listed
  <1>3. QED
    BY <1>1, <1>2 DEF IInv

LEMMA OwnerKeeps ==
  ASSUME IInv, Owner \/ ShutdownCom
  PROVE  IInv'
  <1>a. /\ Shapes /\ owner \in OwnerAt /\ server \in ServerAt /\ handlers \in Seq(Conns) /\ Len(handlers) \in Nat
        /\ DOMAIN handlers = 1..Len(handlers)
    BY DEF IInv, Shapes, OwnerAt, ServerAt
  <1>1. CASE StartServer
    <2>1. /\ owner' = [owner EXCEPT !.at = "wait"] /\ server' = [server EXCEPT !.at = "start"]
          /\ UNCHANGED <<handlers, conn, alive>>
      BY <1>1 DEF StartServer, connVars
    <2>2. owner' \in OwnerAt /\ owner'.at = "wait" /\ server' \in ServerAt /\ server'.at = "start"
      BY <1>a, <2>1 DEF OwnerAt, ServerAt
    <2>3. QED
      BY <2>1, <2>2, OwnerBefore
  <1>2. CASE WaitForServerRunning \/ ShutdownCom
    <2>1. PICK at \in {"serve", "joinServer", "joinAlone"} :
             owner' = [owner EXCEPT !.at = at] /\ UNCHANGED <<server, handlers, conn, alive>>
      BY <1>2 DEF WaitForServerRunning, ShutdownCom, connVars
    <2>2. owner' \in OwnerAt /\ owner'.at = at
      BY <1>a, <2>1 DEF OwnerAt
    <2>3. QED
      BY <1>a, <2>1, <2>2, OwnerBefore
  <1>3. CASE JoinServer
    <2>1. /\ owner' = [at |-> "shut", place |-> 1] /\ server.at = "ended"
          /\ UNCHANGED <<server, handlers, conn, alive>>
      BY <1>3 DEF JoinServer, connVars
    <2>2. Shapes' /\ SweepsWithin' /\ OwnerWithin' /\ ServerEndsFirst'
      BY <2>1 DEF IInv, Shapes, SweepsWithin, OwnerWithin, ServerEndsFirst
    <2>3. OverWhenPassed' /\ OverWhenDropped'
      BY <2>1 DEF IInv, OverWhenPassed, OverWhenDropped, Over, Listed
    <2>4. QED
      BY <2>2, <2>3 DEF IInv
  <1>4. CASE ShutHandler
    <2> DEFINE c == handlers[owner.place]
    <2>1. /\ owner.at \in {"shut", "destroy"} /\ owner.place \in 1..Len(handlers) /\ c \in Conns
          /\ conn' = [conn EXCEPT ![c].connLoop = FALSE] /\ UNCHANGED <<server, handlers, alive>>
          /\ server.at = "ended"
      BY <1>a, <1>4 DEF ShutHandler, IInv, OwnerWithin, ServerEndsFirst, OwnerAt
    <2>2. /\ owner' \in OwnerAt /\ owner'.place >= owner.place
          /\ \/ owner'.at = "shut"
             \/ owner'.at = "join" /\ owner.at = "destroy" /\ owner'.place = owner.place
      <3>1. CASE owner.at = "shut"
        <4>1. owner' = [owner EXCEPT !.place = owner.place + 1]
          BY <1>4, <3>1 DEF ShutHandler
        <4>2. QED
          BY <1>a, <3>1, <4>1 DEF OwnerAt
      <3>2. CASE owner.at = "destroy"
        <4>1. owner' = [owner EXCEPT !.at = "join"]
          BY <1>4, <3>2 DEF ShutHandler
        <4>2. QED
          BY <1>a, <3>2, <4>1 DEF OwnerAt
      <3>3. QED
        BY <2>1, <3>1, <3>2
    <2>3. ConnStep
      <3>1. Fields = {"sock", "connLoop", "handler", "todo", "reader", "file", "angle"}
        BY DEF Fields, NoHandler
      <3>2. DOMAIN conn = Conns /\ \A d \in Conns : DOMAIN conn[d] = Fields
        BY <1>a DEF Shapes
      <3> HIDE DEF c
      <3>3. Only(c) /\ conn'[c].handler = conn[c].handler /\ conn'[c].reader = conn[c].reader
        BY <2>1, <3>1, <3>2 DEF Only
      <3>4. QED
        BY <1>a, <2>1, <3>3, OnlyIs DEF Over
    <2>4. Shapes' /\ SweepsWithin' /\ OwnerWithin' /\ ServerEndsFirst'
      BY <1>a, <2>1, <2>2, <2>3 DEF IInv, Shapes, SweepsWithin, OwnerWithin, ServerEndsFirst, ConnStep, OwnerAt
    <2>5. \A d \in DOMAIN handlers : handlers[d] \in Conns
      BY <1>a
    <2>6. OverWhenPassed' /\ OverWhenDropped'
      BY <2>1, <2>2, <2>3, <2>5 DEF IInv, OverWhenPassed, OverWhenDropped, Listed, ConnStep
    <2>7. QED
      BY <2>4, <2>6 DEF IInv
  <1>5. CASE JoinAll
    <2>1. /\ owner.at = "join" /\ owner' = [at |-> "destroy", place |-> owner.place + 1]
          /\ Over(handlers[owner.place]) /\ UNCHANGED <<server, handlers, conn, alive>>
          /\ owner.place \in Nat
      BY <1>a, <1>5 DEF JoinAll, Joinable, Over, connVars, OwnerAt
    <2>2. Shapes' /\ SweepsWithin' /\ OwnerWithin' /\ ServerEndsFirst'
      BY <2>1 DEF IInv, Shapes, SweepsWithin, OwnerWithin, ServerEndsFirst
    <2>3. \A k \in DOMAIN handlers : k < owner.place + 1 => k < owner.place \/ k = owner.place
      BY <1>a, <2>1
    <2>4. OverWhenPassed' /\ OverWhenDropped'
      BY <2>1, <2>3 DEF IInv, OverWhenPassed, OverWhenDropped, Over, Listed
    <2>5. QED
      BY <2>2, <2>4 DEF IInv
  <1>6. CASE AllDone
    <2>1. /\ owner.at \in {"shut", "destroy"} /\ owner.place > Len(handlers) /\ owner.place \in Nat
          /\ owner' = IF owner.at = "shut" THEN [at |-> "destroy", place |-> 1] ELSE [at |-> "done", place |-> 0]
          /\ UNCHANGED <<server, handlers, conn, alive>>
      BY <1>a, <1>6 DEF AllDone, connVars, OwnerAt
    <2>2. Shapes' /\ SweepsWithin' /\ OwnerWithin' /\ ServerEndsFirst'
      BY <2>1 DEF IInv, Shapes, SweepsWithin, OwnerWithin, ServerEndsFirst
    <2>3. \A k \in DOMAIN handlers : ~(k < 1) /\ k < owner.place
      BY <1>a, <2>1
    <2>4. OverWhenPassed' /\ OverWhenDropped'
      BY <2>1, <2>3 DEF IInv, OverWhenPassed, OverWhenDropped, Over, Listed
    <2>5. QED
      BY <2>2, <2>4 DEF IInv
  <1>7. QED
    BY <1>1, <1>2, <1>3, <1>4, <1>5, <1>6 DEF Owner

-----------------------------------------------------------------------------
LEMMA InitIInv == Init => IInv
  BY DEF Init, IInv, Shapes, SweepsWithin, OwnerWithin, OverWhenDropped, OverWhenPassed, ServerEndsFirst,
     Fields, NoHandler, Listed, Over

LEMMA IInvNext == IInv /\ [Next]_tcVars => IInv'
  <1> SUFFICES ASSUME IInv, [Next]_tcVars PROVE IInv'
    OBVIOUS
  <1> USE DEF threadVars, connVars
  <1>a. Shapes /\ server \in ServerAt /\ owner \in OwnerAt
    BY DEF IInv, Shapes, ServerAt, OwnerAt
  <1>s. ASSUME UNCHANGED <<threadVars, connVars>>, alive' => alive PROVE IInv'
    <2>1. Shapes' /\ SweepsWithin' /\ OwnerWithin' /\ ServerEndsFirst'
      BY <1>s DEF IInv, Shapes, SweepsWithin, OwnerWithin, ServerEndsFirst
    <2>2. OverWhenPassed' /\ OverWhenDropped'
      BY <1>s DEF IInv, OverWhenPassed, OverWhenDropped, Over, Listed
    <2>3. QED
      BY <2>1, <2>2 DEF IInv
  <1>1. CASE alive /\ (ServerListens \/ AcceptOwn \/ AcceptFails)
    <2>1. server.at \in {"start", "accept"} /\ UNCHANGED <<owner, handlers, conn>>
      BY <1>1 DEF ServerListens, AcceptOwn, AcceptFails
    <2>2. server' \in ServerAt /\ server'.at # "sweep"
      <3>1. CASE ServerListens
        <4>1. PICK at \in {"ended", "accept"} : server' = [server EXCEPT !.at = at]
          BY <3>1 DEF ServerListens
        <4>2. QED
          BY <1>a, <4>1 DEF ServerAt
      <3>2. CASE AcceptOwn
        BY <3>2 DEF AcceptOwn, ServerLoop, ServerAt
      <3>3. CASE AcceptFails
        BY <1>a, <3>3 DEF AcceptFails, ServerAt
      <3>4. QED
        BY <1>1, <3>1, <3>2, <3>3
    <2>3. QED
      BY <2>1, <2>2, ServerMoves
  <1>2. ASSUME alive, NEW c \in Conns, Handler(c) \/ Reader(c) PROVE IInv'
    BY <1>a, <1>2, HandlerSteps, ReaderSteps, ConnStepKeeps
  <1>3. ASSUME alive, NEW c \in Conns, Client(c) PROVE IInv'
    <2>1. UNCHANGED <<threadVars, connVars>>
      BY <1>3 DEF Client, Connect, Say, Receive, Leave, EndOfFile, Goes
    <2>2. QED
      BY <1>s, <1>3, <2>1
  <1>4. CASE UNCHANGED tcVars
    BY <1>s, <1>4 DEF tcVars
  <1>l. CASE ListenFails
    BY <1>s, <1>l DEF ListenFails
  <1>5. QED
    BY <1>1, <1>2, <1>3, <1>4, <1>l, AcceptKeeps, SweepKeeps, OwnerKeeps DEF Next, Server

(* The invariant that the property of the handlers follows from. *)
THEOREM Invariance == Spec => []IInv
  BY InitIInv, IInvNext, PTL DEF Spec

(* checkJoinAll, joinAll, ~TelemetryCom: a ServerConnectionHandler is let    *)
(* go of only when both of its threads have come to their ends, whether    *)
(* the sweep drops it or the owner destroys it with the list.              *)
THEOREM HandlersJoined == Spec => []DroppedWhenJoined
  <1>1. IInv => DroppedWhenJoined
    <2>1. SUFFICES ASSUME IInv, NEW c \in Conns, conn[c].handler # "none",
                          owner.at = "done" \/ \A k \in DOMAIN handlers : handlers[k] # c
                   PROVE  Over(c)
      BY DEF DroppedWhenJoined, Over
    <2>2. CASE Listed(c)
      BY <2>1, <2>2 DEF IInv, OverWhenPassed, Listed
    <2>3. CASE ~Listed(c)
      BY <2>1, <2>3 DEF IInv, OverWhenDropped
    <2>4. QED
      BY <2>2, <2>3
  <1>2. QED
    BY <1>1, Invariance, PTL
=============================================================================
