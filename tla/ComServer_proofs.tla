---------------------------- MODULE ComServer_proofs ----------------------------
(***************************************************************************)
(* What holds of ComServer for any finite number of connections.           *)
(*                                                                         *)
(* The connections' lifetimes, the count of them, what is done for their   *)
(* clients and what all that does to the Model and the power are four      *)
(* invariants, each resting on those before it.                            *)
(***************************************************************************)
EXTENDS ComServer, FiniteSetTheorems, TLAPS

Steps     == {"no", "count", "erase", "flag", "act", "done"}
ClosingAt == [at : Steps, n : Nat]
Busy      == {"flag", "act", "begin", "count", "leave"}

ConnTypes ==
    /\ refs \in [Conns -> SUBSET Holders]
    /\ shut \in [Conns -> BOOLEAN] /\ active \in [Conns -> BOOLEAN]
    /\ closing \in [Conns -> ClosingAt]
ServerTypes ==
    /\ connections \subseteq Conns
    /\ accept \in [at : {"listen", "ended"} \cup Busy, conn : ConnOrNone, n : Nat, ok : BOOLEAN]
    /\ bcast \in [at : {"idle", "next", "wrote", "destroy"}, by : Broadcasters \cup {"none"},
                  conn : ConnOrNone, left : SUBSET Conns]
    /\ stopping \in [at : {"no", "list", "next", "close", "destroyed"}, conn : ConnOrNone,
                     left : SUBSET Conns]

(* shutdown of a connection begins with its flag, and is begun when nobody *)
(* holds the connection any more.                                          *)
ShutIsClosing == \A c \in Conns : shut[c] <=> closing[c].at # "no"
DeadIsShut    == \A c \in Conns : ~Exists(c) => shut[c]

(* The map has no connection that was erased from it. *)
RegisteredIsOpen == \A c \in connections : closing[c].at \in {"no", "count", "erase"}

(* The accept handler holds its connection; those that the broadcast and    *)
(* the shutdown of the server have at hand are connections.                *)
AcceptHolds == accept.at \in Busy => accept.conn \in Conns /\ "accept" \in refs[accept.conn]
AtHand ==
    /\ bcast.at \in {"wrote", "destroy"} => bcast.conn \in Conns
    /\ stopping.at = "close" => stopping.conn \in Conns

(* Until the server is shut down only the destructor shuts a connection. *)
OnlyDestructorsShut ==
    stopping.at = "no" =>
        \A c \in Conns : /\ Exists(c) => ~shut[c]
                         /\ active[c] => closing[c].at \in {"no", "count"}

(* A connection begins once. *)
BegunOnce == accept.at \in {"flag", "act", "begin"} => ~active[accept.conn]

Lifetimes ==
    /\ ConnTypes /\ ServerTypes /\ ShutIsClosing /\ DeadIsShut /\ RegisteredIsOpen
    /\ AcceptHolds /\ AtHand /\ OnlyDestructorsShut /\ BegunOnce

(* Globals counts the connections that are active, up to the one whose      *)
(* beginProtocol has set the flag and not yet reported it.                 *)
Active == {c \in Conns : active[c]}
Uncounted == IF accept.at = "count" THEN 1 ELSE 0
CountIsActive == count = Cardinality(Active) - Uncounted

(* What a connection does for its client begins once it is counted, and is  *)
(* done with before Globals uncounts it, as long as only destructors shut  *)
(* connections down.                                                       *)
Serving == {"read", "ack", "cmd"}
ServedIsActive ==
    stopping.at = "no" =>
        /\ \A c \in Conns : refs[c] \cap Serving # {} => active[c]
        /\ accept.at = "count" \/ (accept.at = "leave" /\ accept.ok) => active[accept.conn]
NotYetServed == accept.at \in Busy => refs[accept.conn] \cap Serving = {}
GrantedRuns  == granted \subseteq {c \in Conns : "cmd" \in refs[c]}
Served == ServedIsActive /\ NotYetServed /\ GrantedRuns

(* Power is wanted only while a client is counted. *)
ModelTypes ==
    /\ commLost \in BOOLEAN /\ powered \in BOOLEAN
    /\ current \in {"STARTUP", "STANDBY", "OFFLINE"}
CountedPower == stopping.at = "no" /\ powered => count > 0
ModelInv == ModelTypes /\ CountedPower

IInv == Lifetimes /\ CountIsActive /\ Served /\ ModelInv

-----------------------------------------------------------------------------
LEMMA FiniteConns ==
  ASSUME NEW S \in SUBSET Conns
  PROVE  IsFiniteSet(S) /\ Cardinality(S) \in Nat /\ Cardinality(S) <= Cardinality(Conns)
  BY ConnsAssumption, FS_Subset, FS_CardinalityType

(* What lets go of, or takes hold of, a connection: the destructor runs if  *)
(* it was the last, and nobody comes to hold one that is dead.             *)
HoldStep ==
    /\ refs' \in [Conns -> SUBSET Holders] /\ shut' \in [Conns -> BOOLEAN]
    /\ closing' \in [Conns -> ClosingAt]
    /\ ShutIsClosing' /\ DeadIsShut'
    /\ \A d \in Conns : /\ \/ closing'[d].at = closing[d].at
                           \/ closing[d].at = "no" /\ closing'[d].at = "count"
                        /\ Exists(d)' => Exists(d)

LEMMA ShutIs ==
  ASSUME ConnTypes, ShutIsClosing, NEW c \in Conns, Shut(c)
  PROVE  /\ shut' = [shut EXCEPT ![c] = TRUE] /\ closing' \in [Conns -> ClosingAt]
         /\ \A d \in Conns : closing'[d].at =
                IF d = c /\ closing[d].at = "no" THEN "count" ELSE closing[d].at
  <1> USE DEF ConnTypes, ShutIsClosing
  <1>1. CASE shut[c]
    BY <1>1 DEF Shut
  <1>2. CASE ~shut[c]
    <2>1. closing' = [closing EXCEPT ![c] = [closing[c] EXCEPT !.at = "count"]]
      BY <1>2 DEF Shut
    <2>2. /\ [closing[c] EXCEPT !.at = "count"] \in ClosingAt
          /\ [closing[c] EXCEPT !.at = "count"].at = "count"
      BY DEF ClosingAt, Steps
    <2>3. QED
      BY <1>2, <2>1, <2>2 DEF Shut
  <1>3. QED
    BY <1>1, <1>2

LEMMA ReleaseIs ==
  ASSUME Lifetimes, NEW c \in Conns, NEW holder \in Holders, NEW new \in SUBSET Holders,
         Release(c, holder, new), new # {} => Exists(c)
  PROVE  /\ HoldStep
         /\ \A d \in Conns : Exists(d)' /\ shut'[d] => shut[d]
         /\ refs' = [refs EXCEPT ![c] = (@ \ {holder}) \cup new]
  <1> USE DEF Lifetimes, ConnTypes
  <1>1. refs' = [refs EXCEPT ![c] = (@ \ {holder}) \cup new]
    BY DEF Release
  <1>2. /\ refs' \in [Conns -> SUBSET Holders]
        /\ \A d \in Conns : d # c => refs'[d] = refs[d]
        /\ Exists(c)' => Exists(c)
    BY <1>1 DEF Exists
  <1>3. CASE refs'[c] = {}
    <2>1. Shut(c)
      BY <1>3 DEF Release
    <2>2. /\ shut' = [shut EXCEPT ![c] = TRUE] /\ closing' \in [Conns -> ClosingAt]
          /\ \A d \in Conns : closing'[d].at =
                IF d = c /\ closing[d].at = "no" THEN "count" ELSE closing[d].at
      BY <2>1, ShutIs
    <2>3. \A d \in Conns : Exists(d)' /\ shut'[d] => shut[d]
      BY <1>3, <2>2 DEF Exists
    <2>4. ShutIsClosing' /\ DeadIsShut'
      BY <1>2, <2>2 DEF ShutIsClosing, DeadIsShut, Exists
    <2>5. \A d \in Conns : Exists(d)' => Exists(d)
      BY <1>2 DEF Exists
    <2>6. HoldStep
      BY <1>2, <2>2, <2>4, <2>5 DEF HoldStep
    <2>7. QED
      BY <1>1, <2>3, <2>6
  <1>4. CASE refs'[c] # {}
    <2>1. UNCHANGED <<shut, closing>>
      BY <1>4 DEF Release
    <2>2. QED
      BY <1>1, <1>2, <1>4, <2>1 DEF HoldStep, ShutIsClosing, DeadIsShut, Exists
  <1>5. QED
    BY <1>3, <1>4

(* Such a step keeps what is said of the map and of the destructors. *)
LEMMA HoldStepKeeps ==
  ASSUME Lifetimes, HoldStep, UNCHANGED <<connections, active>>,
         stopping'.at = "no" =>
            stopping.at = "no" /\ \A d \in Conns : Exists(d)' /\ shut'[d] => shut[d]
  PROVE  ConnTypes' /\ ShutIsClosing' /\ DeadIsShut' /\ RegisteredIsOpen' /\ OnlyDestructorsShut'
  BY DEF Lifetimes, ConnTypes, ServerTypes, HoldStep, RegisteredIsOpen, OnlyDestructorsShut, Exists

-----------------------------------------------------------------------------
(* ComConnection::shutdown advances; the flag stays and the map shrinks. *)
LEMMA ClosingIs ==
  ASSUME Lifetimes, NEW c \in Conns, Closing(c)
  PROVE  /\ UNCHANGED <<accept, bcast, stopping, refs, shut>>
         /\ closing' \in [Conns -> ClosingAt] /\ active' \in [Conns -> BOOLEAN]
         /\ closing[c].at # "no" /\ closing'[c].at # "no"
         /\ \A d \in Conns : /\ d # c => closing'[d] = closing[d]
                             /\ active'[d] => active[d] /\ (d = c => closing[c].at # "count")
         /\ connections' \subseteq connections
         /\ c \in connections' => closing'[c].at \in {"count", "erase"}
  <1> USE DEF Lifetimes, ConnTypes, ServerTypes, serverVars, connVars, modelVars
  <1>a. PICK k \in ClosingAt : closing[c] = k
    OBVIOUS
  <1>b. \A a \in Steps : LET q == [k EXCEPT !.at = a] IN q \in ClosingAt /\ q.at = a
    BY DEF ClosingAt
  <1>1. CASE CloseCount(c)
    <2>1. closing' = [closing EXCEPT ![c] = [k EXCEPT !.at = "erase"]]
      BY <1>1, <1>a DEF CloseCount
    <2>2. closing' \in [Conns -> ClosingAt] /\ closing'[c].at = "erase"
          /\ \A d \in Conns : d # c => closing'[d] = closing[d]
      BY <2>1, <1>b DEF Steps
    <2>3. QED
      BY <1>1, <2>2 DEF CloseCount, RegisteredIsOpen
  <1>2. CASE CloseErase(c)
    <2>1. Cardinality(connections') \in Nat
      BY <1>2, FiniteConns DEF CloseErase, EraseConnection
    <2>2. closing'[c] \in ClosingAt /\ closing'[c].at # "no" /\ c \notin connections'
          /\ connections' \subseteq connections
          /\ closing' = [closing EXCEPT ![c] = closing'[c]]
      BY <1>2, <2>1 DEF CloseErase, EraseConnection, ClosingAt, Steps
    <2>3. QED
      BY <1>2, <2>2 DEF CloseErase
  <1>3. CASE CloseFlag(c)
    <2>1. closing' = [closing EXCEPT ![c] = [k EXCEPT !.at = "act"]]
      BY <1>3, <1>a DEF CloseFlag
    <2>2. closing' \in [Conns -> ClosingAt] /\ closing'[c].at = "act"
          /\ \A d \in Conns : d # c => closing'[d] = closing[d]
      BY <2>1, <1>b DEF Steps
    <2>3. QED
      BY <1>3, <2>2 DEF CloseFlag, RegisteredIsOpen
  <1>4. CASE CloseAct(c)
    <2>1. [at |-> "done", n |-> 0] \in ClosingAt
      BY DEF ClosingAt, Steps
    <2>2. QED
      BY <1>4, <2>1 DEF CloseAct, RegisteredIsOpen
  <1>5. QED
    BY <1>1, <1>2, <1>3, <1>4 DEF Closing

LEMMA ClosingKeeps ==
  ASSUME Lifetimes, NEW c \in Conns, Closing(c)
  PROVE  Lifetimes'
  <1>1. ConnTypes' /\ ServerTypes'
    BY ClosingIs DEF Lifetimes, ConnTypes, ServerTypes
  <1>2. ShutIsClosing' /\ DeadIsShut' /\ RegisteredIsOpen'
    BY ClosingIs DEF Lifetimes, ServerTypes, ShutIsClosing, DeadIsShut, RegisteredIsOpen, Exists
  <1>3. AcceptHolds' /\ AtHand' /\ OnlyDestructorsShut' /\ BegunOnce'
    BY ClosingIs DEF Lifetimes, AcceptHolds, AtHand, OnlyDestructorsShut, BegunOnce, Exists, Busy
  <1>4. QED
    BY <1>1, <1>2, <1>3 DEF Lifetimes

-----------------------------------------------------------------------------
(* A new connection has the identity of one whose memory is free. *)
LEMMA HandleAcceptKeeps ==
  ASSUME Lifetimes, NEW c \in Conns, HandleAccept(c)
  PROVE  Lifetimes'
  <1> USE DEF HandleAccept, Gone, connVars
  <1>1. CASE stopping.at # "no"
    <2>a. /\ accept' = [at |-> "ended", conn |-> "none", n |-> 0, ok |-> FALSE]
          /\ UNCHANGED <<connections, connVars, bcast, stopping>>
      BY <1>1 DEF NoAccept
    <2>1. accept'.at = "ended" /\ ServerTypes'
      BY <2>a DEF Lifetimes, ServerTypes, ConnOrNone
    <2>2. QED
      BY <1>1, <2>1 DEF Lifetimes, ConnTypes, ShutIsClosing, DeadIsShut, RegisteredIsOpen, AcceptHolds,
         AtHand, OnlyDestructorsShut, BegunOnce, Exists, Busy
  <1>2. CASE stopping.at = "no"
    <2>1. /\ connections' = connections \cup {c}
          /\ refs' = [refs EXCEPT ![c] = {"accept"}] /\ shut' = [shut EXCEPT ![c] = FALSE]
          /\ active' = [active EXCEPT ![c] = FALSE]
          /\ closing' = [closing EXCEPT ![c] = [at |-> "no", n |-> 0]]
          /\ UNCHANGED <<bcast, stopping>>
      BY <1>2
    <2>2. PICK ok \in BOOLEAN :
             accept' = [at |-> "flag", conn |-> c, n |-> Cardinality(connections'), ok |-> ok]
      BY <1>2
    <2>3. Cardinality(connections') \in Nat /\ connections' \subseteq Conns
      BY <2>1, FiniteConns DEF Lifetimes, ServerTypes
    <2>4. accept'.at = "flag" /\ accept'.conn = c /\ ServerTypes'
      BY <2>1, <2>2, <2>3 DEF Lifetimes, ServerTypes, ConnOrNone, Busy
    <2>5. ConnTypes'
      BY <2>1 DEF Lifetimes, ConnTypes, Holders, ClosingAt, Steps
    <2>a. /\ Exists(c)' /\ ~shut'[c] /\ closing'[c].at = "no"
          /\ \A d \in Conns : d # c => /\ Exists(d)' = Exists(d) /\ shut'[d] = shut[d]
                                       /\ closing'[d] = closing[d]
      BY <2>1 DEF Lifetimes, ConnTypes, Exists
    <2>6. ShutIsClosing' /\ DeadIsShut' /\ RegisteredIsOpen'
      BY <2>1, <2>a DEF Lifetimes, ServerTypes, ShutIsClosing, DeadIsShut, RegisteredIsOpen
    <2>7. AcceptHolds' /\ AtHand' /\ OnlyDestructorsShut' /\ BegunOnce'
      BY <2>1, <2>4 DEF Lifetimes, ConnTypes, AcceptHolds, AtHand, OnlyDestructorsShut, BegunOnce, Exists
    <2>8. QED
      BY <2>4, <2>5, <2>6, <2>7 DEF Lifetimes
  <1>3. QED
    BY <1>1, <1>2

(* The rest of the accept handler changes no lifetime until it ends. *)
LEMMA AcceptingIs ==
  ASSUME Lifetimes, AcceptFlag \/ AcceptAct \/ BeginProtocol \/ BeginCounts
  PROVE  /\ UNCHANGED <<connections, bcast, stopping, refs, shut, closing>>
         /\ accept.at \in Busy /\ accept'.at \in Busy /\ ServerTypes'
         /\ accept'.conn = accept.conn /\ accept'.ok = accept.ok
         /\ \/ UNCHANGED active /\ (accept'.at \in {"flag", "act", "begin"} =>
                                         accept.at \in {"flag", "act", "begin"})
            \/ BeginProtocol /\ accept'.at = "count"
  <1> USE DEF connVars
  <1>1. PICK at \in {"act", "begin", "leave", "count"} : accept' = [accept EXCEPT !.at = at]
    BY DEF AcceptFlag, AcceptAct, BeginProtocol, BeginCounts
  <1>2. /\ accept' \in [at : {"listen", "ended"} \cup Busy, conn : ConnOrNone, n : Nat, ok : BOOLEAN]
        /\ accept'.at = at /\ accept'.conn = accept.conn /\ accept'.ok = accept.ok
    BY <1>1 DEF Lifetimes, ServerTypes, Busy
  <1>3. UNCHANGED <<connections, bcast, stopping, refs, shut, closing>>
    BY DEF AcceptFlag, AcceptAct, BeginProtocol, BeginCounts
  <1>4. ServerTypes'
    BY <1>2, <1>3 DEF Lifetimes, ServerTypes
  <1>5. CASE AcceptFlag
    BY <1>1, <1>2, <1>3, <1>4, <1>5 DEF AcceptFlag, Busy
  <1>6. CASE AcceptAct
    BY <1>1, <1>2, <1>3, <1>4, <1>6 DEF AcceptAct, Busy
  <1>7. CASE BeginProtocol
    <2>1. accept'.at = "count" /\ accept.at = "begin"
      BY <1>7 DEF BeginProtocol, Lifetimes, ServerTypes
    <2>2. QED
      BY <1>2, <1>3, <1>4, <1>7, <2>1 DEF Busy
  <1>8. CASE BeginCounts
    <2>1. accept'.at = "leave" /\ accept.at = "count"
      BY <1>8 DEF BeginCounts, Lifetimes, ServerTypes
    <2>2. QED
      BY <1>2, <1>3, <1>4, <1>8, <2>1 DEF BeginCounts, Busy
  <1>9. QED
    BY <1>5, <1>6, <1>7, <1>8

LEMMA AcceptingKeeps ==
  ASSUME Lifetimes, AcceptFlag \/ AcceptAct \/ BeginProtocol \/ BeginCounts
  PROVE  Lifetimes'
  <1>1. /\ UNCHANGED <<connections, bcast, stopping, refs, shut, closing>> /\ ServerTypes'
        /\ AcceptHolds' /\ accept.conn \in Conns /\ Exists(accept.conn)
    BY AcceptingIs DEF Lifetimes, AcceptHolds, Exists
  <1>2. ConnTypes' /\ BegunOnce' /\ OnlyDestructorsShut'
    <2>1. CASE UNCHANGED active /\ (accept'.at \in {"flag", "act", "begin"} =>
                                       accept.at \in {"flag", "act", "begin"})
      BY <1>1, <2>1, AcceptingIs DEF Lifetimes, ConnTypes, BegunOnce, OnlyDestructorsShut, Exists
    <2>2. CASE BeginProtocol /\ accept'.at = "count"
      <3>1. active' = [active EXCEPT ![accept.conn] = TRUE]
        BY <2>2 DEF BeginProtocol
      <3>2. QED
        BY <1>1, <2>2, <3>1 DEF Lifetimes, ConnTypes, BegunOnce, OnlyDestructorsShut, Exists, ShutIsClosing
    <2>3. QED
      BY <2>1, <2>2, AcceptingIs
  <1>3. ShutIsClosing' /\ DeadIsShut' /\ RegisteredIsOpen' /\ AtHand'
    BY <1>1 DEF Lifetimes, ShutIsClosing, DeadIsShut, RegisteredIsOpen, AtHand, Exists
  <1>4. QED
    BY <1>1, <1>2, <1>3 DEF Lifetimes

LEMMA LeaveKeeps ==
  ASSUME Lifetimes, Leave
  PROVE  Lifetimes'
  <1> DEFINE new == IF accept.ok /\ ~shut[accept.conn] THEN {"read"} ELSE {}
  <1>1. accept.conn \in Conns /\ Exists(accept.conn)
    BY DEF Leave, Lifetimes, AcceptHolds, Busy, Exists
  <1>2. /\ Release(accept.conn, "accept", new) /\ UNCHANGED <<connections, bcast, stopping, active>>
        /\ accept' = NoAccept(IF stopping.at = "no" THEN "listen" ELSE "ended")
    BY DEF Leave
  <1>3. HoldStep /\ \A d \in Conns : Exists(d)' /\ shut'[d] => shut[d]
    <2>1. new \in SUBSET Holders /\ "accept" \in Holders
      BY DEF Holders
    <2> HIDE DEF new
    <2>2. QED
      BY <1>1, <1>2, <2>1, ReleaseIs
  <1>4. ConnTypes' /\ ShutIsClosing' /\ DeadIsShut' /\ RegisteredIsOpen' /\ OnlyDestructorsShut'
    BY <1>2, <1>3, HoldStepKeeps
  <1>5. ServerTypes' /\ accept'.at \in {"listen", "ended"}
    BY <1>2 DEF Lifetimes, ServerTypes, NoAccept, ConnOrNone
  <1>6. AcceptHolds' /\ AtHand' /\ BegunOnce'
    BY <1>2, <1>5 DEF Lifetimes, AcceptHolds, AtHand, BegunOnce, Busy
  <1>7. QED
    BY <1>4, <1>5, <1>6 DEF Lifetimes

-----------------------------------------------------------------------------
(* A holder other than the accept handler lets go. *)
LEMMA ReleaseKeeps ==
  ASSUME Lifetimes, NEW c \in Conns, NEW holder \in Holders \ {"accept"}, NEW new \in SUBSET Holders,
         Release(c, holder, new), new # {} => Exists(c),
         UNCHANGED <<connections, accept, active>>, ServerTypes', AtHand',
         stopping'.at = "no" => stopping.at = "no"
  PROVE  Lifetimes'
  <1>1. /\ HoldStep /\ \A d \in Conns : Exists(d)' /\ shut'[d] => shut[d]
        /\ refs' = [refs EXCEPT ![c] = (@ \ {holder}) \cup new]
    BY ReleaseIs
  <1>2. ConnTypes' /\ ShutIsClosing' /\ DeadIsShut' /\ RegisteredIsOpen' /\ OnlyDestructorsShut'
    BY <1>1, HoldStepKeeps
  <1>3. AcceptHolds' /\ BegunOnce'
    BY <1>1 DEF Lifetimes, ConnTypes, AcceptHolds, BegunOnce
  <1>4. QED
    BY <1>2, <1>3 DEF Lifetimes

(* A step that only adds holders to a connection that exists, or none. *)
LEMMA HeldKeeps ==
  ASSUME Lifetimes, NEW c \in Conns, Exists(c), NEW more \in SUBSET Holders,
         refs' = [refs EXCEPT ![c] = @ \cup more],
         UNCHANGED <<connections, accept, stopping, shut, active, closing>>, ServerTypes', AtHand'
  PROVE  Lifetimes'
  <1>1. /\ ConnTypes'
        /\ \A d \in Conns : refs[d] \subseteq refs'[d] /\ (Exists(d)' <=> Exists(d))
    BY DEF Lifetimes, ConnTypes, Exists
  <1>2. ShutIsClosing' /\ DeadIsShut' /\ RegisteredIsOpen' /\ OnlyDestructorsShut'
    BY <1>1 DEF Lifetimes, ShutIsClosing, DeadIsShut, RegisteredIsOpen, OnlyDestructorsShut
  <1>3. AcceptHolds' /\ BegunOnce'
    BY <1>1 DEF Lifetimes, AcceptHolds, BegunOnce
  <1>4. QED
    BY <1>1, <1>2, <1>3 DEF Lifetimes

LEMMA SameConnections ==
  ASSUME Lifetimes, UNCHANGED <<connections, accept, refs, shut, active, closing>>,
         ServerTypes', AtHand', stopping'.at = "no" => stopping.at = "no"
  PROVE  Lifetimes'
  BY DEF Lifetimes, ConnTypes, ShutIsClosing, DeadIsShut, RegisteredIsOpen, AcceptHolds,
     OnlyDestructorsShut, BegunOnce, Exists

(* The handlers of a connection and the end of its command. *)
Serves(c) == ReadFails(c) \/ ReadCommand(c) \/ ResponseSent(c) \/ WriteSent(c) \/ CommandEnds(c)

LEMMA ServesIs ==
  ASSUME NEW c \in Conns, Serves(c)
  PROVE  /\ UNCHANGED <<serverVars, active, commLost, modelVars, count>>
         /\ \E holder \in Holders \ {"accept"}, new \in SUBSET Holders :
               /\ Release(c, holder, new) /\ Exists(c)
               /\ new \cap Serving # {} => holder \in refs[c] \cap Serving
               /\ \/ granted' = granted /\ (holder = "cmd" => "cmd" \in new)
                  \/ granted' = granted \ {c}
  <1>1. CASE ReadFails(c)
    BY <1>1 DEF ReadFails, IoRuns, Exists, Holders, Serving
  <1>2. CASE ReadCommand(c)
    BY <1>2 DEF ReadCommand, IoRuns, Exists, Holders, Serving
  <1>3. CASE ResponseSent(c)
    BY <1>3 DEF ResponseSent, IoRuns, Exists, Holders, Serving, NextRead
  <1>4. CASE WriteSent(c)
    BY <1>4 DEF WriteSent, IoRuns, Exists, Holders, Serving
  <1>5. CASE CommandEnds(c)
    <2>1. PICK more \in {{}, {"cmd"}} :
             /\ Release(c, "cmd", {"write"} \cup more)
             /\ granted' = IF more = {} THEN granted \ {c} ELSE granted
      BY <1>5 DEF CommandEnds
    <2>2. /\ "cmd" \in refs[c] /\ {"write"} \cup more \in SUBSET Holders /\ "cmd" \in Holders \ {"accept"}
          /\ more # {} => "cmd" \in {"write"} \cup more
      BY <1>5 DEF CommandEnds, Holders
    <2>3. /\ UNCHANGED <<serverVars, active, commLost, modelVars, count>> /\ Exists(c)
          /\ "cmd" \in refs[c] \cap Serving
      BY <1>5, <2>2 DEF CommandEnds, Exists, Serving
    <2>4. QED
      BY <2>1, <2>2, <2>3
  <1>6. QED
    BY <1>1, <1>2, <1>3, <1>4, <1>5 DEF Serves

LEMMA ServesKeeps ==
  ASSUME Lifetimes, NEW c \in Conns, Serves(c)
  PROVE  Lifetimes'
  <1>1. UNCHANGED <<connections, accept, bcast, stopping, active>>
    BY ServesIs DEF serverVars
  <1>2. ServerTypes' /\ AtHand'
    BY <1>1 DEF Lifetimes, ServerTypes, AtHand
  <1>3. PICK holder \in Holders \ {"accept"}, new \in SUBSET Holders : Release(c, holder, new) /\ Exists(c)
    BY ServesIs
  <1>4. QED
    BY <1>1, <1>2, <1>3, ReleaseKeeps

-----------------------------------------------------------------------------
(* The broadcast and the shutdown of the server. *)
LEMMA BroadcastingKeeps ==
  ASSUME Lifetimes, Broadcasting \/ \E b \in Broadcasters : Broadcast(b)
  PROVE  Lifetimes'
  <1> USE DEF connVars
  <1>1. ASSUME NEW b \in Broadcasters, Broadcast(b) PROVE Lifetimes'
    <2>1. ServerTypes' /\ AtHand'
      BY <1>1 DEF Broadcast, Lifetimes, ServerTypes, AtHand, ConnOrNone
    <2>2. QED
      BY <1>1, <2>1, SameConnections DEF Broadcast
  <1>2. ASSUME NEW c \in Conns, BroadcastWrite(c) PROVE Lifetimes'
    <2>1. ServerTypes' /\ AtHand'
      <3>1. CASE Exists(c)
        <4>1. bcast' = [bcast EXCEPT !.at = "wrote", !.conn = c, !.left = @ \ {c}]
          BY <1>2, <3>1 DEF BroadcastWrite
        <4>2. bcast'.conn = c /\ bcast' \in [at : {"idle", "next", "wrote", "destroy"},
                                              by : Broadcasters \cup {"none"}, conn : ConnOrNone, left : SUBSET Conns]
          BY <4>1 DEF Lifetimes, ServerTypes, ConnOrNone
        <4>3. QED
          BY <1>2, <4>2 DEF BroadcastWrite, Lifetimes, ServerTypes, AtHand
      <3>2. CASE ~Exists(c)
        BY <1>2, <3>2 DEF BroadcastWrite, Lifetimes, ServerTypes, AtHand
      <3>3. QED
        BY <3>1, <3>2
    <2>2. CASE Exists(c)
      BY <1>2, <2>1, <2>2, HeldKeeps DEF BroadcastWrite, Holders
    <2>3. CASE ~Exists(c)
      BY <1>2, <2>1, <2>3, SameConnections DEF BroadcastWrite
    <2>4. QED
      BY <2>2, <2>3
  <1>3. CASE BroadcastDrop
    <2>1. bcast.conn \in Conns /\ Release(bcast.conn, "bcast", {})
      BY <1>3 DEF BroadcastDrop, Lifetimes, AtHand
    <2>2. ServerTypes' /\ AtHand'
      BY <1>3, <2>1 DEF BroadcastDrop, Lifetimes, ServerTypes, AtHand, ConnOrNone
    <2>3. QED
      BY <1>3, <2>1, <2>2, ReleaseKeeps DEF BroadcastDrop, Holders
  <1>4. CASE BroadcastEnds
    <2>1. ServerTypes' /\ AtHand'
      BY <1>4 DEF BroadcastEnds, NoBroadcast, Lifetimes, ServerTypes, AtHand, ConnOrNone
    <2>2. QED
      BY <1>4, <2>1, SameConnections DEF BroadcastEnds
  <1>5. QED
    BY <1>1, <1>2, <1>3, <1>4 DEF Broadcasting

LEMMA StoppingKeeps ==
  ASSUME Lifetimes, Stop \/ Stopping
  PROVE  Lifetimes'
  <1> USE DEF connVars
  <1>1. CASE Stop
    <2>1. ServerTypes' /\ AtHand' /\ stopping'.at # "no"
      BY <1>1 DEF Stop, Lifetimes, ServerTypes, AtHand, ConnOrNone
    <2>2. QED
      BY <1>1, <2>1, SameConnections DEF Stop
  <1>2. CASE StopList
    <2>1. ServerTypes' /\ AtHand' /\ stopping'.at # "no"
      BY <1>2 DEF StopList, Lifetimes, ServerTypes, AtHand
    <2>2. QED
      BY <1>2, <2>1, SameConnections DEF StopList
  <1>3. ASSUME NEW c \in Conns, StopConnection(c), Exists(c) PROVE Lifetimes'
    <2>1. /\ stopping' = [at |-> "close", conn |-> c, left |-> stopping.left \ {c}]
          /\ refs' = [refs EXCEPT ![c] = @ \cup {"stop"}] /\ Shut(c)
          /\ UNCHANGED <<connections, accept, bcast, active>>
      BY <1>3 DEF StopConnection
    <2>2. ServerTypes' /\ AtHand' /\ stopping'.at # "no"
      BY <2>1 DEF Lifetimes, ServerTypes, AtHand, ConnOrNone
    <2>3. /\ shut' = [shut EXCEPT ![c] = TRUE] /\ closing' \in [Conns -> ClosingAt]
          /\ \A d \in Conns : closing'[d].at =
                IF d = c /\ closing[d].at = "no" THEN "count" ELSE closing[d].at
      BY <2>1, ShutIs DEF Lifetimes
    <2>4. /\ refs' \in [Conns -> SUBSET Holders]
          /\ \A d \in Conns : refs[d] \subseteq refs'[d] /\ (Exists(d)' <=> Exists(d))
      BY <1>3, <2>1 DEF Lifetimes, ConnTypes, Holders, Exists
    <2>5. ShutIsClosing' /\ DeadIsShut'
      BY <2>3, <2>4 DEF Lifetimes, ConnTypes, ShutIsClosing, DeadIsShut
    <2>6. HoldStep
      BY <2>3, <2>4, <2>5 DEF HoldStep, Lifetimes, ConnTypes
    <2>7. ConnTypes' /\ ShutIsClosing' /\ DeadIsShut' /\ RegisteredIsOpen' /\ OnlyDestructorsShut'
      BY <2>1, <2>2, <2>6, HoldStepKeeps
    <2>8. AcceptHolds' /\ BegunOnce'
      BY <2>1, <2>4 DEF Lifetimes, AcceptHolds, BegunOnce
    <2>9. QED
      BY <2>2, <2>7, <2>8 DEF Lifetimes
  <1>4. ASSUME NEW c \in Conns, StopConnection(c), ~Exists(c) PROVE Lifetimes'
    <2>1. ServerTypes' /\ AtHand' /\ stopping'.at # "no"
      BY <1>4 DEF StopConnection, Lifetimes, ServerTypes, AtHand
    <2>2. QED
      BY <1>4, <2>1, SameConnections DEF StopConnection
  <1>5. CASE StopClosed
    <2>1. stopping.conn \in Conns /\ Release(stopping.conn, "stop", {})
      BY <1>5 DEF StopClosed, Lifetimes, AtHand
    <2>2. ServerTypes' /\ AtHand' /\ stopping'.at # "no"
      BY <1>5, <2>1 DEF StopClosed, Lifetimes, ServerTypes, AtHand, ConnOrNone
    <2>3. QED
      BY <1>5, <2>1, <2>2, ReleaseKeeps DEF StopClosed, Holders
  <1>6. CASE Destroy
    <2>1. ServerTypes' /\ AtHand' /\ stopping'.at # "no"
      BY <1>6 DEF Destroy, Lifetimes, ServerTypes, AtHand
    <2>2. QED
      BY <1>6, <2>1, SameConnections DEF Destroy
  <1>7. QED
    BY <1>1, <1>2, <1>3, <1>4, <1>5, <1>6 DEF Stopping

-----------------------------------------------------------------------------
(* The steps of ComNext, as the lemmas take them. *)
LEMMA ComNextIs ==
  ComNext <=>
    \/ \E c \in Conns : HandleAccept(c) \/ Closing(c) \/ Serves(c) \/ LookUp(c) \/ Power(c)
    \/ \E b \in Broadcasters : Broadcast(b)
    \/ AcceptFlag \/ AcceptAct \/ BeginProtocol \/ BeginCounts \/ Leave
    \/ Broadcasting \/ Stop \/ Stopping
  BY DEF ComNext, Serves, Accepting

LEMMA LifetimesInit == ServerInit => Lifetimes
  BY DEF ServerInit, NoAccept, NoBroadcast, Lifetimes, ConnTypes, ServerTypes, ShutIsClosing, DeadIsShut,
     RegisteredIsOpen, AcceptHolds, AtHand, OnlyDestructorsShut, BegunOnce, Exists, Busy, Holders,
     ConnOrNone, ClosingAt, Steps

LEMMA LifetimesSame ==
  ASSUME Lifetimes, UNCHANGED <<serverVars, connVars>>
  PROVE  Lifetimes'
  <1>1. UNCHANGED <<connections, accept, bcast, stopping, refs, shut, active, closing>>
    BY DEF serverVars, connVars
  <1>2. ServerTypes' /\ AtHand'
    BY <1>1 DEF Lifetimes, ServerTypes, AtHand
  <1>3. QED
    BY <1>1, <1>2, SameConnections

LEMMA LifetimesNext == Lifetimes /\ [ComNext]_comVars => Lifetimes'
  <1> SUFFICES ASSUME Lifetimes, [ComNext]_comVars PROVE Lifetimes'
    OBVIOUS
  <1>1. ASSUME NEW c \in Conns, LookUp(c) \/ Power(c) PROVE Lifetimes'
    BY <1>1, LifetimesSame DEF LookUp, Power
  <1>2. CASE UNCHANGED comVars
    BY <1>2, LifetimesSame DEF comVars
  <1>3. QED
    BY <1>1, <1>2, ComNextIs, HandleAcceptKeeps, ClosingKeeps, ServesKeeps, AcceptingKeeps, LeaveKeeps,
       BroadcastingKeeps, StoppingKeeps

-----------------------------------------------------------------------------
LEMMA ActiveIs ==
  ASSUME ConnTypes
  PROVE  /\ Cardinality(Active) \in 0 .. Cardinality(Conns) /\ Cardinality(Conns) \in Nat
         /\ \A c \in Conns :
               /\ active' = [active EXCEPT ![c] = TRUE] /\ ~active[c] =>
                     Cardinality(Active') = Cardinality(Active) + 1
               /\ active' = [active EXCEPT ![c] = FALSE] =>
                     Cardinality(Active') = Cardinality(Active) - (IF active[c] THEN 1 ELSE 0)
  <1>1. Active \in SUBSET Conns
    BY DEF Active
  <1>2. IsFiniteSet(Active) /\ Cardinality(Active) \in 0 .. Cardinality(Conns) /\ Cardinality(Conns) \in Nat
    BY <1>1, FiniteConns
  <1>3. ASSUME NEW c \in Conns, active' = [active EXCEPT ![c] = TRUE], ~active[c]
        PROVE  Cardinality(Active') = Cardinality(Active) + 1
    <2>1. Active' = Active \cup {c} /\ c \notin Active
      BY <1>3 DEF Active, ConnTypes
    <2>2. QED
      BY <1>2, <2>1, FS_AddElement
  <1>4. ASSUME NEW c \in Conns, active' = [active EXCEPT ![c] = FALSE]
        PROVE  Cardinality(Active') = Cardinality(Active) - (IF active[c] THEN 1 ELSE 0)
    <2>1. Active' = Active \ {c} /\ (c \in Active <=> active[c])
      BY <1>4 DEF Active, ConnTypes
    <2>2. QED
      BY <1>2, <2>1, FS_RemoveElement
  <1>5. QED
    BY <1>2, <1>3, <1>4

LEMMA SetTcpIpConnectedCounts ==
  ASSUME NEW n \in Int, SetTcpIpConnected(n)
  PROVE  count' = count + n
  BY DEF SetTcpIpConnected

LEMMA CountSame ==
  ASSUME CountIsActive, UNCHANGED <<active, count>>, accept'.at = "count" <=> accept.at = "count"
  PROVE  CountIsActive'
  BY DEF CountIsActive, Active, Uncounted

LEMMA CountNext == Lifetimes /\ CountIsActive /\ [ComNext]_comVars => CountIsActive'
  <1> SUFFICES ASSUME Lifetimes, CountIsActive, [ComNext]_comVars PROVE CountIsActive'
    OBVIOUS
  <1> USE DEF serverVars, connVars, modelVars
  <1>a. ConnTypes /\ Cardinality(Active) \in Nat
    BY ActiveIs DEF Lifetimes
  <1>1. ASSUME NEW c \in Conns, HandleAccept(c) PROVE CountIsActive'
    <2>1. /\ UNCHANGED count /\ accept.at # "count" /\ accept'.at # "count"
      BY <1>1 DEF HandleAccept, NoAccept
    <2>2. CASE stopping.at # "no"
      BY <1>1, <2>1, <2>2, CountSame DEF HandleAccept
    <2>3. CASE stopping.at = "no"
      <3>1. active' = [active EXCEPT ![c] = FALSE] /\ ~active[c]
        BY <1>1, <2>3 DEF HandleAccept, Gone, Lifetimes, OnlyDestructorsShut
      <3>2. Cardinality(Active') = Cardinality(Active)
        <4>1. Active' = Active
          BY <1>a, <3>1 DEF Active, ConnTypes
        <4>2. QED
          BY <4>1
      <3>3. QED
        BY <2>1, <3>2 DEF CountIsActive, Uncounted
    <2>4. QED
      BY <2>2, <2>3
  <1>2. ASSUME NEW c \in Conns, CloseCount(c) PROVE CountIsActive'
    <2>1. active' = [active EXCEPT ![c] = FALSE] /\ UNCHANGED accept
      BY <1>2 DEF CloseCount
    <2>2. count' = count - (IF active[c] THEN 1 ELSE 0)
      <3>1. CASE active[c]
        BY <1>2, <3>1, SetTcpIpConnectedCounts, <1>a DEF CloseCount, CountIsActive, Uncounted
      <3>2. CASE ~active[c]
        BY <1>2, <3>2, <1>a DEF CloseCount, CountIsActive, Uncounted
      <3>3. QED
        BY <3>1, <3>2
    <2>3. Cardinality(Active') = Cardinality(Active) - (IF active[c] THEN 1 ELSE 0)
      BY <1>a, <2>1, ActiveIs
    <2>4. QED
      BY <1>a, <2>1, <2>2, <2>3 DEF CountIsActive, Uncounted
  <1>3. ASSUME NEW c \in Conns, CloseErase(c) \/ CloseFlag(c) \/ CloseAct(c) PROVE CountIsActive'
    BY <1>3, CountSame DEF CloseErase, CloseFlag, CloseAct
  <1>4. CASE BeginProtocol
    <2>1. /\ active' = [active EXCEPT ![accept.conn] = TRUE] /\ UNCHANGED count
          /\ accept.at = "begin" /\ accept'.at = "count"
      BY <1>4 DEF BeginProtocol, Lifetimes, ServerTypes
    <2>2. accept.conn \in Conns /\ ~active[accept.conn]
      BY <2>1 DEF Lifetimes, AcceptHolds, BegunOnce, Busy
    <2>3. Cardinality(Active') = Cardinality(Active) + 1
      BY <1>a, <2>1, <2>2, ActiveIs
    <2>4. QED
      BY <1>a, <2>1, <2>3 DEF CountIsActive, Uncounted
  <1>5. CASE BeginCounts
    <2>1. UNCHANGED active /\ count' = count + 1 /\ accept.at = "count" /\ accept'.at = "leave"
      BY <1>5, SetTcpIpConnectedCounts DEF BeginCounts, Lifetimes, ServerTypes
    <2>2. QED
      BY <1>a, <2>1 DEF CountIsActive, Uncounted, Active
  <1>6. CASE AcceptFlag \/ AcceptAct \/ Leave
    <2>1. UNCHANGED <<active, count>> /\ accept.at # "count"
      BY <1>6 DEF AcceptFlag, AcceptAct, Leave
    <2>2. accept'.at # "count"
      <3>1. CASE AcceptFlag
        BY <3>1 DEF AcceptFlag, Lifetimes, ServerTypes
      <3>2. CASE AcceptAct
        BY <3>2 DEF AcceptAct, Lifetimes, ServerTypes
      <3>3. CASE Leave
        BY <3>3 DEF Leave, NoAccept
      <3>4. QED
        BY <1>6, <3>1, <3>2, <3>3
    <2>3. QED
      BY <2>1, <2>2, CountSame
  <1>7. ASSUME NEW c \in Conns, Serves(c) \/ LookUp(c) \/ Power(c) PROVE CountIsActive'
    BY <1>7, CountSame, ServesIs DEF LookUp, Power
  <1>b. ASSUME NEW b \in Broadcasters, Broadcast(b) PROVE CountIsActive'
    BY <1>b, CountSame DEF Broadcast
  <1>8. CASE Broadcasting \/ Stop \/ Stopping
    BY <1>8, CountSame DEF Broadcasting, Stop, Stopping, BroadcastWrite, BroadcastDrop,
       BroadcastEnds, StopList, StopConnection, StopClosed, Destroy
  <1>9. CASE UNCHANGED comVars
    BY <1>9, CountSame DEF comVars
  <1>10. QED
    BY <1>1, <1>2, <1>3, <1>4, <1>5, <1>6, <1>7, <1>b, <1>8, <1>9, ComNextIs DEF Closing

-----------------------------------------------------------------------------
(* The shutdown of the server is not taken back. *)
LEMMA StopStays ==
  ASSUME Lifetimes, ComNext
  PROVE  stopping'.at = "no" => stopping.at = "no"
  <1>1. CASE Stop \/ Stopping
    <2>1. stopping \in [at : {"no", "list", "next", "close", "destroyed"}, conn : ConnOrNone,
                        left : SUBSET Conns]
      BY DEF Lifetimes, ServerTypes
    <2>2. CASE Stop
      BY <2>2 DEF Stop
    <2>3. CASE StopList \/ StopClosed \/ Destroy
      BY <2>1, <2>3 DEF StopList, StopClosed, Destroy
    <2>4. ASSUME NEW c \in Conns, StopConnection(c) PROVE stopping'.at # "no"
      BY <2>1, <2>4 DEF StopConnection
    <2>5. QED
      BY <1>1, <2>2, <2>3, <2>4 DEF Stopping
  <1>2. ASSUME NEW c \in Conns, HandleAccept(c) \/ Closing(c) \/ Serves(c) \/ LookUp(c) \/ Power(c)
        PROVE  UNCHANGED stopping
    BY <1>2, ServesIs, ClosingIs DEF HandleAccept, LookUp, Power, serverVars
  <1>3. ASSUME NEW b \in Broadcasters, Broadcast(b) PROVE UNCHANGED stopping
    BY <1>3 DEF Broadcast
  <1>4. CASE AcceptFlag \/ AcceptAct \/ BeginProtocol \/ BeginCounts \/ Leave \/ Broadcasting
    BY <1>4 DEF AcceptFlag, AcceptAct, BeginProtocol, BeginCounts, Leave, Broadcasting, BroadcastWrite,
       BroadcastDrop, BroadcastEnds
  <1>5. QED
    BY <1>1, <1>2, <1>3, <1>4, ComNextIs

(* A step that has nobody begin to be served. *)
LEMMA ServedKept ==
  ASSUME Lifetimes, Served, UNCHANGED <<accept, active>>, stopping'.at = "no" => stopping.at = "no",
         \A d \in Conns : refs'[d] \cap Serving # {} => refs[d] \cap Serving # {},
         GrantedRuns'
  PROVE  Served'
  BY DEF Lifetimes, AcceptHolds, Served, ServedIsActive, NotYetServed

LEMMA ServesKeepsServed ==
  ASSUME Lifetimes, Served, NEW c \in Conns, Serves(c)
  PROVE  Served'
  <1>1. PICK holder \in Holders \ {"accept"}, new \in SUBSET Holders :
           /\ Release(c, holder, new)
           /\ new \cap Serving # {} => holder \in refs[c] \cap Serving
           /\ \/ granted' = granted /\ (holder = "cmd" => "cmd" \in new)
              \/ granted' = granted \ {c}
    BY ServesIs
  <1>2. refs' = [refs EXCEPT ![c] = (refs[c] \ {holder}) \cup new] /\ refs \in [Conns -> SUBSET Holders]
    BY <1>1 DEF Release, Lifetimes, ConnTypes
  <1>3. refs'[c] = (refs[c] \ {holder}) \cup new /\ \A d \in Conns : d # c => refs'[d] = refs[d]
    BY <1>2
  <1>4. GrantedRuns'
    BY <1>1, <1>3 DEF Served, GrantedRuns
  <1>5. \A d \in Conns : refs'[d] \cap Serving # {} => refs[d] \cap Serving # {}
    BY <1>1, <1>3
  <1>6. QED
    BY <1>4, <1>5, ServesIs, ServedKept DEF serverVars

LEMMA AcceptKeepsServed ==
  ASSUME Lifetimes, Served, NEW c \in Conns, HandleAccept(c)
  PROVE  Served'
  <1> USE DEF HandleAccept, connVars
  <1>1. CASE stopping.at # "no"
    <2>1. accept'.at = "ended" /\ UNCHANGED <<refs, stopping, granted>>
      BY <1>1 DEF NoAccept
    <2>2. QED
      BY <1>1, <2>1 DEF Served, ServedIsActive, NotYetServed, GrantedRuns, Busy
  <1>2. CASE stopping.at = "no"
    <2>1. /\ refs[c] = {} /\ refs' = [refs EXCEPT ![c] = {"accept"}]
          /\ active' = [active EXCEPT ![c] = FALSE] /\ UNCHANGED <<stopping, granted>>
          /\ accept'.at = "flag" /\ accept'.conn = c
      BY <1>2 DEF Gone, Exists
    <2>2. /\ refs'[c] = {"accept"} /\ refs'[c] \cap Serving = {}
          /\ \A d \in Conns : d # c => refs'[d] = refs[d] /\ active'[d] = active[d]
      BY <2>1 DEF Lifetimes, ConnTypes, Serving
    <2>3. GrantedRuns'
      BY <2>1, <2>2 DEF Served, GrantedRuns
    <2>4. ServedIsActive' /\ NotYetServed'
      BY <1>2, <2>1, <2>2 DEF Served, ServedIsActive, NotYetServed
    <2>5. QED
      BY <2>3, <2>4 DEF Served
  <1>3. QED
    BY <1>1, <1>2

LEMMA AcceptingKeepsServed ==
  ASSUME Lifetimes, Served, AcceptFlag \/ AcceptAct \/ BeginProtocol \/ BeginCounts
  PROVE  Served'
  <1>1. /\ UNCHANGED <<stopping, refs>> /\ accept.at \in Busy
        /\ accept'.conn = accept.conn /\ accept'.ok = accept.ok /\ accept.conn \in Conns
    BY AcceptingIs DEF Lifetimes, AcceptHolds
  <1>2. UNCHANGED granted
    BY DEF AcceptFlag, AcceptAct, BeginProtocol, BeginCounts
  <1>3. NotYetServed' /\ GrantedRuns'
    BY <1>1, <1>2 DEF Served, NotYetServed, GrantedRuns
  <1>4. ServedIsActive'
    <2>1. CASE AcceptFlag
      <3>1. accept'.at = "act" /\ UNCHANGED active
        BY <2>1 DEF AcceptFlag, Lifetimes, ServerTypes, connVars
      <3>2. QED
        BY <1>1, <3>1 DEF Served, ServedIsActive
    <2>2. CASE AcceptAct
      <3>1. accept'.at = (IF accept.ok THEN "begin" ELSE "leave") /\ UNCHANGED active
        BY <2>2 DEF AcceptAct, Lifetimes, ServerTypes, connVars
      <3>2. QED
        BY <1>1, <3>1 DEF Served, ServedIsActive
    <2>3. CASE BeginProtocol
      <3>1. active' = [active EXCEPT ![accept.conn] = TRUE]
        BY <2>3 DEF BeginProtocol
      <3>2. active'[accept.conn] /\ \A d \in Conns : active[d] => active'[d]
        BY <1>1, <3>1 DEF Lifetimes, ConnTypes
      <3>3. QED
        BY <1>1, <3>2 DEF Served, ServedIsActive
    <2>4. CASE BeginCounts
      <3>1. accept.at = "count" /\ UNCHANGED active
        BY <2>4 DEF BeginCounts, connVars
      <3>2. QED
        BY <1>1, <3>1 DEF Served, ServedIsActive
    <2>5. QED
      BY <2>1, <2>2, <2>3, <2>4
  <1>5. QED
    BY <1>3, <1>4 DEF Served

LEMMA LeaveKeepsServed ==
  ASSUME Lifetimes, Served, Leave
  PROVE  Served'
  <1> DEFINE a == accept.conn
             new == IF accept.ok /\ ~shut[a] THEN {"read"} ELSE {}
  <1>1. /\ a \in Conns /\ accept.at = "leave" /\ refs' = [refs EXCEPT ![a] = (refs[a] \ {"accept"}) \cup new]
        /\ UNCHANGED <<active, stopping, granted>> /\ accept'.at \in {"listen", "ended"}
    BY DEF Leave, Release, NoAccept, Lifetimes, AcceptHolds, Busy
  <1>2. /\ refs'[a] = (refs[a] \ {"accept"}) \cup new
        /\ \A d \in Conns : d # a => refs'[d] = refs[d]
    BY <1>1 DEF Lifetimes, ConnTypes
  <1>3. GrantedRuns' /\ NotYetServed'
    BY <1>1, <1>2 DEF Served, GrantedRuns, NotYetServed, Busy
  <1>4. stopping.at = "no" /\ refs'[a] \cap Serving # {} => active[a]
    <2>1. CASE accept.ok
      BY <1>1, <2>1 DEF Served, ServedIsActive
    <2>2. CASE ~accept.ok
      BY <1>1, <1>2, <2>2 DEF Served, ServedIsActive
    <2>3. QED
      BY <2>1, <2>2
  <1>5. ServedIsActive'
    BY <1>1, <1>2, <1>4 DEF Served, ServedIsActive
  <1>6. QED
    BY <1>3, <1>5 DEF Served

LEMMA CloseKeepsServed ==
  ASSUME Lifetimes, Served, NEW c \in Conns, Closing(c)
  PROVE  Served'
  <1>1. /\ UNCHANGED <<accept, stopping, refs, granted>>
        /\ \A d \in Conns : d # c => active'[d] = active[d]
        /\ active'[c] = active[c] \/ closing[c].at = "count"
    <2>1. CASE CloseCount(c)
      BY <2>1 DEF CloseCount, serverVars, Lifetimes, ConnTypes
    <2>2. CASE CloseErase(c) \/ CloseFlag(c) \/ CloseAct(c)
      BY <2>2 DEF CloseErase, CloseFlag, CloseAct, serverVars
    <2>3. QED
      BY <2>1, <2>2 DEF Closing
  <1>2. stopping.at = "no" /\ closing[c].at = "count" => refs[c] = {}
    BY DEF Lifetimes, OnlyDestructorsShut, ShutIsClosing, Exists
  <1>3. accept.at \in Busy => accept.conn \in Conns /\ refs[accept.conn] # {}
    BY DEF Lifetimes, AcceptHolds
  <1>4. ServedIsActive'
    BY <1>1, <1>2, <1>3 DEF Served, ServedIsActive, Busy
  <1>5. QED
    BY <1>1, <1>4 DEF Served, NotYetServed, GrantedRuns

LEMMA ServedNext == Lifetimes /\ Served /\ [ComNext]_comVars => Served'
  <1> SUFFICES ASSUME Lifetimes, Served, [ComNext]_comVars PROVE Served'
    OBVIOUS
  <1> USE DEF serverVars, connVars
  <1>a. refs \in [Conns -> SUBSET Holders]
    BY DEF Lifetimes, ConnTypes
  <1>b. ASSUME UNCHANGED <<accept, active, refs, granted, stopping>> PROVE Served'
    BY <1>b DEF Served, ServedIsActive, NotYetServed, GrantedRuns
  <1>1. ASSUME NEW c \in Conns, LookUp(c) \/ Power(c) PROVE Served'
    BY <1>1 DEF LookUp, Power, Served, ServedIsActive, NotYetServed, GrantedRuns
  <1>2. ASSUME NEW b \in Broadcasters, Broadcast(b) PROVE Served'
    BY <1>b, <1>2 DEF Broadcast
  <1>3. CASE Broadcasting \/ Stop \/ Stopping
    <2>1. UNCHANGED <<accept, active, granted>> /\ (stopping'.at = "no" => stopping.at = "no")
      BY <1>3, StopStays, ComNextIs DEF Broadcasting, BroadcastWrite, BroadcastDrop,
         BroadcastEnds, Stop, Stopping, StopList, StopConnection, StopClosed, Destroy
    <2>2. \A d \in Conns : /\ "cmd" \in refs[d] => "cmd" \in refs'[d]
                           /\ refs'[d] \cap Serving # {} => refs[d] \cap Serving # {}
      <3>1. ASSUME NEW c \in Conns, BroadcastWrite(c) \/ StopConnection(c)
            PROVE  refs' = [refs EXCEPT ![c] = refs[c] \cup {"bcast", "write"}]
                   \/ refs' = [refs EXCEPT ![c] = refs[c] \cup {"stop"}] \/ UNCHANGED refs
        BY <3>1 DEF BroadcastWrite, StopConnection
      <3>2. CASE BroadcastDrop \/ StopClosed
        BY <1>a, <3>2 DEF BroadcastDrop, StopClosed, Release, Serving
      <3>3. CASE BroadcastEnds \/ Stop \/ StopList \/ Destroy
        BY <3>3 DEF BroadcastEnds, Stop, StopList, Destroy
      <3>4. ASSUME NEW c \in Conns, BroadcastWrite(c) \/ StopConnection(c), NEW d \in Conns
            PROVE  /\ "cmd" \in refs[d] => "cmd" \in refs'[d]
                   /\ refs'[d] \cap Serving # {} => refs[d] \cap Serving # {}
        BY <1>a, <3>1, <3>4 DEF Serving
      <3>5. QED
        BY <1>3, <3>2, <3>3, <3>4 DEF Broadcasting, Stopping
    <2>3. GrantedRuns'
      BY <2>1, <2>2 DEF Served, GrantedRuns
    <2>4. QED
      BY <2>1, <2>2, <2>3, ServedKept
  <1>4. CASE UNCHANGED comVars
    BY <1>b, <1>4 DEF comVars
  <1>5. QED
    BY <1>1, <1>2, <1>3, <1>4, ComNextIs, AcceptKeepsServed, AcceptingKeepsServed, LeaveKeepsServed,
       CloseKeepsServed, ServesKeepsServed

(* While the server runs, whoever is served is counted. *)
LEMMA ServedIsCounted ==
  ASSUME Lifetimes, CountIsActive, Served, stopping.at = "no", NEW c \in Conns, refs[c] \cap Serving # {}
  PROVE  count > 0
  <1>1. c \in Active
    BY DEF Served, ServedIsActive, Active
  <1>2. IsFiniteSet(Active) /\ IsFiniteSet(Active \ {c}) /\ Cardinality(Active) \in Nat
        /\ Cardinality(Active \ {c}) \in Nat /\ Cardinality(Active \ {c}) = Cardinality(Active) - 1
    BY <1>1, FiniteConns, FS_RemoveElement DEF Active
  <1>3. CASE accept.at = "count"
    <2>1. accept.conn \in Active \ {c}
      BY <1>3 DEF Lifetimes, AcceptHolds, Busy, Served, ServedIsActive, NotYetServed, Active
    <2>2. Cardinality(Active \ {c}) # 0
      BY <1>2, <2>1, FS_EmptySet
    <2>3. QED
      BY <1>2, <1>3, <2>2 DEF CountIsActive, Uncounted
  <1>4. CASE accept.at # "count"
    BY <1>2, <1>4 DEF CountIsActive, Uncounted
  <1>5. QED
    BY <1>3, <1>4

-----------------------------------------------------------------------------
(* What the count and FaultMgr do to the Model and to the power. *)
LEMMA ChangeStateIs ==
  ASSUME ModelTypes, NEW new \in SafeStates, ChangeState(new)
  PROVE  /\ current' = new /\ powered' = (powered /\ new # "OFFLINE")
  BY DEF ChangeState, NextState, Acceptable, Enters, EntryTurnsOff, SafeStates, ModelTypes

LEMMA SetTcpIpConnectedIs ==
  ASSUME ModelTypes, count \in Int, NEW n \in Int, SetTcpIpConnected(n)
  PROVE  /\ count' = count + n /\ count' \in Int
         /\ powered' \in BOOLEAN /\ (powered' => powered)
         /\ count' <= 0 => current' = "OFFLINE" /\ ~powered'
         /\ count' > 0 => current' \in {current, "STANDBY"} /\ (count <= 0 => current' = "STANDBY")
  <1>1. count' = count + n /\ count' \in Int
    BY DEF SetTcpIpConnected
  <1>2. CASE count' <= 0
    <2>1. current' = "OFFLINE" /\ powered' = FALSE
      BY <1>2, ChangeStateIs DEF SetTcpIpConnected, SafeStates
    <2>2. powered' \in BOOLEAN /\ ~powered'
      BY <2>1
    <2>3. ~(count' > 0)
      BY <1>1, <1>2
    <2>4. QED
      BY <1>1, <2>1, <2>2, <2>3, Zenon
  <1>3. CASE ~(count' <= 0) /\ count <= 0
    <2>1. current' = "STANDBY" /\ powered' = powered
      BY <1>3, ChangeStateIs DEF SetTcpIpConnected, SafeStates, ModelTypes
    <2>2. QED
      BY <1>1, <1>3, <2>1 DEF ModelTypes
  <1>4. CASE ~(count' <= 0) /\ ~(count <= 0)
    BY <1>1, <1>4 DEF SetTcpIpConnected, modelVars, ModelTypes
  <1>5. QED
    BY <1>2, <1>3, <1>4

LEMMA ReportActsIs ==
  ASSUME ModelTypes, ReportActs
  PROVE  /\ powered' \in BOOLEAN /\ (powered' => powered)
         /\ current' \in {current, "STANDBY"} /\ (current = "OFFLINE" => current' = "OFFLINE")
  <1>1. CASE commLost
    BY <1>1 DEF ReportActs, GoToSafeMode, NextState, SafeTarget, Acceptable, SafeStates, PowerStates, ModelTypes
  <1>2. CASE ~commLost
    BY <1>2 DEF ReportActs, modelVars, ModelTypes
  <1>3. QED
    BY <1>1, <1>2

(* All that a step does to the Model and to the power. *)
CountStep  == \E n \in {1, -1} : SetTcpIpConnected(n)
ReportStep == ReportActs /\ UNCHANGED count
PowerStep  == /\ UNCHANGED <<current, count>> /\ powered' \in BOOLEAN
              /\ powered' => powered \/ granted # {}

LEMMA ReportCountIs ==
  ASSUME NEW n \in Nat, ReportCount(n)
  PROVE  commLost' \in BOOLEAN
  BY DEF ReportCount

LEMMA ModelStepIs ==
  ASSUME Lifetimes, ModelTypes, ComNext
  PROVE  (CountStep \/ ReportStep \/ PowerStep) /\ commLost' \in BOOLEAN
  <1> USE DEF modelVars
  <1>a. ASSUME UNCHANGED <<modelVars, count>> PROVE PowerStep
    BY <1>a DEF PowerStep, ModelTypes
  <1>1. ASSUME NEW c \in Conns, CloseCount(c)
        PROVE  (CountStep \/ PowerStep) /\ commLost' \in BOOLEAN
    <2>1. commLost' \in BOOLEAN /\ (SetTcpIpConnected(-1) \/ UNCHANGED <<modelVars, count>>)
      BY <1>1 DEF CloseCount, ModelTypes
    <2>2. QED
      BY <1>a, <2>1 DEF CountStep
  <1>2. ASSUME NEW c \in Conns, CloseErase(c) \/ CloseFlag(c)
        PROVE  PowerStep /\ commLost' \in BOOLEAN
    <2>1. UNCHANGED <<modelVars, count>>
      BY <1>2 DEF CloseErase, CloseFlag
    <2>2. commLost' \in BOOLEAN
      <3>1. closing[c].n \in Nat
        BY DEF Lifetimes, ConnTypes, ClosingAt
      <3>2. QED
        BY <1>2, <3>1, ReportCountIs DEF CloseErase, CloseFlag, ModelTypes
    <2>3. QED
      BY <1>a, <2>1, <2>2
  <1>3. ASSUME NEW c \in Conns, CloseAct(c)
        PROVE  ReportStep /\ commLost' \in BOOLEAN
    BY <1>3 DEF CloseAct, ReportStep, ModelTypes
  <1>4. CASE AcceptFlag \/ BeginProtocol \/ Leave
    <2>1. UNCHANGED <<modelVars, count>>
      BY <1>4 DEF AcceptFlag, BeginProtocol, Leave
    <2>2. commLost' \in BOOLEAN
      <3>1. accept.n \in Nat
        BY DEF Lifetimes, ServerTypes
      <3>2. QED
        BY <1>4, <3>1, ReportCountIs DEF AcceptFlag, BeginProtocol, Leave, ModelTypes
    <2>3. QED
      BY <1>a, <2>1, <2>2
  <1>5. CASE AcceptAct \/ BeginCounts
    BY <1>5 DEF AcceptAct, BeginCounts, CountStep, ReportStep, ModelTypes
  <1>6. ASSUME NEW c \in Conns, HandleAccept(c) \/ Serves(c) \/ LookUp(c)
        PROVE  PowerStep /\ commLost' \in BOOLEAN
    BY <1>a, <1>6, ServesIs DEF HandleAccept, LookUp, ModelTypes
  <1>7. ASSUME NEW c \in Conns, Power(c)
        PROVE  PowerStep /\ commLost' \in BOOLEAN
    BY <1>7 DEF Power, PowerStep, ModelTypes
  <1>8. ASSUME NEW b \in Broadcasters, Broadcast(b)
        PROVE  PowerStep /\ commLost' \in BOOLEAN
    BY <1>a, <1>8 DEF Broadcast, ModelTypes
  <1>9. CASE Broadcasting \/ Stop \/ Stopping
    BY <1>a, <1>9 DEF Broadcasting, BroadcastWrite, BroadcastDrop, BroadcastEnds, Stop,
       Stopping, StopList, StopConnection, StopClosed, Destroy, ModelTypes
  <1>10. QED
    BY <1>1, <1>2, <1>3, <1>4, <1>5, <1>6, <1>7, <1>8, <1>9, ComNextIs DEF Closing

LEMMA ModelNext == IInv /\ [ComNext]_comVars => ModelInv'
  <1> SUFFICES ASSUME IInv, [ComNext]_comVars PROVE ModelInv'
    OBVIOUS
  <1>a. Lifetimes /\ ModelTypes /\ CountedPower /\ count \in Int
    BY ActiveIs DEF IInv, ModelInv, CountIsActive, Uncounted, Lifetimes
  <1>1. CASE ComNext
    <2>1. commLost' \in BOOLEAN /\ (stopping'.at = "no" => stopping.at = "no")
      BY <1>a, <1>1, ModelStepIs, StopStays
    <2>2. CASE CountStep
      BY <1>a, <2>1, <2>2, SetTcpIpConnectedIs DEF CountStep, ModelInv, ModelTypes, CountedPower
    <2>3. CASE ReportStep
      BY <1>a, <2>1, <2>3, ReportActsIs DEF ReportStep, ModelInv, ModelTypes, CountedPower
    <2>4. CASE PowerStep
      <3>1. stopping.at = "no" /\ granted # {} => count > 0
        BY ServedIsCounted DEF IInv, Served, GrantedRuns, Serving
      <3>2. QED
        BY <1>a, <2>1, <2>4, <3>1 DEF PowerStep, ModelInv, ModelTypes, CountedPower
    <2>5. QED
      BY <1>a, <1>1, <2>2, <2>3, <2>4, ModelStepIs
  <1>2. CASE UNCHANGED comVars
    BY <1>a, <1>2 DEF comVars, serverVars, modelVars, ModelInv, ModelTypes, CountedPower
  <1>3. QED
    BY <1>1, <1>2

-----------------------------------------------------------------------------
LEMMA ServerInitIInv == ServerInit /\ current \in {"STARTUP", "STANDBY"} => IInv
  <1> SUFFICES ASSUME ServerInit, current \in {"STARTUP", "STANDBY"} PROVE IInv
    OBVIOUS
  <1>1. Lifetimes
    BY LifetimesInit
  <1>2. CountIsActive
    <2>1. Active = {} /\ count = 0 /\ accept.at = "listen"
      BY DEF ServerInit, Active, NoAccept
    <2>2. QED
      BY <2>1, FS_EmptySet DEF CountIsActive, Uncounted
  <1>3. Served
    BY DEF ServerInit, NoAccept, Served, ServedIsActive, NotYetServed, GrantedRuns, Busy
  <1>4. ModelInv
    BY DEF ServerInit, ModelInv, ModelTypes, CountedPower
  <1>5. QED
    BY <1>1, <1>2, <1>3, <1>4 DEF IInv

LEMMA IInvNext == IInv /\ [ComNext]_comVars => IInv'
  BY LifetimesNext, CountNext, ServedNext, ModelNext DEF IInv

(* Who is counted keeps the Model from being OFFLINE, if nothing but the    *)
(* count takes it there; and no step leads back to STARTUP.                *)
Online == count > 0 => current # "OFFLINE"

LEMMA OnlineKept ==
  ASSUME IInv, ComNext
  PROVE  (Online => Online') /\ (current # "STARTUP" => current' # "STARTUP")
  <1>a. Lifetimes /\ ModelTypes /\ count \in Int
    BY ActiveIs DEF IInv, ModelInv, CountIsActive, Uncounted, Lifetimes
  <1>1. CASE CountStep
    BY <1>a, <1>1, SetTcpIpConnectedIs DEF CountStep, Online
  <1>2. CASE ReportStep
    BY <1>a, <1>2, ReportActsIs DEF ReportStep, Online
  <1>3. CASE PowerStep
    BY <1>3 DEF PowerStep, Online
  <1>4. QED
    BY <1>a, <1>1, <1>2, <1>3, ModelStepIs

(* By themselves the connections go OFFLINE by the count only, and the      *)
(* Model has left STARTUP.                                                 *)
RunningInv == IInv /\ Online /\ current # "STARTUP"

LEMMA InitRunning == ComInit => RunningInv
  BY ServerInitIInv DEF ComInit, ServerInit, RunningInv, Online

LEMMA RunningNext == RunningInv /\ [ComNext]_comVars => RunningInv'
  <1>1. ASSUME RunningInv, UNCHANGED comVars PROVE Online' /\ current' # "STARTUP"
    BY <1>1 DEF RunningInv, Online, comVars, modelVars
  <1>2. QED
    BY <1>1, IInvNext, OnlineKept DEF RunningInv

(* The invariant that the properties of the connections follow from. *)
THEOREM Invariance == ComSpec => []RunningInv
  BY InitRunning, RunningNext, PTL DEF ComSpec

-----------------------------------------------------------------------------
(* The types of ComServer and ComConnection, and the bounds of the count:   *)
(* it is at most the number of connections, and below zero only while the  *)
(* one that was shut down before it reported itself has yet to do so.      *)
THEOREM TypeCorrect == ComSpec => []ComTypeOK
  <1>1. ASSUME RunningInv PROVE ComTypeOK
    <2>1. count \in (-1)..Cardinality(Conns)
      BY <1>1, ActiveIs DEF RunningInv, IInv, Lifetimes, CountIsActive, Uncounted
    <2>2. ConnTypes /\ ServerTypes
      BY <1>1 DEF RunningInv, IInv, Lifetimes
    <2>3. commLost \in BOOLEAN /\ current \in {"STANDBY", "OFFLINE"} /\ powered \in BOOLEAN
          /\ granted \subseteq {c \in Conns : "cmd" \in refs[c]}
      BY <1>1 DEF RunningInv, IInv, ModelInv, ModelTypes, Served, GrantedRuns
    <2>4. accept \in [at : {"listen", "flag", "act", "begin", "count", "leave", "ended"},
                      conn : ConnOrNone, n : Nat, ok : BOOLEAN]
      BY <2>2 DEF ServerTypes, Busy
    <2>5. QED
      BY <2>1, <2>2, <2>3, <2>4 DEF ComTypeOK, ConnTypes, ServerTypes, ClosingAt, Steps
  <1>2. QED
    BY <1>1, Invariance, PTL

(* ~ComConnection, eraseConnection: no connection that is gone stays in the *)
(* map, nor in the numbers that are reported to FaultMgr, whoever held it   *)
(* last and whatever else goes on.                                         *)
THEOREM NoDeadPointers == ComSpec => []RegisteredExists
  <1>1. RunningInv => RegisteredExists
    BY DEF RunningInv, IInv, Lifetimes, ServerTypes, RegisteredIsOpen, ShutIsClosing, DeadIsShut, RegisteredExists
  <1>2. QED
    BY <1>1, Invariance, PTL

(* setTcpIpConnected: before a shutdown the count is that of connections    *)
(* that exist or are about to be uncounted, in whatever order they begin   *)
(* and close.                                                              *)
THEOREM CountIsOfClients == ComSpec => []CountsLiveClients
  <1>1. RunningInv => CountsLiveClients
    BY DEF RunningInv, IInv, Lifetimes, CountIsActive, Active, Uncounted, OnlyDestructorsShut, ShutIsClosing,
       DeadIsShut, CountsLiveClients
  <1>2. QED
    BY <1>1, Invariance, PTL

(* NCmdPower::action: a command uses the state that it looked up before,    *)
(* and still power is wanted only while a client is counted and the Model  *)
(* is not OFFLINE, as long as the server is not shut down: the command     *)
(* holds its connection, and with it the count, until it ends.             *)
THEOREM PowerIsAClients == ComSpec => []PowerNeedsClient
  <1>1. RunningInv => PowerNeedsClient
    BY DEF RunningInv, Online, IInv, ModelInv, CountedPower, PowerNeedsClient
  <1>2. QED
    BY <1>1, Invariance, PTL
=============================================================================
