---------------------------- MODULE NetCommands ----------------------------
(***************************************************************************)
(* Commands and their answers: ComConnection reads a message, ComControl   *)
(* and the NetCommandFactory turn it into a NetCommand, whose              *)
(* acknowledgement is sent before a thread of its own runs it and sends    *)
(* the final response.  ComClient is the client at the other end.          *)
(*                                                                         *)
(* One factory, with one previous sequence number, serves every            *)
(* connection.  The next message of a connection is read when the          *)
(* acknowledgement of the last one is written, so that several commands of *)
(* one connection may run at a time.  Messages to a client arrive in the   *)
(* order of their writing; their transport is left out.                    *)
(***************************************************************************)
EXTENDS Naturals, FiniteSets

CONSTANTS
    Conns,   \* connections, each with a client
    Threads, \* command threads, of all connections, at the same time
    MaxSeq,  \* bound on the sequence numbers that clients use
    Kinds    \* the kinds of messages that clients send

(* "echo" does nothing but answer, "power" may fail, "remote" and "local"  *)
(* are the values of cmd_switchCommandSource, "invalid" has an unknown id  *)
(* or lacks a parameter, and "garbled" is no command at all.               *)
Kind == {"echo", "power", "remote", "local", "invalid", "garbled"}

ASSUME SeqAssumption == MaxSeq \in Nat /\ Kinds \subseteq Kind

VARIABLES
    link,      \* "none", or what the connection waits for: "read" or "ack"
    cmd,       \* the command each thread runs
    prevSeqId, \* NetCommandFactory::_prevSeqId
    remote,    \* Globals::_commandableByDds
    told,      \* what each client was last told of it
    client,    \* what ComClient::cmdSendRecv of each client waits for
    ran        \* how often a command with a number was run

netVars == <<link, cmd, prevSeqId, remote, told, client, ran>>

-----------------------------------------------------------------------------
NoCommand == [conn |-> "none", kind |-> "none", seq |-> 0, at |-> "done", value |-> FALSE]
Idle      == [at |-> "idle", seq |-> 0, garbled |-> FALSE, ack |-> "none", final |-> "none"]

(* Mutant: the number of the previous command is good enough. *)
OldSeqId_AllowsEqual(seq) == seq < prevSeqId

(* getCommandFor: a number has to be larger than any that was used before. *)
OldSeqId(seq) == seq <= prevSeqId

(* Mutant: a message that is refused is acknowledged by number 0. *)
AnswerSeq_Default(kind, seq) == IF kind \in {"garbled", "invalid"} THEN 0 ELSE seq

(* getNoAck knows no number. *)
AnswerSeq(kind, seq) == IF kind = "garbled" THEN 0 ELSE seq

(* getCommandFor: what becomes of a message, NCmdNoAck being "noack". *)
CommandFor(c, kind, seq) ==
    [conn |-> c, kind |-> IF kind \in {"garbled", "invalid"} \/ OldSeqId(seq) THEN "noack" ELSE kind,
     seq |-> AnswerSeq(kind, seq), at |-> "act", value |-> FALSE]

AckOf(kind) == IF kind = "noack" THEN "noack" ELSE "ack"

(* cmdSendRecv: a client waits for the answers to one message at a time. *)
Sends(cl, kind, seq) ==
    IF cl.at = "idle" THEN [Idle EXCEPT !.at = "sent", !.seq = seq, !.garbled = (kind = "garbled")] ELSE cl

(* cmdRecvSeqId: the first message with the number that is waited for is   *)
(* taken for the acknowledgement, the second for the response; any other   *)
(* message is kept for later.                                              *)
Receive(cl, id, seq) ==
    IF cl.seq # seq THEN cl
    ELSE IF cl.at = "sent" THEN [cl EXCEPT !.at = "acked", !.ack = id]
    ELSE IF cl.at = "acked" THEN [cl EXCEPT !.at = "idle", !.seq = 0, !.final = id]
    ELSE cl

(* What a write to connection c does to its client, if there still is one. *)
Deliver(c, id, seq) ==
    client' = IF link[c] = "none" THEN client ELSE [client EXCEPT ![c] = Receive(@, id, seq)]

-----------------------------------------------------------------------------
(* The numbers of a client's messages that are not answered yet. *)
Commands(c) == {t \in Threads : cmd[t].conn = c}
InFlight(c) == {cmd[t].seq : t \in Commands(c)} \cup (IF client[c].at = "idle" THEN {} ELSE {client[c].seq})

(* A client connects and is welcomed with the present values. *)
Connect(c) ==
    /\ link[c] = "none" /\ Commands(c) = {}
    /\ link' = [link EXCEPT ![c] = "read"]
    /\ told' = [told EXCEPT ![c] = remote]
    /\ client' = [client EXCEPT ![c] = Idle]
    /\ UNCHANGED <<cmd, prevSeqId, remote, ran>>

(* Mutant: the thread is started first, and may be done by then. *)
Acknowledge_AfterRun(c, cl, new) ==
    client' = [client EXCEPT ![c] = Receive(Receive(cl, "success", new.seq), AckOf(new.kind), new.seq)]

(* _sendResponse, before the command's thread is started. *)
Acknowledge(c, cl, new) ==
    client' = [client EXCEPT ![c] = Receive(cl, AckOf(new.kind), new.seq)]

(* _readCommand and interpretCommand.  A client that waits for an answer    *)
(* may send more, and one that was answered may repeat its message.  What   *)
(* cannot be read had a number all the same, and its client waits for it.   *)
ReadCommand(c, t) ==
    /\ link[c] = "read" /\ cmd[t] = NoCommand
    /\ \E kind \in Kinds, seq \in 1..MaxSeq :
          LET new  == CommandFor(c, kind, seq)
              sent == Sends(client[c], kind, seq)
          IN  /\ seq \notin InFlight(c)
              /\ cmd' = [cmd EXCEPT ![t] = new]
              /\ prevSeqId' = IF kind = "garbled" \/ OldSeqId(seq) THEN prevSeqId ELSE seq
              /\ Acknowledge(c, sent, new)
    /\ link' = [link EXCEPT ![c] = "ack"]
    /\ UNCHANGED <<remote, told, ran>>

(* _responseSent *)
ResponseSent(c) ==
    /\ link[c] = "ack"
    /\ link' = [link EXCEPT ![c] = "read"]
    /\ UNCHANGED <<cmd, prevSeqId, remote, told, client, ran>>

(* A read or a write finds the connection closed.  Its commands run on. *)
Disconnect(c) ==
    /\ link[c] # "none"
    /\ link' = [link EXCEPT ![c] = "none"]
    /\ UNCHANGED <<cmd, prevSeqId, remote, told, client, ran>>

-----------------------------------------------------------------------------
Goto(t, at) == cmd' = [cmd EXCEPT ![t].at = at]

Results(kind) ==
    CASE kind = "noack" -> {"fail"} [] kind = "power" -> {"success", "fail"} [] OTHER -> {"success"}

(* NetCommand::run, with the action of the command. *)
Act(t) ==
    LET this == cmd[t] IN
    /\ this.at = "act"
    /\ ran' = IF this.kind = "noack" THEN ran ELSE [ran EXCEPT ![this.seq] = @ + 1]
    /\ IF this.kind \in {"remote", "local"}
       THEN remote' = (this.kind = "remote") /\ Goto(t, "look")
       ELSE /\ \E result \in Results(this.kind) : Goto(t, result)
            /\ UNCHANGED remote
    /\ UNCHANGED <<link, prevSeqId, told, client>>

(* NCmdSwitchCommandSource::action makes the message of the present value, *)
LookAtSource(t) ==
    /\ cmd[t].at = "look"
    /\ cmd' = [cmd EXCEPT ![t].at = "tell", ![t].value = remote]
    /\ UNCHANGED <<link, prevSeqId, remote, told, client, ran>>

(* and sends it to every connection, under ComServer::_mapMtx. *)
TellAll(t) ==
    /\ cmd[t].at = "tell"
    /\ told' = [d \in Conns |-> IF link[d] = "none" THEN told[d] ELSE cmd[t].value]
    /\ Goto(t, "success")
    /\ UNCHANGED <<link, prevSeqId, remote, client, ran>>

(* The final response is written and the thread ends. *)
Respond(t) ==
    /\ cmd[t].at \in {"success", "fail"}
    /\ Deliver(cmd[t].conn, cmd[t].at, cmd[t].seq)
    /\ cmd' = [cmd EXCEPT ![t] = NoCommand]
    /\ UNCHANGED <<link, prevSeqId, remote, told, ran>>

-----------------------------------------------------------------------------
Init ==
    /\ link = [c \in Conns |-> "none"]
    /\ cmd = [t \in Threads |-> NoCommand]
    /\ prevSeqId = 0 /\ remote = TRUE
    /\ told = [c \in Conns |-> TRUE]
    /\ client = [c \in Conns |-> Idle]
    /\ ran = [s \in 1..MaxSeq |-> 0]

Run(t) == Act(t) \/ LookAtSource(t) \/ TellAll(t) \/ Respond(t)

Next ==
    \/ \E c \in Conns : \/ Connect(c) \/ ResponseSent(c) \/ Disconnect(c)
                         \/ \E t \in Threads : ReadCommand(c, t)
    \/ \E t \in Threads : Run(t)

(* Writes complete and threads run; nothing is assumed of clients.  That   *)
(* TellAll ends takes that no broadcast waits for itself, which ComServer  *)
(* has as BroadcastNeverWaitsForItself.                                    *)
Fairness ==
    /\ \A c \in Conns : WF_netVars(ResponseSent(c))
    /\ \A t \in Threads : WF_netVars(Run(t))

Spec     == Init /\ [][Next]_netVars
FairSpec == Spec /\ Fairness

-----------------------------------------------------------------------------
Answers == {"none", "ack", "noack", "success", "fail"}

TypeOK ==
    /\ link \in [Conns -> {"none", "read", "ack"}]
    /\ cmd \in [Threads ->
          [conn : Conns \cup {"none"}, kind : Kind \cup {"none", "noack"}, seq : 0..MaxSeq, value : BOOLEAN,
           at : {"done", "act", "look", "tell", "success", "fail"}]]
    /\ \A t \in Threads : cmd[t].at = "done" => cmd[t] = NoCommand
    /\ prevSeqId \in 0..MaxSeq /\ remote \in BOOLEAN /\ told \in [Conns -> BOOLEAN]
    /\ client \in [Conns -> [at : {"idle", "sent", "acked"}, seq : 0..MaxSeq, garbled : BOOLEAN,
                             ack : Answers, final : Answers]]
    /\ ran \in [1..MaxSeq -> Nat]

(* getCommandFor: a command is run at most once, whichever client repeats   *)
(* it, over whichever connection, and while it may still be running.        *)
RunsOnce == \A s \in 1..MaxSeq : ran[s] <= 1

(* _readCommand: what cmdSendRecv returns are the acknowledgement and the   *)
(* response of the command it sent, with whatever else arrives in between:  *)
(* a refused command fails and no other is acknowledged otherwise.          *)
AnswersFit ==
    \A c \in Conns :
        /\ client[c].at # "sent" => client[c].ack \in {"none", "ack", "noack"}
        /\ client[c].at = "idle" => client[c].final \in {"none", "success", "fail"}
        /\ client[c].ack = "noack" => client[c].final \in {"none", "fail"}

(* cmdSendRecv comes back with both answers while the connection lasts, if  *)
(* the server could read what was sent.  It does not come back otherwise:   *)
(* getNoAck answers by number 0, and cmdRecvSeqId reads on.                 *)
EveryCommandAnswered ==
    \A c \in Conns :
        client[c].at # "idle" /\ ~client[c].garbled ~> (client[c].at = "idle" \/ link[c] = "none")

(* NCmdSwitchCommandSource: when no command is running, every client was    *)
(* last told the value that holds.                                          *)
ClientsToldLast ==
    (\A t \in Threads : cmd[t] = NoCommand)
        => \A c \in Conns : link[c] # "none" => told[c] = remote
=============================================================================
