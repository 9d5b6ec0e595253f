-------------------------- MODULE NetCommands_proofs --------------------------
(***************************************************************************)
(* What holds of NetCommands for any clients, command threads, numbers and *)
(* kinds of messages.                                                      *)
(***************************************************************************)
EXTENDS NetCommands, TLAPS

Running(t) == cmd[t].at # "done"

(* A command that is going to be run: it was not refused. *)
Pending(t) == cmd[t].at = "act" /\ cmd[t].kind # "noack"

(* A running command is one of a connection; a refused one can only fail.  *)
CommandsFit ==
    \A t \in Threads :
        /\ Running(t) => cmd[t].conn \in Conns
        /\ cmd[t].kind = "noack" => cmd[t].at \in {"act", "fail"}

(* The numbers of commands that ran, or are going to, are behind, and each *)
(* is used by one command.                                                 *)
NumbersUsed ==
    /\ \A s \in 1..MaxSeq : ran[s] \in {0, 1} /\ (ran[s] = 1 => s <= prevSeqId)
    /\ \A t \in Threads :
          Pending(t) => cmd[t].seq \in 1..MaxSeq /\ cmd[t].seq <= prevSeqId /\ ran[cmd[t].seq] = 0
    /\ \A t, u \in Threads : t # u /\ Pending(t) /\ Pending(u) => cmd[t].seq # cmd[u].seq

(* A client that waits was acknowledged, and is told by the acknowledgement *)
(* whether the command with its number was refused; or it was not, and no  *)
(* command has its number, as its message could not be read.               *)
ClientFits(c) ==
    /\ client[c].at = "idle" =>
          /\ client[c].seq = 0
          /\ client[c].ack \in {"none", "ack", "noack"} /\ client[c].final \in {"none", "success", "fail"}
          /\ client[c].ack = "noack" => client[c].final \in {"none", "fail"}
    /\ client[c].at # "idle" => client[c].seq \in 1..MaxSeq /\ client[c].final = "none"
    /\ client[c].at = "sent" => client[c].garbled = TRUE /\ client[c].ack = "none"
    /\ client[c].at = "acked" => client[c].ack \in {"ack", "noack"}
    /\ \A t \in Threads :
          client[c].at = "sent" /\ Running(t) /\ cmd[t].conn = c => cmd[t].seq # client[c].seq
    /\ \A t \in Threads :
          client[c].at = "acked" /\ Running(t) /\ cmd[t].conn = c /\ cmd[t].seq = client[c].seq
              => (client[c].ack = "noack" <=> cmd[t].kind = "noack")

ClientsFit == \A c \in Conns : ClientFits(c)

IInv == TypeOK /\ CommandsFit /\ NumbersUsed /\ ClientsFit

Cmd == [conn : Conns \cup {"none"}, kind : Kind \cup {"none", "noack"}, seq : 0..MaxSeq, value : BOOLEAN,
        at : {"done", "act", "look", "tell", "success", "fail"}]
ClientRec == [at : {"idle", "sent", "acked"}, seq : 0..MaxSeq, garbled : BOOLEAN, ack : Answers, final : Answers]

LEMMA InitIInv == Init => IInv
  <1> SUFFICES ASSUME Init PROVE IInv
    OBVIOUS
  <1> USE SeqAssumption DEF Init
  <1>1. TypeOK
    BY DEF TypeOK, NoCommand, Idle, Answers, Kind
  <1>2. CommandsFit
    BY DEF CommandsFit, Running, NoCommand
  <1>3. NumbersUsed
    BY DEF NumbersUsed, Pending, NoCommand
  <1>4. ClientsFit
    BY DEF ClientsFit, ClientFits, Idle
  <1>5. QED
    BY <1>1, <1>2, <1>3, <1>4 DEF IInv

-----------------------------------------------------------------------------
(* getCommandFor makes a command that is refused exactly if its message     *)
(* cannot be read, is invalid or has an old number.                         *)
LEMMA CommandForIs ==
  ASSUME NEW c \in Conns, NEW kind \in Kind, NEW seq \in 1..MaxSeq
  PROVE  LET new == CommandFor(c, kind, seq)
         IN  /\ new \in Cmd /\ new.conn = c /\ new.at = "act" /\ new.seq = AnswerSeq(kind, seq)
             /\ new.kind = "noack" <=> kind \in {"garbled", "invalid"} \/ OldSeqId(seq)
  <1> DEFINE k   == IF kind \in {"garbled", "invalid"} \/ OldSeqId(seq) THEN "noack" ELSE kind
             new == [conn |-> c, kind |-> k, seq |-> AnswerSeq(kind, seq), at |-> "act", value |-> FALSE]
  <1>1. CommandFor(c, kind, seq) = new
    BY DEF CommandFor
  <1>2. AnswerSeq(kind, seq) \in 0..MaxSeq
    BY SeqAssumption DEF AnswerSeq
  <1>3. k \in Kind \cup {"none", "noack"}
    OBVIOUS
  <1>4. new \in Cmd
    BY <1>2, <1>3 DEF Cmd
  <1>5. k = "noack" <=> kind \in {"garbled", "invalid"} \/ OldSeqId(seq)
    BY DEF Kind
  <1>6. QED
    BY <1>1, <1>4, <1>5

(* cmdRecvSeqId keeps what a client record is. *)
LEMMA ReceiveKeepsType ==
  ASSUME NEW cl \in ClientRec, NEW id \in Answers, NEW seq \in 0..MaxSeq
  PROVE  Receive(cl, id, seq) \in ClientRec
  <1>1. 0 \in 0..MaxSeq
    BY SeqAssumption
  <1>2. [cl EXCEPT !.at = "acked", !.ack = id] \in ClientRec
    BY DEF ClientRec
  <1>3. [cl EXCEPT !.at = "idle", !.seq = 0, !.final = id] \in ClientRec
    BY <1>1 DEF ClientRec
  <1>4. QED
    BY <1>2, <1>3 DEF Receive

LEMMA NoCommandIsCmd == NoCommand \in Cmd /\ NoCommand.at = "done" /\ NoCommand.kind = "none"
  BY SeqAssumption DEF NoCommand, Cmd

-----------------------------------------------------------------------------
(* A step of a command's thread that leaves its connection, kind and number. *)
GoesOn(t) ==
    /\ cmd[t].at # "done"
    /\ \E at \in {"look", "tell", "success", "fail"}, value \in BOOLEAN :
          cmd' = [cmd EXCEPT ![t] = [cmd[t] EXCEPT !.at = at, !.value = value]]

LEMMA GoesOnIs ==
  ASSUME IInv, NEW t \in Threads, GoesOn(t)
  PROVE  /\ cmd' \in [Threads -> Cmd]
         /\ \A u \in Threads : u # t => cmd'[u] = cmd[u]
         /\ cmd'[t].conn = cmd[t].conn /\ cmd'[t].kind = cmd[t].kind /\ cmd'[t].seq = cmd[t].seq
         /\ cmd'[t].at \in {"look", "tell", "success", "fail"}
  <1>1. cmd \in [Threads -> Cmd]
    BY DEF IInv, TypeOK, Cmd
  <1>2. PICK at \in {"look", "tell", "success", "fail"}, value \in BOOLEAN :
            cmd' = [cmd EXCEPT ![t] = [cmd[t] EXCEPT !.at = at, !.value = value]]
    BY DEF GoesOn
  <1>3. [cmd[t] EXCEPT !.at = at, !.value = value] \in Cmd
    BY <1>1 DEF Cmd
  <1>4. QED
    BY <1>1, <1>2, <1>3 DEF Cmd

LEMMA ActGoesOn ==
  ASSUME IInv, NEW t \in Threads, Act(t)
  PROVE  GoesOn(t) /\ (cmd[t].kind = "noack" => cmd'[t].at = "fail")
  <1>1. cmd \in [Threads -> Cmd] /\ cmd[t].value \in BOOLEAN
    BY DEF IInv, TypeOK, Cmd
  <1>2. \A at : [cmd EXCEPT ![t].at = at] =
                [cmd EXCEPT ![t] = [cmd[t] EXCEPT !.at = at, !.value = cmd[t].value]]
    BY <1>1 DEF Cmd
  <1>3. CASE cmd[t].kind \in {"remote", "local"}
    BY <1>1, <1>2, <1>3 DEF Act, Goto, GoesOn
  <1>4. CASE cmd[t].kind \notin {"remote", "local"}
    <2>1. PICK result \in Results(cmd[t].kind) : cmd' = [cmd EXCEPT ![t].at = result]
      BY <1>4 DEF Act, Goto
    <2>2. result \in {"success", "fail"} /\ (cmd[t].kind = "noack" => result = "fail")
      BY DEF Results
    <2>3. cmd'[t].at = result
      BY <1>1, <2>1 DEF Cmd
    <2>4. QED
      BY <1>1, <1>2, <2>1, <2>2, <2>3 DEF Act, GoesOn
  <1>5. QED
    BY <1>3, <1>4

LEMMA LookGoesOn ==
  ASSUME IInv, NEW t \in Threads, LookAtSource(t)
  PROVE  GoesOn(t)
  <1>1. cmd \in [Threads -> Cmd] /\ remote \in BOOLEAN
    BY DEF IInv, TypeOK, Cmd
  <1>2. QED
    BY <1>1 DEF LookAtSource, GoesOn, Cmd

LEMMA TellGoesOn ==
  ASSUME IInv, NEW t \in Threads, TellAll(t)
  PROVE  GoesOn(t)
  <1>1. cmd \in [Threads -> Cmd] /\ cmd[t].value \in BOOLEAN
    BY DEF IInv, TypeOK, Cmd
  <1>2. cmd' = [cmd EXCEPT ![t] = [cmd[t] EXCEPT !.at = "success", !.value = cmd[t].value]]
    BY <1>1 DEF TellAll, Goto, Cmd
  <1>3. QED
    BY <1>1, <1>2 DEF TellAll, GoesOn

(* Nothing but the commands moves: what the invariant says of them holds of *)
(* the command that goes on, which is no longer pending, and of the others. *)
LEMMA GoesOnCommandsFit ==
  ASSUME IInv, NEW t \in Threads, GoesOn(t), cmd[t].kind = "noack" => cmd'[t].at = "fail"
  PROVE  CommandsFit'
  <1>1. SUFFICES ASSUME NEW u \in Threads
                 PROVE  /\ Running(u)' => cmd'[u].conn \in Conns
                        /\ cmd'[u].kind = "noack" => cmd'[u].at \in {"act", "fail"}
    BY DEF CommandsFit
  <1>2. CASE u # t
    BY <1>2, GoesOnIs DEF IInv, CommandsFit, Running
  <1>3. CASE u = t
    BY <1>3, GoesOnIs DEF IInv, CommandsFit, Running, GoesOn
  <1>4. QED
    BY <1>2, <1>3

LEMMA GoesOnClientsFit ==
  ASSUME IInv, NEW t \in Threads, GoesOn(t), UNCHANGED client
  PROVE  ClientsFit'
  <1>1. SUFFICES ASSUME NEW c \in Conns PROVE ClientFits(c)'
    BY DEF ClientsFit
  <1>2. ClientFits(c)
    BY DEF IInv, ClientsFit
  <1>3. \A u \in Threads : /\ cmd'[u].conn = cmd[u].conn /\ cmd'[u].kind = cmd[u].kind
                           /\ cmd'[u].seq = cmd[u].seq /\ (Running(u)' => Running(u))
    BY GoesOnIs DEF Running, GoesOn
  <1>4. QED
    BY <1>2, <1>3 DEF ClientFits

LEMMA GoesOnType ==
  ASSUME IInv, NEW t \in Threads, GoesOn(t)
  PROVE  cmd' \in [Threads -> Cmd] /\ \A u \in Threads : cmd'[u].at = "done" => cmd'[u] = NoCommand
  BY GoesOnIs DEF IInv, TypeOK

LEMMA GoesOnNumbersUsed ==
  ASSUME IInv, NEW t \in Threads, GoesOn(t), UNCHANGED <<prevSeqId, ran>>
  PROVE  NumbersUsed'
  <1>1. \A u \in Threads : Pending(u)' => Pending(u) /\ cmd'[u] = cmd[u]
    BY GoesOnIs DEF Pending
  <1>2. QED
    BY <1>1 DEF IInv, NumbersUsed

-----------------------------------------------------------------------------
LEMMA ActIInv ==
  ASSUME IInv, NEW t \in Threads, Act(t)
  PROVE  IInv'
  <1> USE SeqAssumption
  <1>1. GoesOn(t) /\ (cmd[t].kind = "noack" => cmd'[t].at = "fail")
    BY ActGoesOn
  <1>2. ran \in [1..MaxSeq -> Nat] /\ prevSeqId \in 0..MaxSeq /\ cmd[t].at = "act"
    BY DEF IInv, TypeOK, Act
  <1>3. cmd[t].kind = "noack" => ran' = ran
    BY DEF Act
  <1>4. cmd[t].kind # "noack" =>
            /\ cmd[t].seq \in 1..MaxSeq /\ cmd[t].seq <= prevSeqId /\ ran[cmd[t].seq] = 0
            /\ ran' = [ran EXCEPT ![cmd[t].seq] = 1]
    <2> SUFFICES ASSUME cmd[t].kind # "noack"
                 PROVE  /\ cmd[t].seq \in 1..MaxSeq /\ cmd[t].seq <= prevSeqId /\ ran[cmd[t].seq] = 0
                        /\ ran' = [ran EXCEPT ![cmd[t].seq] = 1]
      OBVIOUS
    <2>1. cmd[t].seq \in 1..MaxSeq /\ cmd[t].seq <= prevSeqId /\ ran[cmd[t].seq] = 0
      BY <1>2 DEF IInv, NumbersUsed, Pending
    <2>2. ran' = [ran EXCEPT ![cmd[t].seq] = ran[cmd[t].seq] + 1]
      BY DEF Act
    <2>3. QED
      BY <2>1, <2>2
  <1>5. UNCHANGED <<link, prevSeqId, told, client>> /\ remote' \in BOOLEAN
    BY DEF Act, IInv, TypeOK
  <1>6. ran' \in [1..MaxSeq -> Nat]
    <2>1. CASE cmd[t].kind = "noack"
      BY <1>2, <1>3, <2>1
    <2>2. CASE cmd[t].kind # "noack"
      <3>1. \A s \in 1..MaxSeq : [ran EXCEPT ![s] = 1] \in [1..MaxSeq -> Nat]
        BY <1>2
      <3>2. QED
        BY <1>4, <2>2, <3>1
    <2>3. QED
      BY <2>1, <2>2
  <1>7. TypeOK'
    BY <1>1, <1>5, <1>6, GoesOnType DEF IInv, TypeOK, Cmd
  <1>8. \A u \in Threads : Pending(u)' => u # t /\ Pending(u) /\ cmd'[u] = cmd[u]
    BY <1>1, GoesOnIs DEF Pending
  <1>9. NumbersUsed'
    <2>1. \A s \in 1..MaxSeq : ran'[s] \in {0, 1} /\ (ran'[s] = 1 => s <= prevSeqId)
      BY <1>2, <1>3, <1>4 DEF IInv, NumbersUsed
    <2>2. ASSUME NEW u \in Threads, Pending(u)'
          PROVE  cmd'[u].seq \in 1..MaxSeq /\ cmd'[u].seq <= prevSeqId /\ ran'[cmd'[u].seq] = 0
      <3>1. u # t /\ Pending(u) /\ cmd'[u] = cmd[u]
        BY <1>8, <2>2
      <3>2. cmd[u].seq \in 1..MaxSeq /\ cmd[u].seq <= prevSeqId /\ ran[cmd[u].seq] = 0
        BY <3>1 DEF IInv, NumbersUsed
      <3>3. cmd[t].kind # "noack" => cmd[u].seq # cmd[t].seq
        BY <1>2, <3>1 DEF IInv, NumbersUsed, Pending
      <3>4. QED
        BY <1>2, <1>3, <1>4, <3>1, <3>2, <3>3
    <2>3. \A u, v \in Threads : u # v /\ Pending(u)' /\ Pending(v)' => cmd'[u].seq # cmd'[v].seq
      BY <1>8 DEF IInv, NumbersUsed
    <2>4. QED
      BY <1>5, <2>1, <2>2, <2>3 DEF NumbersUsed
  <1>10. QED
    BY <1>1, <1>5, <1>7, <1>9, GoesOnCommandsFit, GoesOnClientsFit DEF IInv

LEMMA LookIInv ==
  ASSUME IInv, NEW t \in Threads, LookAtSource(t)
  PROVE  IInv'
  <1>1. GoesOn(t) /\ cmd[t].kind # "noack" /\ UNCHANGED <<link, prevSeqId, remote, told, client, ran>>
    BY LookGoesOn DEF LookAtSource, IInv, CommandsFit
  <1>2. TypeOK'
    BY <1>1, GoesOnType DEF IInv, TypeOK, Cmd
  <1>3. QED
    BY <1>1, <1>2, GoesOnCommandsFit, GoesOnClientsFit, GoesOnNumbersUsed DEF IInv

LEMMA TellIInv ==
  ASSUME IInv, NEW t \in Threads, TellAll(t)
  PROVE  IInv'
  <1>1. GoesOn(t) /\ cmd[t].kind # "noack" /\ UNCHANGED <<link, prevSeqId, remote, client, ran>>
    BY TellGoesOn DEF TellAll, IInv, CommandsFit
  <1>2. told' \in [Conns -> BOOLEAN]
    BY DEF TellAll, IInv, TypeOK
  <1>3. TypeOK'
    BY <1>1, <1>2, GoesOnType DEF IInv, TypeOK, Cmd
  <1>4. QED
    BY <1>1, <1>3, GoesOnCommandsFit, GoesOnClientsFit, GoesOnNumbersUsed DEF IInv

-----------------------------------------------------------------------------
(* The final response ends a command and is the second answer to a client   *)
(* that waits for it, or nothing to it.                                     *)
LEMMA RespondIInv ==
  ASSUME IInv, NEW t \in Threads, Respond(t)
  PROVE  IInv'
  <1> USE SeqAssumption
  <1> DEFINE c == cmd[t].conn
  <1>1. /\ cmd \in [Threads -> Cmd] /\ client \in [Conns -> ClientRec]
        /\ cmd[t].at \in {"success", "fail"} /\ c \in Conns /\ cmd[t].seq \in 0..MaxSeq
        /\ UNCHANGED <<link, prevSeqId, remote, told, ran>>
    BY DEF IInv, TypeOK, CommandsFit, Running, Respond, Cmd, ClientRec
  <1>2. cmd' \in [Threads -> Cmd] /\ cmd'[t] = NoCommand /\ \A u \in Threads : u # t => cmd'[u] = cmd[u]
    BY <1>1, NoCommandIsCmd DEF Respond
  <1>3. \A u \in Threads : Running(u)' \/ Pending(u)' => u # t /\ cmd'[u] = cmd[u]
    BY <1>2, NoCommandIsCmd DEF Running, Pending
  <1>4. \/ client' = client
        \/ client' = [client EXCEPT ![c] = Receive(client[c], cmd[t].at, cmd[t].seq)]
    BY DEF Respond, Deliver
  <1>5. Receive(client[c], cmd[t].at, cmd[t].seq) \in ClientRec
    BY <1>1, ReceiveKeepsType DEF Answers
  <1>6. TypeOK'
    <2>1. client' \in [Conns -> ClientRec]
      BY <1>1, <1>4, <1>5
    <2>2. \A u \in Threads : cmd'[u].at = "done" => cmd'[u] = NoCommand
      BY <1>2 DEF IInv, TypeOK
    <2>3. QED
      BY <1>1, <1>2, <2>1, <2>2 DEF IInv, TypeOK, Cmd, ClientRec
  <1>7. CommandsFit'
    BY <1>2, NoCommandIsCmd DEF IInv, CommandsFit, Running
  <1>8. NumbersUsed'
    <2>1. \A u \in Threads : Pending(u)' => Pending(u) /\ cmd'[u] = cmd[u]
      BY <1>3 DEF Pending
    <2>2. QED
      BY <1>1, <2>1 DEF IInv, NumbersUsed
  <1>9. ASSUME NEW d \in Conns PROVE ClientFits(d)'
    <2>1. ClientFits(d)
      BY DEF IInv, ClientsFit
    <2>2. \A u \in Threads : Running(u)' => Running(u) /\ cmd'[u] = cmd[u]
      BY <1>3 DEF Running
    <2>3. CASE client'[d] = client[d]
      BY <2>1, <2>2, <2>3 DEF ClientFits
    <2>4. CASE client'[d] # client[d]
      <3>1. d = c /\ client'[c] = Receive(client[c], cmd[t].at, cmd[t].seq)
        BY <1>1, <1>4, <2>4
      <3>2. client[c].seq = cmd[t].seq /\ client[c].at = "acked"
        <4>1. client[c].at \in {"idle", "sent", "acked"} /\ Running(t)
          BY <1>1 DEF ClientRec, Running
        <4>2. client[c].seq = cmd[t].seq /\ client[c].at # "idle"
          BY <2>4, <3>1, <4>1 DEF Receive
        <4>3. QED
          BY <2>1, <3>1, <4>1, <4>2 DEF ClientFits
      <3>3. client'[c] = [client[c] EXCEPT !.at = "idle", !.seq = 0, !.final = cmd[t].at]
        BY <3>1, <3>2 DEF Receive
      <3>4. /\ client'[c].at = "idle" /\ client'[c].seq = 0
            /\ client'[c].ack = client[c].ack /\ client'[c].final = cmd[t].at
        BY <1>1, <3>3 DEF ClientRec
      <3>5. client[c].ack = "noack" => cmd[t].at = "fail"
        BY <1>1, <2>1, <3>1, <3>2 DEF ClientFits, Running, IInv, CommandsFit
      <3>6. client[c].ack \in {"ack", "noack"}
        BY <2>1, <3>1, <3>2 DEF ClientFits
      <3>7. QED
        BY <1>1, <3>1, <3>4, <3>5, <3>6 DEF ClientFits
    <2>5. QED
      BY <2>3, <2>4
  <1>10. QED
    BY <1>6, <1>7, <1>8, <1>9 DEF IInv, ClientsFit

-----------------------------------------------------------------------------
(* A client that waits for the response, and one that waits for good. *)
Acked(seq, id) == [at |-> "acked", seq |-> seq, garbled |-> FALSE, ack |-> id, final |-> "none"]
Unread(seq)    == [at |-> "sent", seq |-> seq, garbled |-> TRUE, ack |-> "none", final |-> "none"]

(* The first answer to a client that sent a message is its acknowledgement. *)
LEMMA FirstAnswer ==
  ASSUME NEW seq \in 1..MaxSeq, NEW id \in Answers
  PROVE  Receive([at |-> "sent", seq |-> seq, garbled |-> FALSE, ack |-> "none", final |-> "none"], id, seq) =
         [at |-> "acked", seq |-> seq, garbled |-> FALSE, ack |-> id, final |-> "none"]
  <1> DEFINE sent == [at |-> "sent", seq |-> seq, garbled |-> FALSE, ack |-> "none", final |-> "none"]
  <1>1. /\ sent \in ClientRec /\ sent.at = "sent" /\ sent.seq = seq
        /\ sent.garbled = FALSE /\ sent.final = "none"
    BY SeqAssumption DEF ClientRec, Answers
  <1>2. \A r \in ClientRec : r = [at |-> r.at, seq |-> r.seq, garbled |-> r.garbled, ack |-> r.ack, final |-> r.final]
    BY DEF ClientRec
  <1>3. \A r \in ClientRec :
           LET q == [r EXCEPT !.at = "acked", !.ack = id]
           IN  q \in ClientRec /\ q.at = "acked" /\ q.seq = r.seq /\ q.garbled = r.garbled
               /\ q.ack = id /\ q.final = r.final
    BY DEF ClientRec
  <1> HIDE DEF sent
  <1>4. Receive(sent, id, seq) = [sent EXCEPT !.at = "acked", !.ack = id]
    BY <1>1 DEF Receive
  <1>5. Receive(sent, id, seq) = [at |-> "acked", seq |-> seq, garbled |-> FALSE, ack |-> id, final |-> "none"]
    BY <1>1, <1>2, <1>3, <1>4
  <1>6. QED
    BY <1>5 DEF sent

(* What the acknowledgement does to the client of a message that was read:  *)
(* a client that was idle is acknowledged, or waits if its message could    *)
(* not be read, and any other is left as it was.                            *)
LEMMA AcknowledgeIs ==
  ASSUME IInv, NEW c \in Conns, NEW kind \in Kind, NEW seq \in 1..MaxSeq, seq \notin InFlight(c),
         NEW new, new = CommandFor(c, kind, seq),
         NEW sent, sent = Sends(client[c], kind, seq),
         Acknowledge(c, sent, new)
  PROVE  /\ client' \in [Conns -> ClientRec]
         /\ \A d \in Conns : d # c => client'[d] = client[d]
         /\ \/ client'[c] = client[c] /\ client[c].seq # seq
              /\ (client[c].at # "idle" => new.seq # client[c].seq)
            \/ kind # "garbled" /\ client'[c] = Acked(seq, AckOf(new.kind))
            \/ kind = "garbled" /\ client'[c] = Unread(seq)
  <1> USE SeqAssumption
  <1>1. client \in [Conns -> ClientRec] /\ ClientFits(c)
    BY DEF IInv, TypeOK, ClientsFit, ClientRec
  <1>2. new \in Cmd /\ new.seq = AnswerSeq(kind, seq)
    BY CommandForIs
  <1>3. client' = [client EXCEPT ![c] = Receive(sent, AckOf(new.kind), new.seq)]
    BY DEF Acknowledge
  <1>4. AckOf(new.kind) \in {"ack", "noack"}
    BY DEF AckOf
  <1>5. client[c].seq # seq
    BY <1>1 DEF InFlight, ClientFits
  <1>6. CASE client[c].at = "idle" /\ kind # "garbled"
    <2>1. sent = [at |-> "sent", seq |-> seq, garbled |-> FALSE, ack |-> "none", final |-> "none"]
      BY <1>6 DEF Idle, Sends
    <2>2. Receive(sent, AckOf(new.kind), new.seq) = Acked(seq, AckOf(new.kind))
      BY <1>2, <1>4, <1>6, <2>1, FirstAnswer DEF Answers, AnswerSeq, Acked
    <2>3. Acked(seq, AckOf(new.kind)) \in ClientRec
      BY <1>4 DEF Acked, ClientRec, Answers
    <2>4. QED
      BY <1>1, <1>3, <1>6, <2>2, <2>3
  <1>7. CASE client[c].at = "idle" /\ kind = "garbled"
    <2>1. sent = Unread(seq)
      BY <1>7 DEF Idle, Sends, Unread
    <2>2. Unread(seq) \in ClientRec /\ Unread(seq).seq = seq
      BY DEF Unread, ClientRec, Answers
    <2>3. Receive(sent, AckOf(new.kind), new.seq) = Unread(seq)
      BY <1>2, <1>7, <2>1, <2>2 DEF Receive, AnswerSeq
    <2>4. QED
      BY <1>1, <1>3, <1>7, <2>2, <2>3
  <1>8. CASE client[c].at # "idle"
    <2>1. sent = client[c]
      BY <1>8 DEF Sends
    <2>2. new.seq # client[c].seq
      BY <1>1, <1>2, <1>5, <1>8 DEF ClientFits, AnswerSeq
    <2>3. Receive(sent, AckOf(new.kind), new.seq) = client[c]
      BY <2>1, <2>2 DEF Receive
    <2>4. QED
      BY <1>1, <1>3, <1>5, <2>2, <2>3
  <1>9. QED
    BY <1>6, <1>7, <1>8

(* A message that is read becomes a command whose number was never used, or *)
(* one that is refused.                                                     *)
LEMMA ReadIInv ==
  ASSUME IInv, NEW c \in Conns, NEW t \in Threads, ReadCommand(c, t)
  PROVE  IInv'
  <1> USE SeqAssumption
  <1>0. PICK kind \in Kind, seq \in 1..MaxSeq : \E new, sent :
            /\ new = CommandFor(c, kind, seq)
            /\ sent = Sends(client[c], kind, seq)
            /\ seq \notin InFlight(c) /\ cmd' = [cmd EXCEPT ![t] = new]
            /\ prevSeqId' = IF kind = "garbled" \/ OldSeqId(seq) THEN prevSeqId ELSE seq
            /\ Acknowledge(c, sent, new)
    BY SeqAssumption DEF ReadCommand
  <1>1. PICK new, sent :
            /\ new = CommandFor(c, kind, seq)
            /\ sent = Sends(client[c], kind, seq)
            /\ seq \notin InFlight(c) /\ cmd' = [cmd EXCEPT ![t] = new]
            /\ prevSeqId' = IF kind = "garbled" \/ OldSeqId(seq) THEN prevSeqId ELSE seq
            /\ Acknowledge(c, sent, new)
    BY <1>0
  <1>2. /\ cmd[t] = NoCommand /\ link' = [link EXCEPT ![c] = "ack"]
        /\ UNCHANGED <<remote, told, ran>>
    BY DEF ReadCommand
  <1>3. /\ new \in Cmd /\ new.conn = c /\ new.at = "act" /\ new.seq = AnswerSeq(kind, seq)
        /\ new.kind = "noack" <=> kind \in {"garbled", "invalid"} \/ OldSeqId(seq)
    BY <1>1, CommandForIs
  <1>4. cmd \in [Threads -> Cmd] /\ prevSeqId \in 0..MaxSeq
    BY DEF IInv, TypeOK, Cmd
  <1>5. cmd' \in [Threads -> Cmd] /\ cmd'[t] = new /\ \A u \in Threads : u # t => cmd'[u] = cmd[u]
    BY <1>1, <1>3, <1>4
  <1>6. /\ client' \in [Conns -> ClientRec]
        /\ \A d \in Conns : d # c => client'[d] = client[d]
        /\ \/ client'[c] = client[c] /\ client[c].seq # seq
              /\ (client[c].at # "idle" => new.seq # client[c].seq)
           \/ kind # "garbled" /\ client'[c] = Acked(seq, AckOf(new.kind))
           \/ kind = "garbled" /\ client'[c] = Unread(seq)
    BY <1>1, AcknowledgeIs
  <1>7. prevSeqId' \in 0..MaxSeq /\ prevSeqId <= prevSeqId'
    BY <1>1, <1>4 DEF OldSeqId
  <1>8. TypeOK'
    <2>1. link' \in [Conns -> {"none", "read", "ack"}]
      BY <1>2 DEF IInv, TypeOK
    <2>2. \A u \in Threads : cmd'[u].at = "done" => cmd'[u] = NoCommand
      BY <1>3, <1>5 DEF IInv, TypeOK
    <2>3. QED
      BY <1>2, <1>5, <1>6, <1>7, <2>1, <2>2 DEF IInv, TypeOK, Cmd, ClientRec
  <1>9. CommandsFit'
    BY <1>3, <1>5 DEF IInv, CommandsFit, Running
  <1>10. NumbersUsed'
    <2>1. Pending(t)' => new.seq = seq /\ prevSeqId < seq /\ prevSeqId' = seq
      BY <1>1, <1>3, <1>4, <1>5 DEF Pending, AnswerSeq, OldSeqId
    <2>2. \A u \in Threads : u # t /\ Pending(u)' => Pending(u) /\ cmd'[u] = cmd[u]
      BY <1>5 DEF Pending
    <2>3. \A s \in 1..MaxSeq : ran[s] \in {0, 1} /\ (ran[s] = 1 => s <= prevSeqId)
      BY DEF IInv, NumbersUsed
    <2>4. \A s \in 1..MaxSeq : ran'[s] \in {0, 1} /\ (ran'[s] = 1 => s <= prevSeqId')
      BY <1>2, <1>4, <1>7, <2>3
    <2>5. ASSUME NEW u \in Threads, Pending(u)'
          PROVE  cmd'[u].seq \in 1..MaxSeq /\ cmd'[u].seq <= prevSeqId' /\ ran'[cmd'[u].seq] = 0
      <3>1. CASE u = t
        BY <1>2, <1>4, <1>5, <2>1, <2>3, <2>5, <3>1
      <3>2. CASE u # t
        <4>1. cmd[u].seq \in 1..MaxSeq /\ cmd[u].seq <= prevSeqId /\ ran[cmd[u].seq] = 0
          BY <2>2, <2>5, <3>2 DEF IInv, NumbersUsed
        <4>2. QED
          BY <1>2, <1>4, <1>5, <1>7, <3>2, <4>1
      <3>3. QED
        BY <3>1, <3>2
    <2>6. \A u \in Threads :
              u # t /\ Pending(u)' => cmd'[u].seq \in 1..MaxSeq /\ cmd'[u].seq <= prevSeqId
      BY <2>2 DEF IInv, NumbersUsed
    <2>7. \A u \in Threads : u # t /\ Pending(u)' /\ Pending(t)' => cmd'[u].seq # cmd'[t].seq
      BY <1>4, <1>5, <2>1, <2>6
    <2>8. \A u, v \in Threads :
              u # v /\ u # t /\ v # t /\ Pending(u)' /\ Pending(v)' => cmd'[u].seq # cmd'[v].seq
      BY <2>2 DEF IInv, NumbersUsed
    <2>9. QED
      BY <2>4, <2>5, <2>7, <2>8 DEF NumbersUsed
  <1>11. ASSUME NEW d \in Conns PROVE ClientFits(d)'
    <2>1. ClientFits(d)
      BY DEF IInv, ClientsFit
    <2>2. CASE d # c
      BY <1>3, <1>5, <1>6, <2>1, <2>2 DEF ClientFits, Running
    <2>3. CASE d = c /\ client'[c] = client[c] /\ (client[c].at # "idle" => new.seq # client[c].seq)
      BY <1>5, <2>1, <2>3 DEF ClientFits, Running
    <2>4. \A u \in Threads : u # t /\ Running(u)' /\ cmd'[u].conn = c => cmd'[u].seq # seq
      BY <1>1, <1>5 DEF InFlight, Commands, Running
    <2>5. CASE d = c /\ client'[c] = Acked(seq, AckOf(new.kind))
      <3>1. AckOf(new.kind) \in {"ack", "noack"} /\ (AckOf(new.kind) = "noack" <=> new.kind = "noack")
        BY DEF AckOf
      <3>2. QED
        BY <1>5, <2>4, <2>5, <3>1 DEF ClientFits, Acked
    <2>6. CASE d = c /\ kind = "garbled" /\ client'[c] = Unread(seq)
      <3>1. new.seq # seq
        BY <1>3, <2>6 DEF AnswerSeq
      <3>2. QED
        BY <1>5, <2>4, <2>6, <3>1 DEF ClientFits, Unread
    <2>7. QED
      BY <1>6, <2>2, <2>3, <2>5, <2>6
  <1>12. QED
    BY <1>8, <1>9, <1>10, <1>11 DEF IInv, ClientsFit

-----------------------------------------------------------------------------
(* A connection opens without commands, and changes nothing else. *)
LEMMA ConnectIInv ==
  ASSUME IInv, NEW c \in Conns, Connect(c)
  PROVE  IInv'
  <1> USE SeqAssumption
  <1>1. TypeOK'
    BY DEF IInv, TypeOK, Connect, Idle, Answers
  <1>2. UNCHANGED <<cmd, prevSeqId, ran>> /\ client' = [client EXCEPT ![c] = Idle]
    BY DEF Connect
  <1>3. CommandsFit' /\ NumbersUsed'
    BY <1>2 DEF IInv, CommandsFit, Running, NumbersUsed, Pending
  <1>4. client' \in [Conns -> ClientRec] /\ client'[c] = Idle /\ \A d \in Conns : d # c => client'[d] = client[d]
    BY <1>1, <1>2 DEF IInv, TypeOK, ClientRec
  <1>5. ASSUME NEW d \in Conns PROVE ClientFits(d)'
    BY <1>2, <1>4 DEF IInv, ClientsFit, ClientFits, Idle, Running
  <1>6. QED
    BY <1>1, <1>3, <1>5 DEF IInv, ClientsFit

(* Steps of a connection that touch neither commands nor clients. *)
LEMMA LinkIInv ==
  ASSUME IInv, UNCHANGED <<cmd, prevSeqId, remote, told, client, ran>>,
         link' \in [Conns -> {"none", "read", "ack"}]
  PROVE  IInv'
  BY DEF IInv, TypeOK, CommandsFit, NumbersUsed, ClientsFit, ClientFits, Running, Pending

(* The inductive invariant is kept by every step. *)
LEMMA NextIInv == IInv /\ [Next]_netVars => IInv'
  <1> SUFFICES ASSUME IInv, [Next]_netVars PROVE IInv'
    OBVIOUS
  <1>1. ASSUME NEW c \in Conns, Connect(c) PROVE IInv'
    BY <1>1, ConnectIInv
  <1>2. ASSUME NEW c \in Conns, ResponseSent(c) \/ Disconnect(c) PROVE IInv'
    BY <1>2, LinkIInv DEF ResponseSent, Disconnect, IInv, TypeOK
  <1>3. ASSUME NEW c \in Conns, NEW t \in Threads, ReadCommand(c, t) PROVE IInv'
    BY <1>3, ReadIInv
  <1>4. ASSUME NEW t \in Threads, Run(t) PROVE IInv'
    BY <1>4, ActIInv, LookIInv, TellIInv, RespondIInv DEF Run
  <1>5. CASE UNCHANGED netVars
    BY <1>5, LinkIInv DEF netVars, IInv, TypeOK
  <1>6. QED
    BY <1>1, <1>2, <1>3, <1>4, <1>5 DEF Next

-----------------------------------------------------------------------------
(* The invariant holds, for any number of clients, threads and commands. *)
THEOREM Invariance == Spec => []IInv
  BY InitIInv, NextIInv, PTL DEF Spec

(* The state keeps its types. *)
THEOREM TypeCorrect == Spec => []TypeOK
  <1>1. IInv => TypeOK
    BY DEF IInv
  <1>2. QED
    BY <1>1, Invariance, PTL

(* getCommandFor: a command is run at most once, whichever client repeats   *)
(* it and over whichever connection.                                        *)
THEOREM CommandsRunOnce == Spec => []RunsOnce
  <1>1. IInv => RunsOnce
    BY DEF IInv, NumbersUsed, RunsOnce
  <1>2. QED
    BY <1>1, Invariance, PTL

(* cmdSendRecv: the answers a client takes are an acknowledgement and then  *)
(* a final response, and what was refused fails.                            *)
THEOREM AnswersAlwaysFit == Spec => []AnswersFit
  <1>1. IInv => AnswersFit
    <2>1. SUFFICES ASSUME IInv, NEW c \in Conns
                   PROVE  /\ client[c].at # "sent" => client[c].ack \in {"none", "ack", "noack"}
                          /\ client[c].at = "idle" => client[c].final \in {"none", "success", "fail"}
                          /\ client[c].ack = "noack" => client[c].final \in {"none", "fail"}
      BY DEF AnswersFit
    <2>2. client[c].at \in {"idle", "sent", "acked"}
      BY <2>1 DEF IInv, TypeOK
    <2>3. QED
      BY <2>1, <2>2 DEF IInv, ClientsFit, ClientFits
  <1>2. QED
    BY <1>1, Invariance, PTL
=============================================================================
