---------------------------- MODULE ThreadPool_proofs ----------------------------
(***************************************************************************)
(* What holds of ThreadPool for any finite number of threads, any commands *)
(* and any of them leaving the pool or being made to leave, however often  *)
(* and to whatever sizes the pool is resized and whether it is shut down.  *)
(***************************************************************************)
EXTENDS ThreadPool, FiniteSetTheorems, TLAPS

(* A thread has a command from getCmd to the end of the command's action,   *)
(* and names it as current from specialActions on.                         *)
HasCmd(t) == thr[t].cmd # None
RightCmd(r) ==
    /\ r.cmd # None <=> r.at \in {"begin", "run", "leave", "left", "ran"}
    /\ r.current # None => r.current = r.cmd /\ r.at # "begin"
CmdWhileRunning == \A t \in Threads : RightCmd(thr[t])

(* A command is in one place: in the queue, with a thread, or done with. *)
InQueue(c) == \E i \in DOMAIN queue : queue[i] = c
OnePlace ==
    /\ \A i, j \in DOMAIN queue : queue[i] = queue[j] /\ i # j => queue[i] = End
    /\ \A c \in Cmds : InQueue(c) => c \notin ran /\ \A t \in Threads : thr[t].cmd # c
    /\ \A t \in Threads : thr[t].cmd \notin ran
    /\ \A t, u \in Threads : HasCmd(t) /\ thr[t].cmd = thr[u].cmd => t = u

(* What was finished is what a thread has finished, or is done with. *)
FinishedBy(t, c) == thr[t].cmd = c /\ thr[t].finishCalled = TRUE
FinishedWhenCalled ==
    \A c \in Cmds :
        /\ finished[c] \in {0, 1}
        /\ finished[c] = 1 <=> c \in ran \/ \E t \in Threads : FinishedBy(t, c)

(* leavePool from outside: the thread exists; once it was told to stop it   *)
(* takes no command, and when it ran the one that was meant, it has that    *)
(* one still or has finished it.                                           *)
Stopped(t, c) ==
    /\ thr[t].at \notin {"get", "begin"}
    /\ thr[t].cmd = c \/ thr[t].finishCalled = TRUE
SlowThread ==
    slow # NotSlow =>
        /\ thr[slow.thread].at # "none"
        /\ slow.at # "stop" => thr[slow.thread].eLoop = FALSE
        /\ slow.at \in {"finish", "release"} => Stopped(slow.thread, slow.cmd)
Owned == \A c \in Cmds : owner[c] # None => thr[owner[c]].at # "none"

(* The release of a thread: in the pool until it is erased from it, and no  *)
(* longer then; with the joiner, in one place, after it was added.          *)
ToBeJoined(t) == (\E i \in DOMAIN toJoin : toJoin[i] = t) \/ joiner.thread = t
ReleasedOnce ==
    /\ \A i, j \in DOMAIN toJoin : toJoin[i] = toJoin[j] => i = j
    /\ \A i \in DOMAIN toJoin : toJoin[i] # joiner.thread
    /\ \A t \in Threads :
        /\ ToBeJoined(t) <=> release[t].at \in {"resize", "done"}
        /\ thr[t].at # "none" /\ release[t].at \in {"no", "erase"} => t \in pool
        /\ release[t].at \in {"add", "resize", "done"} => t \notin pool
        /\ thr[t].at = "none" => release[t].at = "no"

IInv ==
    /\ TypeOK /\ CmdWhileRunning /\ OnePlace /\ FinishedWhenCalled
    /\ SlowThread /\ Owned /\ ReleasedOnce

-----------------------------------------------------------------------------
(* The parts of TypeOK. *)
ThreadRecords == [at : {"none", "loop", "get", "begin", "run", "leave", "left", "ran",
                        "finishup", "ended"},
                  cmd : Cmds \cup {None}, current : Cmds \cup {None},
                  eLoop : BOOLEAN, finishCalled : BOOLEAN]
Slows == [at : {"stop", "compare", "finish", "release"}, thread : Threads, cmd : Slow]
ReleaseTypes == release \in [Threads -> [at : {"no", "erase", "add", "resize", "done"},
                                         by : {None, "self", "outside"}]]
PoolTypes == /\ pool \subseteq Threads /\ poolMtx \in Threads \cup {None}
             /\ target \in 0..Cardinality(Threads) /\ max \in Nat
CallTypes == /\ resizes \in [calls : 0..MaxResizes, acts : BOOLEAN]
             /\ stop \in {"no", "flag", "end", "wait", "join", "done"}
JoinTypes == /\ toJoin \in Seq(Threads) /\ joiner \in [runs : BOOLEAN, thread : Threads \cup {None}]
CmdTypes  == finished \in [Cmds -> Nat] /\ ran \subseteq Cmds

LEMMA TypeParts ==
    TypeOK <=> /\ queue \in Seq(Cmds \cup {End})
               /\ thr \in [Threads -> ThreadRecords] /\ owner \in [Cmds -> Threads \cup {None}]
               /\ slow \in Slows \cup {NotSlow}
               /\ ReleaseTypes /\ PoolTypes /\ CallTypes /\ JoinTypes /\ CmdTypes
BY DEF TypeOK, ThreadRecords, Slows, ReleaseTypes, PoolTypes, CallTypes, JoinTypes, CmdTypes

-----------------------------------------------------------------------------
(* SomeOf takes its elements from the set, of which there are enough. *)
LEMMA SubsetOfEachSize ==
    ASSUME NEW S, IsFiniteSet(S), NEW k \in 0..Cardinality(S)
    PROVE  \E s \in SUBSET S : Cardinality(s) = k
<1>1. Cardinality(S) \in Nat /\ ExistsBijection(1..Cardinality(S), S)
    BY FS_CardinalityType
<1>2. PICK f : f \in Bijection(1..Cardinality(S), S)
    BY <1>1 DEF ExistsBijection
<1> DEFINE s == {f[i] : i \in 1..k}
           g == [i \in 1..k |-> f[i]]
<1>3. 1..k \subseteq 1..Cardinality(S) /\ k \in Nat
    BY <1>1
<1>4. s \in SUBSET S
    BY <1>2, <1>3 DEF Bijection, Injection, Surjection
<1>5. g \in Bijection(1..k, s)
    BY <1>2, <1>3 DEF Bijection, Injection, Surjection, IsInjective
<1>6. Cardinality(s) = k
    BY <1>5, <1>3, FS_CountingElements DEF ExistsBijection
<1> QED
    BY <1>4, <1>6

LEMMA SomeOfIs ==
    ASSUME NEW S, IsFiniteSet(S), NEW n \in Nat
    PROVE  SomeOf(S, n) \subseteq S
<1> DEFINE k == IF n <= Cardinality(S) THEN n ELSE Cardinality(S)
<1>1. k \in 0..Cardinality(S)
    BY FS_CardinalityType
<1>2. \E s \in SUBSET S : Cardinality(s) = k
    BY <1>1, SubsetOfEachSize
<1> QED
    BY <1>2 DEF SomeOf

(* AddThreads takes identities that are free. *)
LEMMA AddsSome ==
    ASSUME PoolAssumption, TypeOK, AddThreads
    PROVE  \E new \in SUBSET {t \in Threads : thr[t].at = "none"} :
               /\ pool' = pool \cup new
               /\ thr' = [t \in Threads |-> IF t \in new THEN NewThread ELSE thr[t]]
<1> DEFINE missing == IF target > Cardinality(pool) THEN target - Cardinality(pool) ELSE 0
           free    == {t \in Threads : thr[t].at = "none"}
           new     == SomeOf(free, missing)
<1>1. IsFiniteSet(free) /\ IsFiniteSet(pool) /\ Cardinality(pool) \in Nat
    BY FS_Subset, FS_CardinalityType DEF PoolAssumption, TypeOK
<1>2. Cardinality(Threads) \in Nat
    BY FS_CardinalityType DEF PoolAssumption
<1>3. missing \in Nat
    BY <1>1, <1>2 DEF TypeOK
<1>4. new \subseteq free
    BY <1>1, <1>3, SomeOfIs
<1>5. /\ pool' = pool \cup new
      /\ thr' = [t \in Threads |-> IF t \in new THEN NewThread ELSE thr[t]]
    BY DEF AddThreads
<1> HIDE DEF new, missing
<1> QED
    BY <1>4, <1>5
-----------------------------------------------------------------------------
USE DEF threadVars, poolVars, callVars, joinVars, cmdVars

(* The steps of threads, of those that release one, of those that resize    *)
(* the pool, and what is called.                                           *)
ThreadGoes(t) == LoopCheck(t) \/ GetCmd(t) \/ BeginCmd(t) \/ RunCmd(t) \/ LeavePool(t) \/ CmdDone(t)
                 \/ FinishedUp(t)
Resizing == (\E t \in Threads : ReleaseResize(t)) \/ ResizeActs \/ EndAllActs
Releases(t) == (\E by \in {"self", "outside"} : ReleaseBegin(t, by)) \/ ReleaseErase(t) \/ ReleaseAdd(t)
Called == (\E n \in Sizes : Resize(n)) \/ Shutdown \/ EndAll \/ WaitForResize \/ ShutdownJoin

(* The steps of the pool, and the variables that each kind leaves alone. *)
LEMMA StepsAre ==
    ASSUME Next
    PROVE  \/ \E t \in Threads : ThreadGoes(t)
           \/ \E t \in Threads : Releases(t)
           \/ Resizing \/ Joins \/ SlowGoes
           \/ \E c \in Cmds : SlowBegin(c) \/ QueCmd(c)
           \/ Called
BY DEF Next, Runs, Calls, Thread, StopGoes, ThreadGoes, Releases, Resizing, Called

LEMMA ThreadGoesKeeps ==
    ASSUME NEW t \in Threads, ThreadGoes(t)
    PROVE  /\ UNCHANGED <<release, pool, poolMtx, target, max, resizes, stop, slow, toJoin, joiner>>
           /\ queue' = queue \/ GetCmd(t)
           /\ owner' = owner \/ BeginCmd(t)
           /\ UNCHANGED <<finished, ran>> \/ LeavePool(t) \/ CmdDone(t)
BY DEF ThreadGoes, LoopCheck, GetCmd, BeginCmd, RunCmd, LeavePool, CmdDone, FinishedUp

LEMMA ReleasesKeeps ==
    ASSUME NEW t \in Threads, Releases(t)
    PROVE  UNCHANGED <<queue, thr, owner, target, max, resizes, stop, slow, joiner, finished, ran>>
BY DEF Releases, ReleaseBegin, ReleaseErase, ReleaseAdd

LEMMA ResizingKeeps ==
    ASSUME Resizing
    PROVE  /\ UNCHANGED <<owner, poolMtx, target, max, slow, toJoin, joiner, finished, ran>>
           /\ AddThreads /\ EndOne
           /\ \/ UNCHANGED release
              \/ \E t \in Threads : /\ release[t].at = "resize"
                                    /\ release' = [release EXCEPT ![t].at = "done"]
BY DEF Resizing, ReleaseResize, ResizeActs, EndAllActs, ResizePool

LEMMA JoinsKeeps ==
    ASSUME Joins
    PROVE  /\ UNCHANGED <<queue, pool, poolMtx, target, max, resizes, stop, slow, finished, ran>>
           /\ UNCHANGED <<thr, owner, release>> \/ Joined
BY DEF Joins, Join, Joined, JoinerEnds

LEMMA SlowGoesKeeps ==
    ASSUME SlowGoes
    PROVE  /\ UNCHANGED <<queue, owner, release, pool, poolMtx, target, max, resizes, stop, toJoin, joiner,
                         ran>>
           /\ UNCHANGED thr \/ SlowStop \/ SlowFinish
           /\ UNCHANGED finished \/ SlowFinish
BY DEF SlowGoes, SlowStop, SlowCompare, SlowFinish, SlowEnds

LEMMA SlowBeginKeeps ==
    ASSUME NEW c \in Cmds, SlowBegin(c) \/ QueCmd(c)
    PROVE  /\ UNCHANGED <<thr, release, pool, poolMtx, target, max, resizes, stop, toJoin, joiner, finished,
                         ran>>
           /\ UNCHANGED <<slow, owner>> \/ SlowBegin(c)
           /\ UNCHANGED queue \/ QueCmd(c)
BY DEF SlowBegin, QueCmd

LEMMA CalledKeeps ==
    ASSUME Called
    PROVE  UNCHANGED <<queue, thr, owner, release, pool, poolMtx, slow, toJoin, joiner, finished, ran>>
BY DEF Called, Resize, Shutdown, EndAll, WaitForResize, ShutdownJoin
-----------------------------------------------------------------------------
(* Only t changes, and what it has of these does not. *)
OnlyThread(t) == thr' \in [Threads -> ThreadRecords] /\ \A u \in Threads : u # t => thr'[u] = thr[u]
SameCmd(t)    == thr'[t].cmd = thr[t].cmd
SameCurrent(t) == thr'[t].current = thr[t].current
SameLoop(t) == thr'[t].eLoop = thr[t].eLoop
SameFlag(t) == thr'[t].finishCalled = thr[t].finishCalled
SameRest(t) == OnlyThread(t) /\ SameCmd(t) /\ SameCurrent(t)

USE DEF ThreadRecords, OnlyThread, SameCmd, SameCurrent, SameLoop, SameFlag, SameRest

(* What each step of a thread does to its EventThread. *)
LEMMA LoopCheckEffect ==
    ASSUME thr \in [Threads -> ThreadRecords], NEW t \in Threads, LoopCheck(t)
    PROVE  /\ thr[t].at = "loop" /\ thr'[t].at = IF thr[t].eLoop THEN "get" ELSE "finishup"
           /\ SameRest(t) /\ SameLoop(t) /\ SameFlag(t)
BY DEF LoopCheck, Goto

LEMMA GetCmdEffect ==
    ASSUME thr \in [Threads -> ThreadRecords], NEW t \in Threads, queue \in Seq(Cmds \cup {End}),
           GetCmd(t)
    PROVE  /\ thr[t].at = "get" /\ queue # <<>> /\ queue' = Tail(queue)
           /\ OnlyThread(t) /\ SameCurrent(t)
           /\ Head(queue) = End => /\ thr'[t].at = "loop" /\ SameCmd(t)
                                   /\ thr'[t].eLoop = FALSE /\ SameFlag(t)
           /\ Head(queue) # End => /\ thr'[t].at = "begin" /\ thr'[t].cmd = Head(queue)
                                   /\ SameLoop(t) /\ thr'[t].finishCalled = FALSE
<1>1. thr[t].at = "get" /\ queue # <<>> /\ queue' = Tail(queue)
    BY DEF GetCmd
<1>2. Head(queue) \in Cmds \cup {End}
    BY <1>1
<1>3. CASE Head(queue) = End
  <2> thr' = [thr EXCEPT ![t] = [thr[t] EXCEPT !.at = "loop", !.eLoop = FALSE]]
    BY <1>3 DEF GetCmd
  <2> QED BY <1>1, <1>3
<1>4. CASE Head(queue) # End
  <2> thr' = [thr EXCEPT ![t] = [thr[t] EXCEPT !.at = "begin", !.cmd = Head(queue),
                                             !.finishCalled = FALSE]]
    BY <1>4 DEF GetCmd, Take
  <2> QED BY <1>1, <1>2, <1>4
<1> QED BY <1>3, <1>4

LEMMA BeginCmdEffect ==
    ASSUME thr \in [Threads -> ThreadRecords], NEW t \in Threads, BeginCmd(t)
    PROVE  /\ thr[t].at = "begin" /\ thr'[t].at = "run"
           /\ OnlyThread(t) /\ SameCmd(t) /\ thr'[t].current = thr[t].cmd /\ SameLoop(t) /\ SameFlag(t)
BY DEF BeginCmd

LEMMA RunCmdEffect ==
    ASSUME thr \in [Threads -> ThreadRecords], NEW t \in Threads, RunCmd(t)
    PROVE  /\ thr[t].at = "run" /\ thr'[t].at \in {"leave", "ran"}
           /\ SameRest(t) /\ SameFlag(t) /\ (thr[t].eLoop = FALSE => thr'[t].eLoop = FALSE)
BY DEF RunCmd, Goto

LEMMA LeavePoolEffect ==
    ASSUME thr \in [Threads -> ThreadRecords], NEW t \in Threads, LeavePool(t)
    PROVE  /\ thr[t].at = "leave" /\ thr'[t].at = "left"
           /\ SameRest(t) /\ SameLoop(t) /\ thr'[t].finishCalled = TRUE
BY DEF LeavePool

LEMMA CmdDoneEffect ==
    ASSUME thr \in [Threads -> ThreadRecords], NEW t \in Threads, CmdDone(t)
    PROVE  /\ thr[t].at = "ran" /\ thr'[t].at = "loop"
           /\ OnlyThread(t) /\ thr'[t].cmd = None /\ thr'[t].current = None
           /\ SameLoop(t) /\ thr'[t].finishCalled = TRUE
<1> thr' = [thr EXCEPT ![t] = [thr[t] EXCEPT !.at = "loop", !.cmd = None, !.current = None,
                                           !.finishCalled = TRUE]]
    BY DEF CmdDone
<1> thr[t].at = "ran"
    BY DEF CmdDone
<1> QED
    OBVIOUS

LEMMA FinishedUpEffect ==
    ASSUME thr \in [Threads -> ThreadRecords], NEW t \in Threads, FinishedUp(t)
    PROVE  /\ \/ thr[t].at = "left" /\ thr'[t].at = "ran"
              \/ thr[t].at = "finishup" /\ thr'[t].at = "ended"
           /\ SameRest(t) /\ SameLoop(t) /\ SameFlag(t)
BY DEF FinishedUp, Goto

LEMMA SlowStopEffect ==
    ASSUME thr \in [Threads -> ThreadRecords], slow.thread \in Threads, SlowStop
    PROVE  LET t == slow.thread
           IN  thr'[t].at = thr[t].at /\ SameRest(t) /\ thr'[t].eLoop = FALSE /\ SameFlag(t)
BY DEF SlowStop

LEMMA SlowFinishEffect ==
    ASSUME thr \in [Threads -> ThreadRecords], slow.thread \in Threads, SlowFinish
    PROVE  LET t == slow.thread
           IN  thr'[t].at = thr[t].at /\ SameRest(t) /\ SameLoop(t) /\ thr'[t].finishCalled = TRUE
<1> thr' = [thr EXCEPT ![slow.thread].finishCalled = TRUE]
    BY DEF SlowFinish
<1> QED
    OBVIOUS

LEMMA JoinedEffect ==
    ASSUME thr \in [Threads -> ThreadRecords], joiner.thread \in Threads, Joined
    PROVE  LET t == joiner.thread
           IN  /\ thr[t].at = "ended" /\ thr'[t].at = "none"
               /\ thr'[t].cmd = None /\ thr'[t].current = None
               /\ OnlyThread(t)
<1> thr[joiner.thread].at = "ended" /\ thr' = [thr EXCEPT ![joiner.thread] = NoThread]
    BY DEF Joined
<1> QED
  BY DEF NoThread

(* AddThreads gives objects to identities that had none. *)
LEMMA AddsThreads ==
    ASSUME PoolAssumption, TypeOK, AddThreads
    PROVE  /\ thr' \in [Threads -> ThreadRecords] /\ pool' \subseteq Threads /\ pool \subseteq pool'
           /\ \A t \in Threads :
                \/ thr'[t] = thr[t]
                \/ /\ thr[t].at = "none" /\ t \in pool'
                   /\ thr'[t].at = "loop" /\ thr'[t].cmd = None /\ thr'[t].current = None
                   /\ thr'[t].eLoop = TRUE /\ thr'[t].finishCalled = FALSE
           /\ \A t \in Threads : thr[t].at # "none" /\ t \notin pool => t \notin pool'
<1>1. PICK new \in SUBSET {t \in Threads : thr[t].at = "none"} :
          /\ pool' = pool \cup new
          /\ thr' = [t \in Threads |-> IF t \in new THEN NewThread ELSE thr[t]]
    BY AddsSome
<1>2. thr \in [Threads -> ThreadRecords] /\ pool \subseteq Threads
    BY DEF TypeOK
<1>3. /\ NewThread \in ThreadRecords /\ NewThread.at = "loop" /\ NewThread.cmd = None
      /\ NewThread.current = None /\ NewThread.eLoop = TRUE /\ NewThread.finishCalled = FALSE
    BY DEF NewThread, NoThread
<1> HIDE DEF ThreadRecords
<1> QED
    BY <1>1, <1>2, <1>3

HIDE DEF ThreadRecords, OnlyThread, SameCmd, SameCurrent, SameLoop, SameFlag, SameRest

-----------------------------------------------------------------------------
(* The types. *)
LEMMA QueueTyped ==
    ASSUME TypeOK, Next
    PROVE  (queue \in Seq(Cmds \cup {End}))'
<1>1. queue \in Seq(Cmds \cup {End})
    BY TypeParts
<1>2. ASSUME NEW t \in Threads, GetCmd(t) PROVE (queue \in Seq(Cmds \cup {End}))'
    BY <1>1, <1>2 DEF GetCmd
<1>3. ASSUME Resizing PROVE (queue \in Seq(Cmds \cup {End}))'
    BY <1>1, <1>3, ResizingKeeps DEF EndOne
<1>4. ASSUME NEW c \in Cmds, QueCmd(c) PROVE (queue \in Seq(Cmds \cup {End}))'
    BY <1>1, <1>4 DEF QueCmd
<1> QED
    BY <1>1, <1>2, <1>3, <1>4, StepsAre, ThreadGoesKeeps, ReleasesKeeps, JoinsKeeps, SlowGoesKeeps,
       SlowBeginKeeps, CalledKeeps

LEMMA ReleaseTyped ==
    ASSUME TypeOK, Next
    PROVE  ReleaseTypes'
<1>1. ReleaseTypes
    BY TypeParts
<1>2. ASSUME NEW t \in Threads, Releases(t) PROVE ReleaseTypes'
    BY <1>1, <1>2 DEF Releases, ReleaseBegin, ReleaseErase, ReleaseAdd, ReleaseTypes
<1>3. ASSUME Resizing PROVE ReleaseTypes'
    BY <1>1, <1>3, ResizingKeeps DEF ReleaseTypes
<1>4. ASSUME Joined PROVE ReleaseTypes'
    BY <1>1, <1>4 DEF Joined, NotReleased, ReleaseTypes
<1>5. ASSUME UNCHANGED release PROVE ReleaseTypes'
    BY <1>1, <1>5 DEF ReleaseTypes
<1> QED
    BY <1>2, <1>3, <1>4, <1>5, StepsAre, ThreadGoesKeeps, JoinsKeeps, SlowGoesKeeps, SlowBeginKeeps,
       CalledKeeps

LEMMA PoolTyped ==
    ASSUME PoolAssumption, TypeOK, Next
    PROVE  PoolTypes'
<1>1. PoolTypes /\ (AddThreads => pool' \subseteq Threads)
    BY TypeParts, AddsThreads
<1>2. Sizes \subseteq 0..Cardinality(Threads) /\ Cardinality(Threads) \in Nat
    BY FS_CardinalityType DEF PoolAssumption
<1>3. ASSUME NEW t \in Threads, Releases(t) PROVE PoolTypes'
    BY <1>1, <1>3, ReleasesKeeps DEF Releases, ReleaseBegin, ReleaseErase, ReleaseAdd, PoolTypes
<1>4. ASSUME Called PROVE PoolTypes'
    BY <1>1, <1>2, <1>4 DEF Called, Resize, Shutdown, EndAll, WaitForResize, ShutdownJoin, SetTarget,
       PoolTypes
<1>5. ASSUME UNCHANGED <<poolMtx, target, max>>, UNCHANGED pool \/ AddThreads PROVE PoolTypes'
    BY <1>1, <1>5 DEF PoolTypes
<1> QED
    BY <1>3, <1>4, <1>5, StepsAre, ThreadGoesKeeps, ResizingKeeps, JoinsKeeps, SlowGoesKeeps,
       SlowBeginKeeps

LEMMA CallTyped ==
    ASSUME PoolAssumption, TypeOK, Next
    PROVE  CallTypes'
<1>1. CallTypes /\ MaxResizes \in Nat
    BY TypeParts DEF PoolAssumption
<1>2. ASSUME Resizing PROVE CallTypes'
    BY <1>1, <1>2 DEF Resizing, ReleaseResize, ResizeActs, EndAllActs, CallTypes
<1>3. ASSUME Called PROVE CallTypes'
  <2>1. ASSUME NEW n \in Sizes, Resize(n) PROVE CallTypes'
    <3>1. resizes.calls + 1 \in 0..MaxResizes
        BY <1>1, <2>1 DEF Resize, CallTypes
    <3>2. resizes' = [calls |-> resizes.calls + 1, acts |-> TRUE] /\ stop' = stop
        BY <2>1 DEF Resize
    <3> QED
        BY <1>1, <3>1, <3>2 DEF CallTypes
  <2> QED
    BY <1>1, <1>3, <2>1 DEF Called, Shutdown, EndAll, WaitForResize, ShutdownJoin, CallTypes
<1>4. ASSUME UNCHANGED <<resizes, stop>> PROVE CallTypes'
    BY <1>1, <1>4 DEF CallTypes
<1> QED
    BY <1>2, <1>3, <1>4, StepsAre, ThreadGoesKeeps, ReleasesKeeps, JoinsKeeps, SlowGoesKeeps,
       SlowBeginKeeps

LEMMA JoinTyped ==
    ASSUME TypeOK, Next
    PROVE  JoinTypes'
<1>1. JoinTypes
    BY TypeParts
<1>2. ASSUME NEW t \in Threads, Releases(t) PROVE JoinTypes'
    BY <1>1, <1>2 DEF Releases, ReleaseBegin, ReleaseErase, ReleaseAdd, JoinTypes
<1>3. ASSUME Joins PROVE JoinTypes'
  <2>1. CASE Join
    <3>1. toJoin # <<>> /\ toJoin' = Tail(toJoin) /\ joiner' = [joiner EXCEPT !.thread = Head(toJoin)]
        BY <2>1 DEF Join
    <3>2. toJoin \in Seq(Threads)
        BY <1>1 DEF JoinTypes
    <3>3. toJoin' \in Seq(Threads) /\ Head(toJoin) \in Threads
        BY <3>1, <3>2
    <3> QED
        BY <1>1, <3>1, <3>3 DEF JoinTypes
  <2>2. CASE Joined
    <3>1. toJoin' = toJoin /\ joiner' = [joiner EXCEPT !.thread = None]
        BY <2>2 DEF Joined
    <3> QED
        BY <1>1, <3>1 DEF JoinTypes
  <2>3. CASE JoinerEnds
    <3>1. toJoin' = toJoin /\ joiner' = [joiner EXCEPT !.runs = FALSE]
        BY <2>3 DEF JoinerEnds
    <3> QED
        BY <1>1, <3>1 DEF JoinTypes
  <2> QED
    BY <1>3, <2>1, <2>2, <2>3 DEF Joins
<1>4. ASSUME UNCHANGED <<toJoin, joiner>> PROVE JoinTypes'
    BY <1>1, <1>4 DEF JoinTypes
<1> QED
    BY <1>2, <1>3, <1>4, StepsAre, ThreadGoesKeeps, ResizingKeeps, SlowGoesKeeps, SlowBeginKeeps,
       CalledKeeps

LEMMA CmdTyped ==
    ASSUME TypeOK, CmdWhileRunning, Next
    PROVE  CmdTypes'
<1>1. CmdTypes
    BY TypeParts
<1>2. \A t \in Threads : thr[t].at = "ran" => thr[t].cmd \in Cmds
    BY TypeParts DEF CmdWhileRunning, RightCmd, ThreadRecords
<1>3. ASSUME NEW t, NEW c, CallCommandFinish(t, c) PROVE finished' \in [Cmds -> Nat]
  <2>1. finished' = finished \/ finished' = [finished EXCEPT ![c] = @ + 1]
    BY <1>3 DEF CallCommandFinish
  <2>2. finished \in [Cmds -> Nat]
    BY <1>1 DEF CmdTypes
  <2> QED
    BY <2>1, <2>2
<1>4. ASSUME NEW t \in Threads, LeavePool(t) PROVE CmdTypes'
    BY <1>1, <1>3, <1>4 DEF LeavePool, CmdTypes
<1>5. ASSUME NEW t \in Threads, CmdDone(t) PROVE CmdTypes'
    BY <1>1, <1>2, <1>3, <1>5 DEF CmdDone, CmdTypes
<1>6. ASSUME SlowFinish PROVE CmdTypes'
    BY <1>1, <1>3, <1>6 DEF SlowFinish, CmdTypes
<1>7. ASSUME UNCHANGED <<finished, ran>> PROVE CmdTypes'
    BY <1>1, <1>7 DEF CmdTypes
<1> QED
    BY <1>4, <1>5, <1>6, <1>7, StepsAre, ThreadGoesKeeps, ReleasesKeeps, ResizingKeeps, JoinsKeeps,
       SlowGoesKeeps, SlowBeginKeeps, CalledKeeps

LEMMA SlowTyped ==
    ASSUME PoolAssumption, TypeOK, Next
    PROVE  (slow \in Slows \cup {NotSlow})'
<1>1. slow \in Slows \cup {NotSlow} /\ owner \in [Cmds -> Threads \cup {None}] /\ Slow \subseteq Cmds
    BY TypeParts DEF PoolAssumption
<1>2. ASSUME NEW c \in Cmds, SlowBegin(c) PROVE (slow \in Slows \cup {NotSlow})'
    BY <1>1, <1>2 DEF SlowBegin, CanLeave, Slows
<1>3. ASSUME SlowGoes PROVE (slow \in Slows \cup {NotSlow})'
    BY <1>1, <1>3 DEF SlowGoes, SlowStop, SlowCompare, SlowFinish, SlowEnds, Slows, NotSlow
<1> QED
    BY <1>1, <1>2, <1>3, StepsAre, ThreadGoesKeeps, ReleasesKeeps, ResizingKeeps, JoinsKeeps,
       SlowBeginKeeps, CalledKeeps

LEMMA OwnerTyped ==
    ASSUME TypeOK, Next
    PROVE  (owner \in [Cmds -> Threads \cup {None}])'
<1>1. owner \in [Cmds -> Threads \cup {None}]
    BY TypeParts
<1>2. ASSUME NEW t \in Threads, BeginCmd(t) PROVE (owner \in [Cmds -> Threads \cup {None}])'
    BY <1>1, <1>2 DEF BeginCmd
<1>3. ASSUME Joined PROVE (owner \in [Cmds -> Threads \cup {None}])'
    BY <1>1, <1>3 DEF Joined
<1>4. ASSUME NEW c \in Cmds, SlowBegin(c) PROVE (owner \in [Cmds -> Threads \cup {None}])'
    BY <1>1, <1>4 DEF SlowBegin
<1> QED
    BY <1>1, <1>2, <1>3, <1>4, StepsAre, ThreadGoesKeeps, ReleasesKeeps, ResizingKeeps, JoinsKeeps,
       SlowGoesKeeps, SlowBeginKeeps, CalledKeeps

(* Those that act on a thread from outside name one. *)
LEMMA Actors ==
    ASSUME TypeOK
    PROVE  /\ SlowStop \/ SlowCompare \/ SlowFinish \/ SlowEnds => slow \in Slows
           /\ slow \in Slows => slow # NotSlow /\ slow.thread \in Threads /\ slow.cmd \in Slow
           /\ Joined => joiner.thread \in Threads
<1>1. slow \in Slows \cup {NotSlow} /\ JoinTypes
    BY TypeParts
<1>2. SlowStop \/ SlowCompare \/ SlowFinish \/ SlowEnds => slow.at # "no"
    BY DEF SlowStop, SlowCompare, SlowFinish, SlowEnds
<1>3. NotSlow.at = "no" /\ \A s \in Slows : s.at # "no" /\ s.thread \in Threads /\ s.cmd \in Slow
    BY DEF NotSlow, Slows
<1>4. Joined => joiner.thread \in Threads
    BY <1>1 DEF Joined, JoinTypes
<1> QED
    BY <1>1, <1>2, <1>3, <1>4

(* What a step may do to the threads. *)
LEMMA ThreadsChange ==
    ASSUME Next
    PROVE  \/ UNCHANGED thr
           \/ \E t \in Threads : ThreadGoes(t)
           \/ Resizing \/ Joined \/ SlowStop \/ SlowFinish
BY StepsAre, ReleasesKeeps, JoinsKeeps, SlowGoesKeeps, SlowBeginKeeps, CalledKeeps

LEMMA ThreadTyped ==
    ASSUME PoolAssumption, TypeOK, Next
    PROVE  (thr \in [Threads -> ThreadRecords])'
<1>1. thr \in [Threads -> ThreadRecords] /\ queue \in Seq(Cmds \cup {End})
    BY TypeParts
<1>2. ASSUME NEW t \in Threads, ThreadGoes(t) PROVE (thr \in [Threads -> ThreadRecords])'
    BY <1>1, <1>2, LoopCheckEffect, GetCmdEffect, BeginCmdEffect, RunCmdEffect, LeavePoolEffect,
       CmdDoneEffect, FinishedUpEffect DEF ThreadGoes, SameRest, OnlyThread
<1>3. Resizing => (thr \in [Threads -> ThreadRecords])'
    BY ResizingKeeps, AddsThreads
<1>4. SlowStop \/ SlowFinish \/ Joined => (thr \in [Threads -> ThreadRecords])'
    BY <1>1, Actors, SlowStopEffect, SlowFinishEffect, JoinedEffect DEF SameRest, OnlyThread
<1> QED
    BY <1>1, <1>2, <1>3, <1>4, ThreadsChange

(* A thread that goes on leaves the others alone, and none comes or goes. *)
LEMMA ThreadGoesOn ==
    ASSUME TypeOK, NEW t \in Threads, ThreadGoes(t)
    PROVE  OnlyThread(t) /\ \A u \in Threads : thr'[u].at = "none" <=> thr[u].at = "none"
<1>1. thr \in [Threads -> ThreadRecords] /\ queue \in Seq(Cmds \cup {End})
    BY TypeParts
<1> QED
    BY <1>1, LoopCheckEffect, GetCmdEffect, BeginCmdEffect, RunCmdEffect, LeavePoolEffect,
       CmdDoneEffect, FinishedUpEffect DEF ThreadGoes, SameRest, OnlyThread

LEMMA SlowGoesOn ==
    ASSUME TypeOK, SlowGoes
    PROVE  \A u \in Threads : thr'[u].at = "none" <=> thr[u].at = "none"
<1>1. thr \in [Threads -> ThreadRecords]
    BY TypeParts
<1> QED
    BY <1>1, SlowGoesKeeps, Actors, SlowStopEffect, SlowFinishEffect DEF SameRest, OnlyThread

-----------------------------------------------------------------------------
(* Where what is in a sequence is once one is taken from it or added to it. *)
LEMMA HeadAndTail ==
    ASSUME NEW S, NEW q \in Seq(S), q # <<>>
    PROVE  /\ 1 \in DOMAIN q /\ Head(q) = q[1] /\ Head(q) \in S
           /\ \A i \in DOMAIN Tail(q) : /\ i \in Nat \ {0} /\ i + 1 \in DOMAIN q
                                        /\ Tail(q)[i] = q[i + 1]
           /\ \A i \in DOMAIN q : i # 1 => \E j \in DOMAIN Tail(q) : Tail(q)[j] = q[i]
<1>1. Len(Tail(q)) = Len(q) - 1 /\ Len(q) \in Nat \ {0}
    OBVIOUS
<1>2. \A i \in DOMAIN q : i # 1 => i - 1 \in DOMAIN Tail(q) /\ Tail(q)[i - 1] = q[i]
    BY <1>1
<1>3. \A i \in DOMAIN q : i # 1 => \E j \in DOMAIN Tail(q) : Tail(q)[j] = q[i]
    BY <1>2
<1> QED
    BY <1>1, <1>3

LEMMA Appended ==
    ASSUME NEW S, NEW q \in Seq(S), NEW x \in S
    PROVE  /\ \A i \in DOMAIN q : i \in DOMAIN Append(q, x) /\ Append(q, x)[i] = q[i]
           /\ \E k \in DOMAIN Append(q, x) : /\ Append(q, x)[k] = x /\ k \notin DOMAIN q
                                            /\ \A i \in DOMAIN Append(q, x) : i \in DOMAIN q \/ i = k
<1>1. Len(q) + 1 \in DOMAIN Append(q, x) /\ Append(q, x)[Len(q) + 1] = x /\ Len(q) + 1 \notin DOMAIN q
    OBVIOUS
<1>2. \A i \in DOMAIN Append(q, x) : i \in DOMAIN q \/ i = Len(q) + 1
    OBVIOUS
<1>3. \A i \in DOMAIN q : i \in DOMAIN Append(q, x) /\ Append(q, x)[i] = q[i]
    OBVIOUS
<1> QED
    BY <1>1, <1>2, <1>3

-----------------------------------------------------------------------------
(* Each part of the invariant is kept. *)
LEMMA OneRightCmd ==
    ASSUME CmdWhileRunning, NEW t \in Threads, OnlyThread(t), RightCmd(thr'[t])
    PROVE  CmdWhileRunning'
BY DEF CmdWhileRunning, OnlyThread

LEMMA CmdWhileRunningKept ==
    ASSUME PoolAssumption, IInv, Next
    PROVE  CmdWhileRunning'
<1>1. /\ TypeOK /\ thr \in [Threads -> ThreadRecords] /\ queue \in Seq(Cmds \cup {End})
      /\ CmdWhileRunning /\ None \notin Cmds /\ \A t \in Threads : RightCmd(thr[t])
    BY TypeParts DEF IInv, PoolAssumption, CmdWhileRunning
<1>2. ASSUME NEW t \in Threads, ThreadGoes(t) PROVE CmdWhileRunning'
    <2>1. OnlyThread(t)
        BY <1>1, <1>2, ThreadGoesOn
    <2>2. RightCmd(thr[t])
        BY <1>1
    <2>3. ASSUME LoopCheck(t) \/ RunCmd(t) PROVE RightCmd(thr'[t])
        BY <1>1, <2>2, <2>3, LoopCheckEffect, RunCmdEffect
           DEF RightCmd, SameRest, SameCmd, SameCurrent
    <2>4. ASSUME LeavePool(t) \/ FinishedUp(t) PROVE RightCmd(thr'[t])
        BY <1>1, <2>2, <2>4, LeavePoolEffect, FinishedUpEffect
           DEF RightCmd, SameRest, SameCmd, SameCurrent
    <2>5. ASSUME GetCmd(t) PROVE RightCmd(thr'[t])
        <3>0. queue # <<>>
            BY <1>1, <2>5, GetCmdEffect
        <3>1. Head(queue) \in Cmds \cup {End}
            BY <1>1, <3>0
        <3>2. thr[t].cmd = None /\ thr[t].current = None
            BY <1>1, <2>2, <2>5, GetCmdEffect DEF RightCmd
        <3>3. CASE Head(queue) = End
            BY <1>1, <2>5, <3>2, <3>3, GetCmdEffect DEF RightCmd, SameCmd, SameCurrent
        <3>4. CASE Head(queue) # End
            BY <1>1, <2>5, <3>1, <3>2, <3>4, GetCmdEffect DEF RightCmd, SameCurrent
        <3> QED
            BY <3>3, <3>4
    <2>6. ASSUME BeginCmd(t) \/ CmdDone(t) PROVE RightCmd(thr'[t])
        BY <1>1, <2>2, <2>6, BeginCmdEffect, CmdDoneEffect DEF RightCmd, SameCmd
    <2> QED
        BY <1>1, <1>2, <2>1, <2>3, <2>4, <2>5, <2>6, OneRightCmd DEF ThreadGoes
<1>3. ASSUME Resizing PROVE CmdWhileRunning'
    <2>1. \A t \in Threads : \/ thr'[t] = thr[t]
                             \/ thr'[t].at = "loop" /\ thr'[t].cmd = None /\ thr'[t].current = None
        BY <1>1, <1>3, ResizingKeeps, AddsThreads
    <2> QED
        BY <1>1, <2>1 DEF CmdWhileRunning, RightCmd
<1>4. ASSUME Joined PROVE CmdWhileRunning'
    <2>1. joiner.thread \in Threads
        BY <1>1, <1>4, Actors
    <2>2. RightCmd(thr'[joiner.thread])
        BY <1>1, <1>4, <2>1, JoinedEffect DEF RightCmd
    <2> QED
        BY <1>1, <1>4, <2>1, <2>2, JoinedEffect, OneRightCmd
<1>5. ASSUME SlowStop \/ SlowFinish PROVE CmdWhileRunning'
    <2>1. slow.thread \in Threads
        BY <1>1, <1>5, Actors
    <2>2. OnlyThread(slow.thread) /\ RightCmd(thr'[slow.thread])
        BY <1>1, <1>5, <2>1, SlowStopEffect, SlowFinishEffect
           DEF RightCmd, SameRest, SameCmd, SameCurrent
    <2> QED
        BY <1>1, <2>1, <2>2, OneRightCmd
<1>6. ASSUME UNCHANGED thr PROVE CmdWhileRunning'
    BY <1>1, <1>6 DEF CmdWhileRunning
<1> QED
    BY <1>2, <1>3, <1>4, <1>5, <1>6, ThreadsChange

LEMMA ReleasedOnceKept ==
    ASSUME PoolAssumption, IInv, Next
    PROVE  ReleasedOnce'
<1>1. /\ TypeOK /\ thr \in [Threads -> ThreadRecords] /\ queue \in Seq(Cmds \cup {End})
      /\ ReleaseTypes /\ JoinTypes /\ ReleasedOnce /\ None \notin Threads
    BY TypeParts DEF IInv, PoolAssumption
<1>2. ASSUME UNCHANGED <<toJoin, joiner, release, pool>>,
             \A t \in Threads : thr'[t].at = "none" <=> thr[t].at = "none"
      PROVE  ReleasedOnce'
    BY <1>1, <1>2 DEF ReleasedOnce, ToBeJoined
<1>3. ASSUME NEW t \in Threads, ThreadGoes(t) PROVE ReleasedOnce'
    BY <1>1, <1>2, <1>3, ThreadGoesKeeps, ThreadGoesOn
<1>4. ASSUME SlowGoes PROVE ReleasedOnce'
    BY <1>1, <1>2, <1>4, SlowGoesKeeps, SlowGoesOn
<1>5. ASSUME UNCHANGED <<toJoin, joiner, release, pool, thr>> PROVE ReleasedOnce'
    BY <1>2, <1>5
<1>6. ASSUME NEW t \in Threads, NEW by, ReleaseBegin(t, by) PROVE ReleasedOnce'
    <2>1. slow.at = "release" => slow # NotSlow
        BY DEF NotSlow
    <2>2. thr[t].at # "none"
        BY <1>6, <2>1 DEF ReleaseBegin, Releasers, By, IInv, SlowThread
    <2>3. /\ UNCHANGED <<toJoin, joiner, pool, thr>>
          /\ release[t].at = "no" /\ release'[t].at = "erase"
          /\ \A u \in Threads : u # t => release'[u] = release[u]
        BY <1>1, <1>6 DEF ReleaseBegin, ReleaseOnce, ReleaseTypes
    <2> QED
        BY <1>1, <2>2, <2>3 DEF ReleasedOnce, ToBeJoined
<1>7. ASSUME NEW t \in Threads, ReleaseErase(t) PROVE ReleasedOnce'
    <2>1. /\ UNCHANGED <<toJoin, joiner, thr>> /\ pool' = pool \ {t}
          /\ release[t].at = "erase" /\ release'[t].at = "add"
          /\ \A u \in Threads : u # t => release'[u] = release[u]
        BY <1>1, <1>7 DEF ReleaseErase, ReleaseTypes
    <2> QED
        BY <1>1, <2>1 DEF ReleasedOnce, ToBeJoined
<1>8. ASSUME NEW t \in Threads, ReleaseAdd(t) PROVE ReleasedOnce'
    <2>1. /\ UNCHANGED <<joiner, pool, thr>> /\ toJoin' = Append(toJoin, t)
          /\ release[t].at = "add" /\ release'[t].at = "resize"
          /\ \A u \in Threads : u # t => release'[u] = release[u]
        BY <1>1, <1>8 DEF ReleaseAdd, ReleaseTypes
    <2>2. toJoin \in Seq(Threads)
        BY <1>1 DEF JoinTypes
    <2>3. ~ToBeJoined(t) /\ thr[t].at # "none"
        BY <1>1, <2>1 DEF ReleasedOnce
    <2>4. /\ \A i \in DOMAIN toJoin : i \in DOMAIN toJoin' /\ toJoin'[i] = toJoin[i] /\ toJoin[i] # t
          /\ \E k \in DOMAIN toJoin' : /\ toJoin'[k] = t
                                      /\ \A i \in DOMAIN toJoin' : i \in DOMAIN toJoin \/ i = k
        BY <2>1, <2>2, <2>3, Appended DEF ToBeJoined
    <2>5. (ToBeJoined(t))' /\ \A u \in Threads : u # t => ((ToBeJoined(u))' <=> ToBeJoined(u))
        BY <2>1, <2>4 DEF ToBeJoined
    <2>6. \A i, j \in DOMAIN toJoin' : toJoin'[i] = toJoin'[j] => i = j
        BY <1>1, <2>4 DEF ReleasedOnce
    <2>7. \A i \in DOMAIN toJoin' : toJoin'[i] # joiner.thread
        BY <1>1, <2>3, <2>4 DEF ReleasedOnce, ToBeJoined
    <2> QED
        BY <1>1, <2>1, <2>3, <2>5, <2>6, <2>7 DEF ReleasedOnce
<1>9. ASSUME Resizing PROVE ReleasedOnce'
    <2>1. UNCHANGED <<toJoin, joiner>>
        BY <1>9, ResizingKeeps
    <2>2. \A u \in Threads : \/ release'[u] = release[u]
                             \/ release[u].at = "resize" /\ release'[u].at = "done"
        BY <1>1, <1>9, ResizingKeeps DEF ReleaseTypes
    <2>3. \A u \in Threads : \/ thr'[u] = thr[u]
                             \/ thr[u].at = "none" /\ u \in pool' /\ thr'[u].at = "loop"
        BY <1>1, <1>9, ResizingKeeps, AddsThreads
    <2>4. /\ pool \subseteq pool'
          /\ \A u \in Threads : thr[u].at # "none" /\ u \notin pool => u \notin pool'
        BY <1>1, <1>9, ResizingKeeps, AddsThreads
    <2>5. \A u \in Threads : release'[u].at \in {"add", "resize", "done"} => u \notin pool'
        BY <1>1, <2>2, <2>4 DEF ReleasedOnce
    <2> QED
        BY <1>1, <2>1, <2>2, <2>3, <2>4, <2>5 DEF ReleasedOnce, ToBeJoined
<1>10. ASSUME Join PROVE ReleasedOnce'
    <2>1. /\ UNCHANGED <<release, pool, thr>> /\ toJoin # <<>> /\ joiner.thread = None
          /\ toJoin' = Tail(toJoin) /\ joiner'.thread = Head(toJoin)
        BY <1>1, <1>10 DEF Join, JoinTypes
    <2>2. toJoin \in Seq(Threads)
        BY <1>1 DEF JoinTypes
    <2>3. /\ 1 \in DOMAIN toJoin /\ joiner'.thread = toJoin[1]
          /\ \A i \in DOMAIN toJoin' : /\ i + 1 \in DOMAIN toJoin /\ toJoin'[i] = toJoin[i + 1]
                                       /\ i \in Nat \ {0}
          /\ \A i \in DOMAIN toJoin : i # 1 => \E j \in DOMAIN toJoin' : toJoin'[j] = toJoin[i]
        BY <2>1, <2>2, HeadAndTail
    <2>4. \A i, j \in DOMAIN toJoin' : toJoin'[i] = toJoin'[j] => i = j
        BY <1>1, <2>3 DEF ReleasedOnce
    <2>5. \A i \in DOMAIN toJoin' : toJoin'[i] # joiner'.thread
        BY <1>1, <2>3 DEF ReleasedOnce
    <2>6. \A u \in Threads : (ToBeJoined(u))' <=> ToBeJoined(u)
        BY <1>1, <2>1, <2>3 DEF ToBeJoined
    <2> QED
        BY <1>1, <2>1, <2>4, <2>5, <2>6 DEF ReleasedOnce
<1>11. ASSUME NEW t \in Threads, t = joiner.thread, Joined PROVE ReleasedOnce'
    <2>1. /\ UNCHANGED <<toJoin, pool>> /\ joiner'.thread = None
          /\ release'[t].at = "no" /\ \A u \in Threads : u # t => release'[u] = release[u]
        BY <1>1, <1>11 DEF Joined, JoinTypes, ReleaseTypes, NotReleased
    <2>2. thr'[t].at = "none" /\ \A u \in Threads : u # t => thr'[u] = thr[u]
        BY <1>1, <1>11, <2>1, JoinedEffect DEF OnlyThread
    <2>3. \A i \in DOMAIN toJoin : toJoin[i] # t /\ toJoin[i] # None
        BY <1>1, <1>11 DEF ReleasedOnce, JoinTypes
    <2>4. ~(ToBeJoined(t))' /\ \A u \in Threads : u # t => ((ToBeJoined(u))' <=> ToBeJoined(u))
        BY <1>1, <1>11, <2>1, <2>3 DEF ToBeJoined
    <2> QED
        BY <1>1, <2>1, <2>2, <2>3, <2>4 DEF ReleasedOnce
<1>12. ASSUME JoinerEnds PROVE ReleasedOnce'
    <2>1. UNCHANGED <<toJoin, release, pool, thr>> /\ joiner'.thread = joiner.thread
        BY <1>1, <1>12 DEF JoinerEnds, JoinTypes
    <2> QED
        BY <1>1, <2>1 DEF ReleasedOnce, ToBeJoined
<1> QED
    BY <1>3, <1>4, <1>5, <1>6, <1>7, <1>8, <1>9, <1>10, <1>11, <1>12, <1>1, Actors, StepsAre,
       SlowBeginKeeps, CalledKeeps DEF Releases, Joins

LEMMA OwnedKept ==
    ASSUME PoolAssumption, IInv, Next
    PROVE  Owned'
<1>1. /\ TypeOK /\ thr \in [Threads -> ThreadRecords] /\ owner \in [Cmds -> Threads \cup {None}]
      /\ Owned /\ None \notin Threads
    BY TypeParts DEF IInv, PoolAssumption
<1>2. ASSUME UNCHANGED owner, \A t \in Threads : thr[t].at # "none" => thr'[t].at # "none"
      PROVE  Owned'
    BY <1>1, <1>2 DEF Owned
<1>3. ASSUME NEW t \in Threads, ThreadGoes(t) PROVE Owned'
    <2>1. \A u \in Threads : thr'[u].at = "none" <=> thr[u].at = "none"
        BY <1>1, <1>3, ThreadGoesOn
    <2>2. CASE BeginCmd(t)
        <3>1. thr'[t].at # "none" /\ owner' = [owner EXCEPT ![thr[t].cmd] = t]
            BY <1>1, <2>2, BeginCmdEffect DEF BeginCmd
        <3>2. \A c \in Cmds : owner'[c] = owner[c] \/ owner'[c] = t
            BY <1>1, <3>1
        <3> QED
            BY <1>1, <2>1, <3>1, <3>2 DEF Owned
    <2> QED
        BY <1>2, <1>3, <2>1, <2>2, ThreadGoesKeeps
<1>4. ASSUME SlowGoes PROVE Owned'
    BY <1>1, <1>2, <1>4, SlowGoesKeeps, SlowGoesOn
<1>5. ASSUME Resizing PROVE Owned'
    <2>1. \A t \in Threads : thr[t].at # "none" => thr'[t].at # "none"
        BY <1>1, <1>5, ResizingKeeps, AddsThreads
    <2> QED
        BY <1>2, <1>5, <2>1, ResizingKeeps
<1>6. ASSUME NEW t \in Threads, t = joiner.thread, Joined PROVE Owned'
    <2>1. owner' = [c \in Cmds |-> IF owner[c] = t THEN None ELSE owner[c]]
        BY <1>6 DEF Joined
    <2>2. \A u \in Threads : u # t => thr'[u] = thr[u]
        BY <1>1, <1>6, JoinedEffect DEF OnlyThread
    <2> QED
        BY <1>1, <2>1, <2>2 DEF Owned
<1>7. ASSUME NEW c \in Cmds, SlowBegin(c) PROVE Owned'
    <2>1. UNCHANGED thr /\ owner' = [owner EXCEPT ![c] = None]
        BY <1>7 DEF SlowBegin
    <2> QED
        BY <1>1, <2>1 DEF Owned
<1> QED
    BY <1>1, <1>2, <1>3, <1>4, <1>5, <1>6, <1>7, Actors, StepsAre, ReleasesKeeps, JoinsKeeps,
       SlowBeginKeeps, CalledKeeps

LEMMA SlowThreadKept ==
    ASSUME PoolAssumption, IInv, Next
    PROVE  SlowThread'
<1>1. /\ TypeOK /\ thr \in [Threads -> ThreadRecords] /\ queue \in Seq(Cmds \cup {End})
      /\ SlowThread /\ Owned /\ CmdWhileRunning /\ None \notin Cmds /\ None \notin Threads
      /\ slow \in Slows \cup {NotSlow} /\ owner \in [Cmds -> Threads \cup {None}]
      /\ Slow \subseteq Cmds /\ NotSlow.at = "no"
    BY TypeParts DEF IInv, PoolAssumption, NotSlow
<1>2. CASE slow = NotSlow
    <2>1. ASSUME NEW c \in Cmds, SlowBegin(c) PROVE SlowThread'
        <3>1. thr[owner[c]].at # "none" /\ slow'.thread = owner[c] /\ slow'.at = "stop" /\ UNCHANGED thr
            BY <1>1, <2>1 DEF SlowBegin, CanLeave, Owned
        <3> QED
            BY <3>1 DEF SlowThread
    <2>2. UNCHANGED slow \/ \E c \in Cmds : SlowBegin(c)
        BY <1>1, <1>2, StepsAre, ThreadGoesKeeps, ReleasesKeeps, ResizingKeeps, JoinsKeeps,
           SlowBeginKeeps, CalledKeeps, Actors DEF SlowGoes
    <2> QED
        BY <1>2, <2>1, <2>2 DEF SlowThread, NotSlow
<1>3. CASE slow \in Slows
    <2>1. slow # NotSlow /\ slow.thread \in Threads /\ slow.cmd \in Cmds
        BY <1>1, <1>3, Actors
    <2>2. PICK t \in Threads : t = slow.thread
        BY <2>1
    <2>3. PICK c \in Cmds : c = slow.cmd
        BY <2>1
    <2>4. /\ thr[t].at # "none" /\ (slow.at # "stop" => thr[t].eLoop = FALSE)
          /\ slow.at \in {"finish", "release"} => Stopped(t, c)
        BY <1>1, <2>1, <2>2, <2>3 DEF SlowThread
    <2>5. ASSUME UNCHANGED slow, thr'[t].at # "none", thr[t].eLoop = FALSE => thr'[t].eLoop = FALSE,
                 Stopped(t, c) /\ thr[t].eLoop = FALSE =>
                     /\ thr'[t].at \notin {"get", "begin"}
                     /\ thr'[t].cmd = c \/ thr'[t].finishCalled = TRUE
          PROVE  SlowThread'
        BY <2>2, <2>3, <2>4, <2>5 DEF SlowThread, Stopped
    <2>6. ASSUME UNCHANGED slow, thr'[t] = thr[t] PROVE SlowThread'
        BY <2>4, <2>5, <2>6 DEF Stopped
    <2>7. ASSUME NEW u \in Threads, ThreadGoes(u) PROVE SlowThread'
        <3>1. CASE u # t
            BY <1>1, <2>6, <2>7, <3>1, ThreadGoesKeeps, ThreadGoesOn DEF OnlyThread
        <3>2. CASE u = t
            <4>1. UNCHANGED slow
                BY <2>7, ThreadGoesKeeps
            <4>2. CASE LoopCheck(t)
                BY <1>1, <2>4, <2>5, <4>1, <4>2, LoopCheckEffect
                   DEF Stopped, SameRest, SameCmd, SameLoop, SameFlag
            <4>3. CASE GetCmd(t) \/ BeginCmd(t)
                <5>1. ~Stopped(t, c)
                    BY <1>1, <4>3, GetCmdEffect, BeginCmdEffect DEF Stopped
                <5>2. thr'[t].at # "none" /\ (thr[t].eLoop = FALSE => thr'[t].eLoop = FALSE)
                    BY <1>1, <4>3, GetCmdEffect, BeginCmdEffect DEF SameLoop
                <5> QED
                    BY <2>5, <4>1, <5>1, <5>2
            <4>4. CASE RunCmd(t)
                BY <1>1, <2>4, <2>5, <4>1, <4>4, RunCmdEffect
                   DEF Stopped, SameRest, SameCmd, SameFlag
            <4>5. CASE LeavePool(t) \/ CmdDone(t)
                BY <1>1, <2>4, <2>5, <4>1, <4>5, LeavePoolEffect, CmdDoneEffect DEF SameLoop
            <4>6. CASE FinishedUp(t)
                BY <1>1, <2>4, <2>5, <4>1, <4>6, FinishedUpEffect
                   DEF Stopped, SameRest, SameCmd, SameLoop, SameFlag
            <4> QED
                BY <2>7, <3>2, <4>2, <4>3, <4>4, <4>5, <4>6 DEF ThreadGoes
        <3> QED
            BY <3>1, <3>2
    <2>8. ASSUME Resizing PROVE SlowThread'
        BY <1>1, <2>4, <2>6, <2>8, ResizingKeeps, AddsThreads
    <2>9. ASSUME Joined PROVE SlowThread'
        <3>1. joiner.thread # t /\ joiner.thread \in Threads /\ UNCHANGED slow
            BY <1>1, <2>2, <2>9, Actors DEF Joined
        <3> QED
            BY <1>1, <2>6, <2>9, <3>1, JoinedEffect DEF OnlyThread
    <2>10. ASSUME SlowStop PROVE SlowThread'
        <3>1. slow'.at = "compare" /\ slow'.thread = t
            BY <1>3, <2>2, <2>10 DEF SlowStop, Slows
        <3>2. thr'[t].at = thr[t].at /\ thr'[t].eLoop = FALSE
            BY <1>1, <2>2, <2>10, SlowStopEffect
        <3> QED
            BY <2>4, <3>1, <3>2 DEF SlowThread
    <2>11. ASSUME SlowCompare PROVE SlowThread'
        <3>1. UNCHANGED thr /\ slow.at = "compare"
            BY <2>11 DEF SlowCompare
        <3>2. CASE thr[t].current = c
            <4>1. slow'.at = "finish" /\ slow'.thread = t /\ slow'.cmd = c
                BY <1>3, <2>2, <2>3, <2>11, <3>2 DEF SlowCompare, Slows
            <4>2. Stopped(t, c)
                BY <1>1, <3>2 DEF Stopped, CmdWhileRunning, RightCmd
            <4> QED
                BY <2>4, <3>1, <4>1, <4>2 DEF SlowThread, Stopped
        <3>3. CASE thr[t].current # c
            BY <2>2, <2>3, <2>11, <3>3 DEF SlowCompare, SlowThread
        <3> QED
            BY <3>2, <3>3
    <2>12. ASSUME SlowFinish PROVE SlowThread'
        <3>1. slow'.at = "release" /\ slow'.thread = t /\ slow'.cmd = c /\ slow.at = "finish"
            BY <1>3, <2>2, <2>3, <2>12 DEF SlowFinish, Slows
        <3>2. /\ thr'[t].at = thr[t].at /\ thr'[t].eLoop = thr[t].eLoop
              /\ thr'[t].finishCalled = TRUE
            BY <1>1, <2>2, <2>12, SlowFinishEffect DEF SameLoop
        <3> QED
            BY <2>4, <3>1, <3>2 DEF SlowThread, Stopped
    <2>13. ASSUME SlowEnds PROVE SlowThread'
        BY <2>13 DEF SlowEnds, SlowThread
    <2>14. ~\E d \in Cmds : SlowBegin(d)
        BY <2>1 DEF SlowBegin, CanLeave
    <2> QED
        BY <2>6, <2>7, <2>8, <2>9, <2>10, <2>11, <2>12, <2>13, <2>14, StepsAre, ReleasesKeeps,
           JoinsKeeps, SlowBeginKeeps, CalledKeeps DEF SlowGoes
<1> QED
    BY <1>1, <1>2, <1>3

(* The steps by which no command comes to a place. *)
LEMMA PlacesKept ==
    ASSUME PoolAssumption, IInv, UNCHANGED ran, queue' \in {queue, Append(queue, End)},
           \A t \in Threads : thr'[t].cmd \in {thr[t].cmd, None}
    PROVE  OnePlace'
<1>1. /\ OnePlace /\ None \notin Cmds /\ End \notin Cmds /\ ran \subseteq Cmds
      /\ queue \in Seq(Cmds \cup {End})
    BY TypeParts DEF IInv, PoolAssumption, CmdTypes
<1>2. /\ \A i \in DOMAIN queue : i \in DOMAIN queue' /\ queue'[i] = queue[i]
      /\ \A i \in DOMAIN queue' : i \in DOMAIN queue \/ queue'[i] = End
    <2>1. CASE queue' = queue
        BY <2>1
    <2>2. CASE queue' = Append(queue, End)
        BY <1>1, <2>2, Appended
    <2> QED
        BY <2>1, <2>2
<1>3. \A i, j \in DOMAIN queue' : queue'[i] = queue'[j] /\ i # j => queue'[i] = End
    BY <1>1, <1>2 DEF OnePlace
<1>4. \A c \in Cmds : (InQueue(c))' => InQueue(c)
    BY <1>1, <1>2 DEF InQueue
<1>5. \A c \in Cmds : (InQueue(c))' => c \notin ran /\ \A t \in Threads : thr'[t].cmd # c
    BY <1>1, <1>4 DEF OnePlace
<1>6. \A t, u \in Threads : thr'[t].cmd # None /\ thr'[t].cmd = thr'[u].cmd => t = u
    BY <1>1 DEF OnePlace, HasCmd
<1>7. \A t \in Threads : thr'[t].cmd \notin ran
    BY <1>1 DEF OnePlace
<1> QED
    BY <1>3, <1>5, <1>6, <1>7 DEF OnePlace, HasCmd

LEMMA OnePlaceKept ==
    ASSUME PoolAssumption, IInv, Next
    PROVE  OnePlace'
<1>1. /\ TypeOK /\ thr \in [Threads -> ThreadRecords] /\ queue \in Seq(Cmds \cup {End})
      /\ OnePlace /\ CmdWhileRunning /\ None \notin Cmds /\ End \notin Cmds /\ ran \subseteq Cmds
    BY TypeParts DEF IInv, PoolAssumption, CmdTypes
<1>2. ASSUME NEW t \in Threads, GetCmd(t) PROVE OnePlace'
    <2>1. queue # <<>> /\ queue' = Tail(queue) /\ UNCHANGED ran
        BY <1>2 DEF GetCmd
    <2>2. /\ 1 \in DOMAIN queue /\ Head(queue) = queue[1] /\ Head(queue) \in Cmds \cup {End}
          /\ \A i \in DOMAIN queue' : /\ i \in Nat \ {0} /\ i + 1 \in DOMAIN queue
                                      /\ queue'[i] = queue[i + 1]
        BY <1>1, <2>1, HeadAndTail
    <2>3. \A u \in Threads : u # t => thr'[u].cmd = thr[u].cmd
        BY <1>1, <1>2, GetCmdEffect DEF OnlyThread
    <2>4. thr[t].cmd = None
        BY <1>1, <1>2 DEF GetCmd, CmdWhileRunning, RightCmd
    <2>5. \/ Head(queue) = End /\ thr'[t].cmd = None
          \/ Head(queue) \in Cmds /\ thr'[t].cmd = Head(queue)
        BY <1>1, <1>2, <2>2, <2>4, GetCmdEffect DEF SameCmd
    <2>6. \A i, j \in DOMAIN queue' : queue'[i] = queue'[j] /\ i # j => queue'[i] = End
        BY <1>1, <2>2 DEF OnePlace
    <2>7. \A c \in Cmds : (InQueue(c))' => InQueue(c) /\ c # Head(queue)
        <3> TAKE c \in Cmds
        <3>1. SUFFICES ASSUME NEW i \in DOMAIN queue', queue'[i] = c PROVE InQueue(c) /\ c # Head(queue)
            BY DEF InQueue
        <3>2. i + 1 \in DOMAIN queue /\ queue[i + 1] = c /\ i + 1 # 1
            BY <2>2, <3>1
        <3>3. c # queue[1]
            BY <1>1, <2>2, <3>2 DEF OnePlace
        <3> QED
            BY <2>2, <3>2, <3>3 DEF InQueue
    <2>8. Head(queue) \in Cmds => Head(queue) \notin ran /\ \A u \in Threads : thr[u].cmd # Head(queue)
        BY <1>1, <2>2 DEF OnePlace, InQueue
    <2>9. \A c \in Cmds : (InQueue(c))' => c \notin ran /\ \A u \in Threads : thr'[u].cmd # c
        BY <1>1, <2>3, <2>5, <2>7 DEF OnePlace
    <2>10. \A u \in Threads : thr'[u].cmd \notin ran
        BY <1>1, <2>3, <2>5, <2>8 DEF OnePlace
    <2>11. \A u, v \in Threads : thr'[u].cmd # None /\ thr'[u].cmd = thr'[v].cmd => u = v
        BY <1>1, <2>3, <2>5, <2>8 DEF OnePlace, HasCmd
    <2> QED
        BY <2>1, <2>6, <2>9, <2>10, <2>11 DEF OnePlace, HasCmd
<1>3. ASSUME NEW t \in Threads, CmdDone(t) PROVE OnePlace'
    <2>1. UNCHANGED queue /\ ran' = ran \cup {thr[t].cmd}
        BY <1>3 DEF CmdDone
    <2>2. thr'[t].cmd = None /\ \A u \in Threads : u # t => thr'[u].cmd = thr[u].cmd
        BY <1>1, <1>3, CmdDoneEffect DEF OnlyThread
    <2>3. thr[t].cmd # None
        BY <1>1, <1>3 DEF CmdDone, CmdWhileRunning, RightCmd
    <2>4. \A c \in Cmds : (InQueue(c))' <=> InQueue(c)
        BY <2>1 DEF InQueue
    <2>5. \A c \in Cmds : InQueue(c) => c \notin ran' /\ \A u \in Threads : thr'[u].cmd # c
        BY <1>1, <2>1, <2>2 DEF OnePlace
    <2>6. \A u \in Threads : thr'[u].cmd \notin ran'
        BY <1>1, <2>1, <2>2, <2>3 DEF OnePlace, HasCmd
    <2>7. \A u, v \in Threads : thr'[u].cmd # None /\ thr'[u].cmd = thr'[v].cmd => u = v
        BY <1>1, <2>2 DEF OnePlace, HasCmd
    <2> QED
        BY <1>1, <2>1, <2>4, <2>5, <2>6, <2>7 DEF OnePlace, HasCmd
<1>4. ASSUME NEW c \in Cmds, QueCmd(c) PROVE OnePlace'
    <2>1. UNCHANGED <<thr, ran>> /\ queue' = Append(queue, c)
        BY <1>4 DEF QueCmd
    <2>2. c \notin ran /\ ~InQueue(c) /\ \A t \in Threads : thr[t].cmd # c
        BY <1>1, <1>4 DEF QueCmd, Waiting, InQueue
    <2>3. /\ \A i \in DOMAIN queue : i \in DOMAIN queue' /\ queue'[i] = queue[i] /\ queue[i] # c
          /\ \E k \in DOMAIN queue' : /\ queue'[k] = c
                                      /\ \A i \in DOMAIN queue' : i \in DOMAIN queue \/ i = k
        BY <1>1, <2>1, <2>2, Appended DEF InQueue
    <2>4. \A i, j \in DOMAIN queue' : queue'[i] = queue'[j] /\ i # j => queue'[i] = End
        BY <1>1, <2>3 DEF OnePlace
    <2>5. \A d \in Cmds : (InQueue(d))' => InQueue(d) \/ d = c
        BY <2>3 DEF InQueue
    <2>6. \A d \in Cmds : (InQueue(d))' => d \notin ran /\ \A t \in Threads : thr[t].cmd # d
        BY <1>1, <2>2, <2>5 DEF OnePlace
    <2> QED
        BY <1>1, <2>1, <2>4, <2>6 DEF OnePlace, HasCmd
<1>5. ASSUME NEW t \in Threads, ThreadGoes(t), ~GetCmd(t), ~CmdDone(t) PROVE OnePlace'
    <2>1. UNCHANGED <<queue, ran>>
        BY <1>5 DEF ThreadGoes, LoopCheck, BeginCmd, RunCmd, LeavePool, FinishedUp
    <2>2. \A u \in Threads : thr'[u].cmd = thr[u].cmd
        BY <1>1, <1>5, LoopCheckEffect, BeginCmdEffect, RunCmdEffect, LeavePoolEffect,
           FinishedUpEffect DEF ThreadGoes, SameRest, SameCmd, OnlyThread
    <2> QED
        BY <2>1, <2>2, PlacesKept
<1>6. ASSUME Resizing PROVE OnePlace'
    <2>1. \A u \in Threads : thr'[u].cmd \in {thr[u].cmd, None}
        BY <1>1, <1>6, ResizingKeeps, AddsThreads
    <2>2. UNCHANGED ran /\ queue' \in {queue, Append(queue, End)}
        BY <1>6, ResizingKeeps DEF EndOne
    <2> QED
        BY <2>1, <2>2, PlacesKept
<1>7. ASSUME Joined PROVE OnePlace'
    <2>1. \A u \in Threads : thr'[u].cmd \in {thr[u].cmd, None}
        BY <1>1, <1>7, Actors, JoinedEffect DEF OnlyThread
    <2> QED
        BY <1>7, <2>1, PlacesKept, JoinsKeeps DEF Joins
<1>8. ASSUME SlowGoes PROVE OnePlace'
    <2>1. \A u \in Threads : thr'[u].cmd = thr[u].cmd
        BY <1>1, <1>8, SlowGoesKeeps, Actors, SlowStopEffect, SlowFinishEffect
           DEF SameRest, SameCmd, OnlyThread
    <2> QED
        BY <1>8, <2>1, PlacesKept, SlowGoesKeeps
<1>9. ASSUME UNCHANGED <<queue, ran, thr>> PROVE OnePlace'
    BY <1>9, PlacesKept
<1> QED
    BY <1>2, <1>3, <1>4, <1>5, <1>6, <1>7, <1>8, <1>9, StepsAre, ReleasesKeeps, JoinsKeeps,
       SlowBeginKeeps, CalledKeeps

(* callCommandFinish of the command that a thread has. *)
LEMMA CallIsCounted ==
    ASSUME PoolAssumption, IInv, NEW t \in Threads, NEW c \in Cmds,
           CallCommandFinish(t, c), thr[t].cmd = c \/ thr[t].finishCalled = TRUE
    PROVE  /\ \A d \in Cmds : d # c \/ thr[t].finishCalled = TRUE => finished'[d] = finished[d]
           /\ thr[t].cmd = c => finished'[c] = 1
<1>1. /\ thr \in [Threads -> ThreadRecords] /\ finished \in [Cmds -> Nat]
      /\ OnePlace /\ FinishedWhenCalled /\ None \notin Cmds
    BY TypeParts DEF IInv, PoolAssumption, CmdTypes
<1>2. CASE thr[t].finishCalled = TRUE
    <2>1. finished' = finished
        BY <1>2 DEF CallCommandFinish
    <2> QED
        BY <1>1, <1>2, <2>1 DEF FinishedWhenCalled, FinishedBy
<1>3. CASE thr[t].finishCalled # TRUE
    <2>1. thr[t].finishCalled = FALSE
        BY <1>1, <1>3 DEF ThreadRecords
    <2>2. finished' = [finished EXCEPT ![c] = @ + 1]
        BY <2>1 DEF CallCommandFinish
    <2>3. c \notin ran /\ \A u \in Threads : ~FinishedBy(u, c)
        BY <1>1, <1>3 DEF OnePlace, HasCmd, FinishedBy
    <2>4. finished[c] = 0
        BY <1>1, <2>3 DEF FinishedWhenCalled
    <2>5. finished'[c] = 1 /\ \A d \in Cmds : d # c => finished'[d] = finished[d]
        BY <1>1, <2>2, <2>4
    <2> QED
        BY <1>3, <2>5
<1> QED
    BY <1>2, <1>3

LEMMA FinishedWhenCalledKept ==
    ASSUME PoolAssumption, IInv, Next
    PROVE  FinishedWhenCalled'
<1>1. /\ TypeOK /\ thr \in [Threads -> ThreadRecords] /\ queue \in Seq(Cmds \cup {End})
      /\ OnePlace /\ FinishedWhenCalled /\ CmdWhileRunning
      /\ None \notin Cmds /\ End \notin Cmds /\ ran \subseteq Cmds /\ finished \in [Cmds -> Nat]
    BY TypeParts DEF IInv, PoolAssumption, CmdTypes
<1>2. ASSUME UNCHANGED <<finished, ran>>,
             \A t \in Threads, c \in Cmds : (FinishedBy(t, c))' <=> FinishedBy(t, c)
      PROVE  FinishedWhenCalled'
    BY <1>1, <1>2 DEF FinishedWhenCalled
<1>3. ASSUME NEW t \in Threads, ThreadGoes(t), ~LeavePool(t), ~CmdDone(t) PROVE FinishedWhenCalled'
    <2>1. UNCHANGED <<finished, ran>> /\ \A u \in Threads : u # t => thr'[u] = thr[u]
        BY <1>1, <1>3, ThreadGoesKeeps, ThreadGoesOn DEF OnlyThread
    <2>2. CASE GetCmd(t)
        <3>1. thr[t].cmd = None
            BY <1>1, <2>2 DEF GetCmd, CmdWhileRunning, RightCmd
        <3>2. thr'[t].cmd = None \/ thr'[t].finishCalled = FALSE
            BY <1>1, <2>2, <3>1, GetCmdEffect DEF SameCmd
        <3>3. \A u \in Threads, c \in Cmds : (FinishedBy(u, c))' <=> FinishedBy(u, c)
            BY <1>1, <2>1, <3>1, <3>2 DEF FinishedBy
        <3> QED
            BY <1>2, <2>1, <3>3
    <2>3. CASE ~GetCmd(t)
        <3>1. thr'[t].cmd = thr[t].cmd /\ thr'[t].finishCalled = thr[t].finishCalled
            BY <1>1, <1>3, <2>3, LoopCheckEffect, BeginCmdEffect, RunCmdEffect, FinishedUpEffect
               DEF ThreadGoes, SameRest, SameCmd, SameFlag
        <3>2. \A u \in Threads, c \in Cmds : (FinishedBy(u, c))' <=> FinishedBy(u, c)
            BY <2>1, <3>1 DEF FinishedBy
        <3> QED
            BY <1>2, <2>1, <3>2
    <2> QED
        BY <2>2, <2>3
<1>4. ASSUME NEW t \in Threads, LeavePool(t) \/ CmdDone(t) PROVE FinishedWhenCalled'
    <2>1. thr[t].cmd \in Cmds
        BY <1>1, <1>4 DEF LeavePool, CmdDone, CmdWhileRunning, RightCmd, ThreadRecords
    <2>2. PICK c \in Cmds : c = thr[t].cmd
        BY <2>1
    <2>3. finished'[c] = 1 /\ \A d \in Cmds : d # c => finished'[d] = finished[d]
        <3>1. CallCommandFinish(t, c)
            BY <1>4, <2>2 DEF LeavePool, CmdDone
        <3>2. /\ \A d \in Cmds : d # c \/ thr[t].finishCalled = TRUE => finished'[d] = finished[d]
              /\ thr[t].cmd = c => finished'[c] = 1
            BY <2>2, <3>1, CallIsCounted
        <3> QED
            BY <2>2, <3>2
    <2>4. \A u \in Threads : u # t => thr'[u] = thr[u] /\ thr[u].cmd # c
        BY <1>1, <1>4, <2>2, ThreadGoesOn DEF ThreadGoes, OnlyThread, OnePlace, HasCmd
    <2>5. \A d \in Cmds, u \in Threads : d # c => ((FinishedBy(u, d))' <=> FinishedBy(u, d))
        BY <1>1, <1>4, <2>2, <2>4, LeavePoolEffect, CmdDoneEffect
           DEF FinishedBy, SameRest, SameCmd
    <2>6. c \in ran' \/ (FinishedBy(t, c))'
        BY <1>1, <1>4, <2>2, LeavePoolEffect DEF CmdDone, FinishedBy, SameRest, SameCmd
    <2>7. \A d \in Cmds : d # c => (d \in ran' <=> d \in ran)
        BY <1>4, <2>2 DEF LeavePool, CmdDone
    <2>8. \A d \in Cmds : d # c =>
              finished'[d] \in {0, 1}
              /\ (finished'[d] = 1 <=> d \in ran' \/ \E u \in Threads : (FinishedBy(u, d))')
        BY <1>1, <2>3, <2>5, <2>7 DEF FinishedWhenCalled
    <2> QED
        BY <2>3, <2>6, <2>8 DEF FinishedWhenCalled
<1>5. ASSUME SlowFinish PROVE FinishedWhenCalled'
    <2>1. slow \in Slows /\ slow # NotSlow /\ slow.thread \in Threads /\ slow.cmd \in Cmds
        BY <1>1, <1>5, Actors DEF PoolAssumption
    <2>2. PICK t \in Threads : t = slow.thread
        BY <2>1
    <2>3. PICK c \in Cmds : c = slow.cmd
        BY <2>1
    <2>4. thr[t].cmd = c \/ thr[t].finishCalled = TRUE
        BY <1>5, <2>1, <2>2, <2>3 DEF SlowFinish, IInv, SlowThread, Stopped
    <2>5. /\ \A d \in Cmds : d # c \/ thr[t].finishCalled = TRUE => finished'[d] = finished[d]
          /\ thr[t].cmd = c => finished'[c] = 1
        BY <1>5, <2>2, <2>3, <2>4, CallIsCounted DEF SlowFinish
    <2>6. /\ UNCHANGED ran /\ thr'[t].cmd = thr[t].cmd /\ thr'[t].finishCalled = TRUE
          /\ \A u \in Threads : u # t => thr'[u] = thr[u]
        BY <1>1, <1>5, <2>2, SlowFinishEffect DEF SlowFinish, SameRest, SameCmd, OnlyThread
    <2>7. CASE thr[t].finishCalled = TRUE
        BY <1>1, <2>5, <2>6, <2>7 DEF FinishedWhenCalled, FinishedBy
    <2>8. CASE thr[t].finishCalled # TRUE
        <3>1. thr[t].cmd = c /\ finished'[c] = 1 /\ (FinishedBy(t, c))'
            BY <2>4, <2>5, <2>6, <2>8 DEF FinishedBy
        <3>2. \A d \in Cmds, u \in Threads : d # c => ((FinishedBy(u, d))' <=> FinishedBy(u, d))
            BY <2>6, <3>1 DEF FinishedBy
        <3>3. \A d \in Cmds : d # c =>
                  finished'[d] \in {0, 1}
                  /\ (finished'[d] = 1 <=> d \in ran \/ \E u \in Threads : (FinishedBy(u, d))')
            BY <1>1, <2>5, <3>2 DEF FinishedWhenCalled
        <3> QED
            BY <2>6, <3>1, <3>3 DEF FinishedWhenCalled
    <2> QED
        BY <2>7, <2>8
<1>6. ASSUME Resizing \/ Joined PROVE FinishedWhenCalled'
    <2>1. ASSUME NEW u \in Threads, thr'[u] # thr[u] PROVE thr[u].cmd = None /\ thr'[u].cmd = None
        <3>1. CASE Resizing
            <4>1. thr[u].at = "none" /\ thr'[u].cmd = None
                BY <1>1, <2>1, <3>1, ResizingKeeps, AddsThreads
            <4> QED
                BY <1>1, <4>1 DEF CmdWhileRunning, RightCmd
        <3>2. CASE Joined
            <4>1. thr[u].at = "ended" /\ thr'[u].cmd = None
                BY <1>1, <2>1, <3>2, Actors, JoinedEffect DEF OnlyThread
            <4> QED
                BY <1>1, <4>1 DEF CmdWhileRunning, RightCmd
        <3> QED
            BY <1>6, <3>1, <3>2
    <2>4. \A u \in Threads, c \in Cmds : (FinishedBy(u, c))' <=> FinishedBy(u, c)
        BY <1>1, <2>1 DEF FinishedBy
    <2> QED
        BY <1>2, <1>6, <2>4, ResizingKeeps, JoinsKeeps DEF Joins
<1>7. ASSUME SlowStop PROVE FinishedWhenCalled'
    <2>1. \A u \in Threads : thr'[u].cmd = thr[u].cmd /\ thr'[u].finishCalled = thr[u].finishCalled
        BY <1>1, <1>7, Actors, SlowStopEffect DEF SameRest, SameCmd, SameFlag, OnlyThread
    <2>2. \A u \in Threads, c \in Cmds : (FinishedBy(u, c))' <=> FinishedBy(u, c)
        BY <2>1 DEF FinishedBy
    <2> QED
        BY <1>2, <1>7, <2>2 DEF SlowStop
<1>8. ASSUME UNCHANGED <<finished, ran, thr>> PROVE FinishedWhenCalled'
    BY <1>2, <1>8 DEF FinishedBy
<1> QED
    BY <1>3, <1>4, <1>5, <1>6, <1>7, <1>8, StepsAre, ReleasesKeeps, JoinsKeeps, SlowGoesKeeps,
       SlowBeginKeeps, CalledKeeps

-----------------------------------------------------------------------------
LEMMA Begins ==
    ASSUME PoolAssumption, Init
    PROVE  IInv
<1>1. /\ IsFiniteSet(Threads) /\ Cardinality(Threads) \in Nat
      /\ Size \in Nat /\ Size <= Cardinality(Threads)
    BY FS_CardinalityType DEF PoolAssumption
<1>2. pool \subseteq Threads
    BY <1>1, SomeOfIs DEF Init
<1>3. /\ NewThread \in ThreadRecords /\ NewThread.at = "loop" /\ NewThread.cmd = None
      /\ NewThread.current = None /\ NoThread \in ThreadRecords /\ NoThread.at = "none"
      /\ NoThread.cmd = None /\ NoThread.current = None
    BY DEF NewThread, NoThread, ThreadRecords
<1>4. /\ thr \in [Threads -> ThreadRecords]
      /\ \A t \in Threads : /\ thr[t].cmd = None /\ thr[t].current = None
                            /\ thr[t].at \in {"none", "loop"} /\ (thr[t].at = "loop" => t \in pool)
    BY <1>3 DEF Init
<1>5. TypeOK
    <2>1. queue \in Seq(Cmds \cup {End}) /\ owner \in [Cmds -> Threads \cup {None}]
        BY DEF Init
    <2>2. ReleaseTypes /\ slow \in Slows \cup {NotSlow}
        BY DEF Init, ReleaseTypes, NotReleased
    <2>3. PoolTypes
        BY <1>1, <1>2 DEF Init, PoolTypes, PoolAssumption
    <2>4. CallTypes
        BY DEF Init, CallTypes, PoolAssumption
    <2>5. JoinTypes
        BY DEF Init, JoinTypes
    <2>6. CmdTypes
        BY DEF Init, CmdTypes
    <2> QED
        BY <1>4, <2>1, <2>2, <2>3, <2>4, <2>5, <2>6, TypeParts
<1>6. CmdWhileRunning
    BY <1>4 DEF CmdWhileRunning, RightCmd
<1>7. queue = <<>> /\ toJoin = <<>> /\ DOMAIN queue = {} /\ DOMAIN toJoin = {}
    BY DEF Init
<1>8. OnePlace
    BY <1>4, <1>7 DEF Init, OnePlace, InQueue, HasCmd
<1>9. FinishedWhenCalled
    BY <1>4 DEF Init, FinishedWhenCalled, FinishedBy, PoolAssumption
<1>10. SlowThread /\ Owned
    BY DEF Init, SlowThread, Owned
<1>11. ReleasedOnce
    BY <1>4, <1>7 DEF Init, ReleasedOnce, ToBeJoined, NotReleased, PoolAssumption
<1> QED
    BY <1>5, <1>6, <1>8, <1>9, <1>10, <1>11 DEF IInv

LEMMA Continues ==
    ASSUME PoolAssumption, IInv, [Next]_tpVars
    PROVE  IInv'
<1>1. CASE Next
    <2>1. TypeOK /\ CmdWhileRunning
        BY DEF IInv
    <2>2. TypeOK'
        <3>1. /\ (queue \in Seq(Cmds \cup {End}))' /\ (thr \in [Threads -> ThreadRecords])'
              /\ (owner \in [Cmds -> Threads \cup {None}])' /\ (slow \in Slows \cup {NotSlow})'
            BY <1>1, <2>1, QueueTyped, ThreadTyped, OwnerTyped, SlowTyped
        <3>2. ReleaseTypes' /\ PoolTypes' /\ CallTypes' /\ JoinTypes' /\ CmdTypes'
            BY <1>1, <2>1, ReleaseTyped, PoolTyped, CallTyped, JoinTyped, CmdTyped
        <3> QED
            BY <3>1, <3>2 DEF TypeOK, ThreadRecords, Slows, ReleaseTypes, PoolTypes, CallTypes,
               JoinTypes, CmdTypes
    <2> QED
        BY <1>1, <2>2, CmdWhileRunningKept, OnePlaceKept, FinishedWhenCalledKept, SlowThreadKept,
           OwnedKept, ReleasedOnceKept DEF IInv
<1>2. CASE UNCHANGED tpVars
    <2>1. UNCHANGED <<queue, thr, owner, release, pool, poolMtx, target, max, resizes, stop, slow,
                      toJoin, joiner, finished, ran>>
        BY <1>2 DEF tpVars
    <2>2. TypeOK' /\ CmdWhileRunning' /\ SlowThread' /\ Owned'
        BY <2>1 DEF IInv, TypeOK, CmdWhileRunning, SlowThread, Stopped, Owned
    <2>3. OnePlace' /\ FinishedWhenCalled' /\ ReleasedOnce'
        BY <2>1 DEF IInv, OnePlace, InQueue, HasCmd, FinishedWhenCalled, FinishedBy, ReleasedOnce,
           ToBeJoined
    <2> QED
        BY <2>2, <2>3 DEF IInv
<1> QED
    BY <1>1, <1>2

-----------------------------------------------------------------------------
(* The inductive invariant holds in every state that the pool can reach. *)
THEOREM Invariance == Spec => []IInv
<1>1. Init => IInv
    BY PoolAssumption, Begins
<1>2. IInv /\ [Next]_tpVars => IInv'
    BY PoolAssumption, Continues
<1> QED
    BY <1>1, <1>2, PTL DEF Spec

(* Every variable of the pool keeps the values its member can have. *)
THEOREM TypeCorrect == Spec => []TypeOK
<1>1. IInv => TypeOK
    BY DEF IInv
<1> QED
    BY <1>1, Invariance, PTL

(* callCommandFinish: the queue is told of the end of a command exactly     *)
(* once, although it may be told by the command, by its thread and by       *)
(* whatever makes the thread leave the pool.                                *)
THEOREM ToldOnce == Spec => []FinishedOnce
<1>1. IInv => FinishedOnce
    <2> SUFFICES ASSUME IInv, NEW c \in Cmds
                 PROVE  finished[c] <= 1 /\ (c \in ran => finished[c] = 1)
        BY DEF FinishedOnce
    <2>1. finished[c] \in {0, 1} /\ (c \in ran => finished[c] = 1)
        BY DEF IInv, FinishedWhenCalled
    <2> QED
        BY <2>1
<1> QED
    BY <1>1, Invariance, PTL

(* EventThread::finishup and ThreadPool::release: however a thread comes to *)
(* leave the pool, it is in the pool until it is erased from it, is never   *)
(* in the pool again, and is handed to the joiner once.                     *)
THEOREM HandedOverOnce == Spec => []JoinedOnce
<1>1. IInv => JoinedOnce
    <2> SUFFICES ASSUME IInv, NEW t \in Threads
                 PROVE  LET places == {i \in DOMAIN toJoin : toJoin[i] = t}
                            joins  == Cardinality(places) + (IF joiner.thread = t THEN 1 ELSE 0)
                        IN  /\ joins = (IF release[t].at \in {"resize", "done"} THEN 1 ELSE 0)
                            /\ thr[t].at # "none" /\ release[t].at \in {"no", "erase"} => t \in pool
                            /\ release[t].at \in {"add", "resize", "done"} => t \notin pool
        BY DEF JoinedOnce
    <2> DEFINE places == {i \in DOMAIN toJoin : toJoin[i] = t}
    <2>1. /\ \A i, j \in places : i = j
          /\ joiner.thread = t => places = {}
          /\ ToBeJoined(t) <=> release[t].at \in {"resize", "done"}
          /\ thr[t].at # "none" /\ release[t].at \in {"no", "erase"} => t \in pool
          /\ release[t].at \in {"add", "resize", "done"} => t \notin pool
        BY DEF IInv, ReleasedOnce
    <2>2. ToBeJoined(t) <=> places # {} \/ joiner.thread = t
        BY DEF ToBeJoined
    <2>3. places = {} => Cardinality(places) = 0
        BY FS_EmptySet
    <2>4. places # {} => Cardinality(places) = 1
        <3>1. SUFFICES ASSUME NEW k \in places PROVE Cardinality(places) = 1
            OBVIOUS
        <3>2. places = {k}
            BY <2>1
        <3> HIDE DEF places
        <3> QED
            BY <3>2, FS_Singleton
    <2> HIDE DEF places
    <2>5. Cardinality(places) + (IF joiner.thread = t THEN 1 ELSE 0)
              = (IF release[t].at \in {"resize", "done"} THEN 1 ELSE 0)
        BY <2>1, <2>2, <2>3, <2>4
    <2> QED
        BY <2>1, <2>5 DEF places
<1> QED
    BY <1>1, Invariance, PTL
=============================================================================
