------------------------------ MODULE ThreadPool ------------------------------
(***************************************************************************)
(* util/ThreadPool, util/EventThread and util/Command: a pool of threads   *)
(* that take commands from one queue, that may leave the pool while they   *)
(* run one, and that are joined by a thread of its own.                    *)
(*                                                                         *)
(* A thread is an identity that is used again once the thread object is    *)
(* destroyed.  Besides the threads there are a caller that queues commands *)
(* and resizes the pool, one that shuts it down, the joiner, and, of a     *)
(* queue that schedules, whatever has a slow command's thread leave.       *)
(* Steps are cut at the locks and at the atomic flags.  Actions of         *)
(* commands come to an end.                                                *)
(***************************************************************************)
EXTENDS Naturals, FiniteSets, Sequences

CONSTANTS
    Threads,    \* identities of threads; a bound on those that exist at a time
    Cmds,       \* the commands, each of which is queued once
    Leaving,    \* those that call leavePool
    Slow,       \* those that are made to leave the pool from outside
    Size,       \* the size the pool begins with
    Max,        \* the _maxThreadCount it begins with
    Sizes,      \* what it may be resized to
    MaxResizes, \* bound on the number of calls of resize
    MayShutDown \* whether it is shut down

End  == "end"
None == "none"

ASSUME PoolAssumption ==
    /\ IsFiniteSet(Threads) /\ None \notin Threads /\ None \notin Cmds /\ End \notin Cmds
    /\ Leaving \subseteq Cmds /\ Slow \subseteq Cmds
    /\ Size \in 1..Cardinality(Threads) /\ Sizes \subseteq 1..Cardinality(Threads)
    /\ Max \in Nat /\ Size <= Max /\ MaxResizes \in Nat /\ MayShutDown \in BOOLEAN

VARIABLES
    queue,    \* the CommandQueue
    thr,      \* each EventThread: where it is, _cmd, eLoop and its other flags
    release,  \* how far the release of each thread from the pool is, and by whom
    pool,     \* _pool
    poolMtx,  \* _poolMutex, while a thread is released
    target,   \* _targetThrdCount
    max,      \* _maxThreadCount
    resizes,  \* the calls of resize, and whether one has yet to act
    stop,     \* how far shutdownPool is
    toJoin,   \* EventThreadJoiner::_eventThreads
    joiner,   \* the joiner thread: whether it runs, and what it joins
    owner,    \* CommandForThreadPool::_poolEventThread of each command
    slow,     \* the call of leavePool from outside
    finished, \* how often commandFinish was called for each command
    ran       \* the commands that their threads are done with

threadVars == <<thr, owner>>
poolVars   == <<pool, poolMtx, target, max>>
callVars   == <<resizes, stop, slow>>
joinVars   == <<toJoin, joiner>>
cmdVars    == <<finished, ran>>
tpVars == <<queue, threadVars, release, poolVars, callVars, joinVars, cmdVars>>

-----------------------------------------------------------------------------
(* The members of an EventThread. *)
NoThread  == [at |-> "none", cmd |-> None, current |-> None, eLoop |-> FALSE, finishCalled |-> FALSE]
NewThread == [NoThread EXCEPT !.at = "loop", !.eLoop = TRUE]

Count == Cardinality({t \in Threads : thr[t].at # "none"})

(* The commands that are queued or being run. *)
Waiting == ((Cmds \cap {queue[i] : i \in DOMAIN queue}) \cup {thr[t].cmd : t \in Threads}) \ {None}

(* Any n of a set, or all if there are fewer: which does not matter. *)
SomeOf(S, n) == CHOOSE s \in SUBSET S : Cardinality(s) = (IF n <= Cardinality(S) THEN n ELSE Cardinality(S))

(* callCommandFinish: once per loop of the thread, whoever calls it. *)
CallCommandFinish(t, c) ==
    finished' = IF thr[t].finishCalled THEN finished ELSE [finished EXCEPT ![c] = @ + 1]

(* As many new threads as are missing, while there are identities left. *)
AddThreads ==
    LET missing == IF target > Cardinality(pool) THEN target - Cardinality(pool) ELSE 0
        new     == SomeOf({t \in Threads : thr[t].at = "none"}, missing)
    IN  /\ Cardinality(new) = missing
        /\ pool' = pool \cup new
        /\ thr' = [t \in Threads |-> IF t \in new THEN NewThread ELSE thr[t]]

(* One end command; the thread that it ends sees to the next. *)
EndOne == queue' = IF target < Cardinality(pool) THEN Append(queue, End) ELSE queue

(* Mutants: a thread that is released is not replaced; none is ended. *)
ResizePool_OnlyShrinks == EndOne /\ UNCHANGED <<pool, thr>>
ResizePool_OnlyGrows   == AddThreads /\ UNCHANGED queue

(* _resize *)
ResizePool == AddThreads /\ EndOne

-----------------------------------------------------------------------------
(* EventThread::_handleCmds *)
Goto(t, at) == thr' = [thr EXCEPT ![t].at = at]

LoopCheck(t) ==
    /\ thr[t].at = "loop"
    /\ Goto(t, IF thr[t].eLoop THEN "get" ELSE "finishup")
    /\ UNCHANGED <<queue, owner, release, poolVars, callVars, joinVars, cmdVars>>

(* Mutant: the flag is left as the last command made it. *)
Take_KeepsFlag(t) == [thr[t] EXCEPT !.at = "begin", !.cmd = Head(queue)]

Take(t) == [thr[t] EXCEPT !.at = "begin", !.cmd = Head(queue), !.finishCalled = FALSE]

(* getCmd; the end command leaves nothing to do but to end. *)
GetCmd(t) ==
    /\ thr[t].at = "get" /\ queue # <<>>
    /\ queue' = Tail(queue)
    /\ thr' = [thr EXCEPT ![t] = IF Head(queue) = End THEN [@ EXCEPT !.at = "loop", !.eLoop = FALSE]
                                 ELSE Take(t)]
    /\ UNCHANGED <<owner, release, poolVars, callVars, joinVars, cmdVars>>

(* specialActions tells the command its thread, and the command runs. *)
BeginCmd(t) ==
    /\ thr[t].at = "begin"
    /\ thr' = [thr EXCEPT ![t].current = thr[t].cmd, ![t].at = "run"]
    /\ owner' = [owner EXCEPT ![thr[t].cmd] = t]
    /\ UNCHANGED <<queue, release, poolVars, callVars, joinVars, cmdVars>>

RunCmd(t) ==
    /\ thr[t].at = "run"
    /\ IF thr[t].cmd \in Leaving
       THEN thr' = [thr EXCEPT ![t].at = "leave", ![t].eLoop = FALSE]
       ELSE Goto(t, "ran")
    /\ UNCHANGED <<queue, owner, release, poolVars, callVars, joinVars, cmdVars>>

(* leavePool, within the command: _waitIfAtMaxThreadPoolCount, then finish *)
(* the command for the queue and have this thread released.               *)
LeavePool(t) ==
    /\ thr[t].at = "leave" /\ Count <= max
    /\ CallCommandFinish(t, thr[t].cmd)
    /\ thr' = [thr EXCEPT ![t].at = "left", ![t].finishCalled = TRUE]
    /\ UNCHANGED <<queue, owner, release, poolVars, callVars, joinVars, ran>>

(* The command is done, and so is the loop with it. *)
CmdDone(t) ==
    /\ thr[t].at = "ran"
    /\ CallCommandFinish(t, thr[t].cmd)
    /\ ran' = ran \cup {thr[t].cmd}
    /\ thr' = [thr EXCEPT ![t] = [@ EXCEPT !.at = "loop", !.cmd = None, !.current = None,
                                           !.finishCalled = TRUE]]
    /\ UNCHANGED <<queue, owner, release, poolVars, callVars, joinVars>>

-----------------------------------------------------------------------------
(* finishup and ThreadPool::release of thread t, by itself or from outside. *)
NotReleased == [at |-> "no", by |-> None]
By(t)       == IF slow.at = "release" /\ slow.thread = t THEN {"outside"} ELSE {}
Releasers(t) == By(t) \cup (IF thr[t].at \in {"left", "finishup"} THEN {"self"} ELSE {})

(* Mutant: whoever finds the flag set does not return, but releases again. *)
ReleaseOnce_Twice(t) == release[t].at \in {"no", "done"}

(* _finishupOnce *)
ReleaseOnce(t) == release[t].at = "no"

ReleaseBegin(t, by) ==
    /\ by \in Releasers(t) /\ ReleaseOnce(t)
    /\ release' = [release EXCEPT ![t] = [at |-> "erase", by |-> by]]
    /\ UNCHANGED <<queue, threadVars, poolVars, callVars, joinVars, cmdVars>>

ReleaseErase(t) ==
    /\ release[t].at = "erase" /\ poolMtx = None
    /\ pool' = pool \ {t}
    /\ poolMtx' = t
    /\ release' = [release EXCEPT ![t].at = "add"]
    /\ UNCHANGED <<queue, threadVars, target, max, callVars, joinVars, cmdVars>>

(* EventThreadJoiner::addThread *)
ReleaseAdd(t) ==
    /\ release[t].at = "add"
    /\ toJoin' = Append(toJoin, t)
    /\ poolMtx' = None
    /\ release' = [release EXCEPT ![t].at = "resize"]
    /\ UNCHANGED <<queue, threadVars, pool, target, max, callVars, joiner, cmdVars>>

ReleaseResize(t) ==
    /\ release[t].at = "resize" /\ poolMtx = None
    /\ ResizePool
    /\ release' = [release EXCEPT ![t].at = "done"]
    /\ UNCHANGED <<owner, poolMtx, target, max, callVars, joinVars, cmdVars>>

(* finishup returns when this thread's release is done, or is not its own. *)
Returns(t, by) == release[t].at # "no" /\ (release[t].by = by => release[t].at = "done")

FinishedUp(t) ==
    /\ thr[t].at \in {"left", "finishup"} /\ Returns(t, "self")
    /\ Goto(t, IF thr[t].at = "left" THEN "ran" ELSE "ended")
    /\ UNCHANGED <<queue, owner, release, poolVars, callVars, joinVars, cmdVars>>

-----------------------------------------------------------------------------
(* EventThreadJoiner::joinLoop *)
Join ==
    /\ joiner.runs /\ joiner.thread = None /\ toJoin # <<>>
    /\ joiner' = [joiner EXCEPT !.thread = Head(toJoin)]
    /\ toJoin' = Tail(toJoin)
    /\ UNCHANGED <<queue, threadVars, release, poolVars, callVars, cmdVars>>

(* The thread has ended, and is destroyed with the last pointer to it. *)
Joined ==
    LET t == joiner.thread IN
    /\ t # None
    /\ thr[t].at = "ended" /\ slow.thread # t
    /\ thr' = [thr EXCEPT ![t] = NoThread]
    /\ release' = [release EXCEPT ![t] = NotReleased]
    /\ owner' = [c \in Cmds |-> IF owner[c] = t THEN None ELSE owner[c]]
    /\ joiner' = [joiner EXCEPT !.thread = None]
    /\ UNCHANGED <<queue, poolVars, callVars, toJoin, cmdVars>>

JoinerEnds ==
    /\ joiner.runs /\ joiner.thread = None /\ toJoin = <<>> /\ stop = "join"
    /\ joiner' = [joiner EXCEPT !.runs = FALSE]
    /\ UNCHANGED <<queue, threadVars, release, poolVars, callVars, toJoin, cmdVars>>

-----------------------------------------------------------------------------
(* leavePool(cmd) from outside: the thread is had from the command, once.  *)
NotSlow == [at |-> "no", thread |-> None, cmd |-> None]

CanLeave(c) == c \in Slow /\ slow = NotSlow /\ owner[c] # None

SlowBegin(c) ==
    /\ CanLeave(c)
    /\ slow' = [at |-> "stop", thread |-> owner[c], cmd |-> c]
    /\ owner' = [owner EXCEPT ![c] = None]
    /\ UNCHANGED <<queue, thr, release, poolVars, resizes, stop, joinVars, cmdVars>>

(* The thread takes no more commands, *)
SlowStop ==
    /\ slow.at = "stop"
    /\ thr' = [thr EXCEPT ![slow.thread].eLoop = FALSE]
    /\ slow' = [slow EXCEPT !.at = "compare"]
    /\ UNCHANGED <<queue, owner, release, poolVars, resizes, stop, joinVars, cmdVars>>

SlowCompare ==
    /\ slow.at = "compare"
    /\ slow' = IF thr[slow.thread].current = slow.cmd THEN [slow EXCEPT !.at = "finish"] ELSE NotSlow
    /\ UNCHANGED <<queue, threadVars, release, poolVars, resizes, stop, joinVars, cmdVars>>

(* and if it still runs that one, it is finished for the queue *)
SlowFinish ==
    /\ slow.at = "finish"
    /\ CallCommandFinish(slow.thread, slow.cmd)
    /\ thr' = [thr EXCEPT ![slow.thread].finishCalled = TRUE]
    /\ slow' = [slow EXCEPT !.at = "release"]
    /\ UNCHANGED <<queue, owner, release, poolVars, resizes, stop, joinVars, ran>>

(* and the thread released. *)
SlowEnds ==
    /\ slow.at = "release" /\ Returns(slow.thread, "outside")
    /\ slow' = NotSlow
    /\ UNCHANGED <<queue, threadVars, release, poolVars, resizes, stop, joinVars, cmdVars>>

-----------------------------------------------------------------------------
QueCmd(c) ==
    /\ c \notin Waiting \cup ran
    /\ stop = "no"
    /\ queue' = Append(queue, c)
    /\ UNCHANGED <<threadVars, release, poolVars, callVars, joinVars, cmdVars>>

SetTarget(n) == target' = IF stop = "no" THEN n ELSE 0

(* resize: the target first, with room for one thread that leaves. *)
Resize(n) ==
    /\ resizes.calls < MaxResizes /\ ~resizes.acts
    /\ resizes' = [calls |-> resizes.calls + 1, acts |-> TRUE]
    /\ max' = IF n >= max THEN n + 1 ELSE max
    /\ SetTarget(n)
    /\ UNCHANGED <<queue, threadVars, release, pool, poolMtx, stop, slow, joinVars, cmdVars>>

ResizeActs ==
    /\ resizes.acts /\ poolMtx = None
    /\ ResizePool
    /\ resizes' = [resizes EXCEPT !.acts = FALSE]
    /\ UNCHANGED <<owner, release, poolMtx, target, max, stop, slow, joinVars, cmdVars>>

(* shutdownPool: the flag, a target of no threads, *)
Shutdown ==
    /\ MayShutDown /\ stop = "no"
    /\ stop' = "flag"
    /\ UNCHANGED <<queue, threadVars, release, poolVars, resizes, slow, joinVars, cmdVars>>

EndAll ==
    /\ stop = "flag"
    /\ stop' = "end"
    /\ SetTarget(0)
    /\ UNCHANGED <<queue, threadVars, release, pool, poolMtx, max, resizes, slow, joinVars, cmdVars>>

EndAllActs ==
    /\ stop = "end" /\ poolMtx = None
    /\ stop' = "wait"
    /\ ResizePool
    /\ UNCHANGED <<owner, release, poolMtx, target, max, resizes, slow, joinVars, cmdVars>>

(* waitForResize, which reads the size without _poolMutex, *)
WaitForResize ==
    /\ stop = "wait" /\ Cardinality(pool) = target
    /\ stop' = "join"
    /\ UNCHANGED <<queue, threadVars, release, poolVars, resizes, slow, joinVars, cmdVars>>

(* and the end of the joiner. *)
ShutdownJoin ==
    /\ stop = "join" /\ ~joiner.runs
    /\ stop' = "done"
    /\ UNCHANGED <<queue, threadVars, release, poolVars, resizes, slow, joinVars, cmdVars>>

-----------------------------------------------------------------------------
(* newThreadPool *)
Init ==
    /\ queue = <<>> /\ target = Size /\ max = Max
    /\ pool = SomeOf(Threads, Size)
    /\ thr = [t \in Threads |-> IF t \in pool THEN NewThread ELSE NoThread]
    /\ release = [t \in Threads |-> NotReleased] /\ poolMtx = None
    /\ resizes = [calls |-> 0, acts |-> FALSE] /\ stop = "no" /\ slow = NotSlow
    /\ toJoin = <<>> /\ joiner = [runs |-> TRUE, thread |-> None]
    /\ owner = [c \in Cmds |-> None] /\ finished = [c \in Cmds |-> 0] /\ ran = {}

Thread(t) == \/ LoopCheck(t) \/ GetCmd(t) \/ BeginCmd(t) \/ RunCmd(t) \/ LeavePool(t) \/ CmdDone(t)
             \/ (\E by \in {"self", "outside"} : ReleaseBegin(t, by))
             \/ ReleaseErase(t) \/ ReleaseAdd(t) \/ ReleaseResize(t) \/ FinishedUp(t)
Joins     == Join \/ Joined \/ JoinerEnds
SlowGoes  == SlowStop \/ SlowCompare \/ SlowFinish \/ SlowEnds
StopGoes  == EndAll \/ EndAllActs \/ WaitForResize \/ ShutdownJoin

(* What goes on by itself, and what is called. *)
Runs  == (\E t \in Threads : Thread(t)) \/ Joins \/ SlowGoes \/ ResizeActs \/ StopGoes
Calls == \/ \E c \in Cmds : SlowBegin(c) \/ QueCmd(c)
         \/ (\E n \in Sizes : Resize(n)) \/ Shutdown

Next == Runs \/ Calls

(* Calls are few and each leads to finitely many steps, so that it is      *)
(* enough that something goes on as long as anything can.                 *)
Fairness == WF_tpVars(Runs)

Spec     == Init /\ [][Next]_tpVars
FairSpec == Spec /\ Fairness

-----------------------------------------------------------------------------
TypeOK ==
    /\ queue \in Seq(Cmds \cup {End})
    /\ thr \in [Threads -> [at : {"none", "loop", "get", "begin", "run", "leave", "left", "ran",
                                  "finishup", "ended"},
                            cmd : Cmds \cup {None}, current : Cmds \cup {None},
                            eLoop : BOOLEAN, finishCalled : BOOLEAN]]
    /\ release \in [Threads -> [at : {"no", "erase", "add", "resize", "done"},
                                by : {None, "self", "outside"}]]
    /\ pool \subseteq Threads /\ poolMtx \in Threads \cup {None}
    /\ target \in 0..Cardinality(Threads) /\ max \in Nat
    /\ resizes \in [calls : 0..MaxResizes, acts : BOOLEAN]
    /\ stop \in {"no", "flag", "end", "wait", "join", "done"}
    /\ toJoin \in Seq(Threads) /\ joiner \in [runs : BOOLEAN, thread : Threads \cup {None}]
    /\ owner \in [Cmds -> Threads \cup {None}]
    /\ slow \in [at : {"stop", "compare", "finish", "release"}, thread : Threads, cmd : Slow]
                \cup {NotSlow}
    /\ finished \in [Cmds -> Nat] /\ ran \subseteq Cmds

(* callCommandFinish: the queue is told of the end of each command exactly *)
(* once, whether it ends, its thread leaves the pool or is made to leave.  *)
FinishedOnce ==
    \A c \in Cmds : finished[c] <= 1 /\ (c \in ran => finished[c] = 1)

(* release: a thread is in the pool until it is erased from it, and then    *)
(* not in the pool and handed to the joiner, once, whoever releases it.     *)
(* That the joiner is still there to join it is AllJoined.                  *)
JoinedOnce ==
    \A t \in Threads :
        LET joins == Cardinality({i \in DOMAIN toJoin : toJoin[i] = t}) + (IF joiner.thread = t THEN 1 ELSE 0)
        IN  /\ joins = (IF release[t].at \in {"resize", "done"} THEN 1 ELSE 0)
            /\ thr[t].at # "none" /\ release[t].at \in {"no", "erase"} => t \in pool
            /\ release[t].at \in {"add", "resize", "done"} => t \notin pool

(* resize and release: in the end the pool has the size it was last given, *)
(* whatever leaves it and whichever thread an end command ends.            *)
PoolSettles == <>[](Cardinality(pool) = target)

(* "Both operations should have no effect on ... commands on the queue":   *)
(* while the pool is not shut down, each command is run.                   *)
QueuedRuns == <>[](stop = "no" => Waiting = {})

(* shutdownPool, once it is called, returns: it is not under way for ever. *)
ShutdownEnds == []<>(stop \in {"no", "done"})

(* "Call to shutdown the thread pool, and wait for all threads to complete. *)
(* [...] This includes threads that were removed from the pool."            *)
AllJoined == stop = "done" => \A t \in Threads : thr[t].at = "none"

(* "Every command sent to the pool before shutdown is called should        *)
(* complete."                                                              *)
ShutdownLosesNothing == stop = "done" => \A i \in DOMAIN queue : queue[i] = End
=============================================================================
