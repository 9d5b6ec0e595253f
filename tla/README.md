# A TLA+ model of the M2 cell controller

These modules model the control core of `ts_m2cellcpp`, the program that will
run the M2 mirror cell of the Rubin Observatory: what it does with the power of
the cell, who may ask for it, and what happens when a client, an input or a
whole shutdown comes at a bad moment. Paths below are relative to
`src/src/LSST/` unless they start otherwise.

## Inventory

### The parts, their state and their operations

| Part | Source | State | Operations |
|---|---|---|---|
| `PowerSubsystem`, once for MOTOR and once for COMM | `control/PowerSubsystem` | target and actual power state, phase and its start time, telemetry counter, last reading | `setPowerOn`, `setPowerOff` (any thread), `processDaq` (event thread) |
| `PowerSystem` | `control/PowerSystem` | the two subsystems, the time of the last reading, a queue and its thread, a timeout thread | `powerMotor`, `powerComm`, readings, timeout checks |
| `FpgaIo` | `control/FpgaIo` | output port, last `SysInfo` | a loop that exchanges both with the hardware and queues a reading |
| `SimCore`, `SimPowerSubsystem` | `simulator` | relays, voltages, currents, breakers | a loop that applies the output port |
| `FaultMgr`, `BasicFaultMgr`, `FaultStatusBits` | `faultmgr` | connection fault; current, previous, summary and enabled faults of three managers | `updatePowerFaults`, `checkForPowerSubsystemFaults`, `resetFaults`, `enableFaultsInMask`, `reportComConnectionCount`, `reportMotionEngineTimeout` |
| `Model`, `StateMap`, the `State`s | `state` | current state, `_mtx` | `changeState`, `goToSafeMode`, `reportPowerSystemStateChange`, `ctrlStart`, `systemShutdown` |
| `ComServer`, `ComConnection` | `system` | map of connections, flags of each | accept, begin, read a command, shut down, erase, broadcast |
| `Globals` | `system/Globals` | connection count and values for messages | `setTcpIpConnected` |
| `NetCommand`s and their factory | `control` | previous sequence number | parse, acknowledge, run the action in a detached thread |
| `MotionEngine` | `control/MotionEngine` | started, stopped and joined flags, a queue, a timeout thread | start, stop, join, timeout check |
| `EventThread`, `Command`, `ThreadPool` | `util` | queues, loop flags, trackers | queue, end, join, resize |
| `TelemetryCom` | `system/TelemetryCom` | listening socket, handlers of the clients with two threads each | accept, send, read, sweep, shut down, join |
| `TelemetryMap`, `TelemetryItem`s | `system` | the values of every item | `setItemFromJsonStr`, `copyMap`, `compareMaps` |
| `ControlMain` | `control/ControlMain` | the program's own thread | start everything, wait for the server, join everything |

The remaining parts (configuration, logging, port bit names, unused mocks,
LabVIEW sketches) hold data or text.
`PROJECT.json` lists every part with its files and says whether it is modelled.

### How they interact

A client's command arrives on one of the server's threads and runs in a
detached thread of its own: `NCmdPower::action` asks the Model for its current
state, and the state asks `PowerSystem` for the power. Readings come from the
loop of `FpgaIo`, through the queue of `PowerSystem`; its event thread checks
the health inputs, lets both subsystems process the reading, reports a change
of power to the Model and hands faults to `FaultMgr`. `FaultMgr` refuses power
while no client is connected or a fault is latched, and sends the Model to safe
mode. The Model turns both subsystems off, one after the other.

The locks nest in one order: `Globals::_tcpIpConnectedMtx`, `Model::_mtx`,
`PowerSubsystem::_powerStateMtx`, then those of `FpgaIo` and `FaultMgr`, which
are leaves. `FaultMgr` lets go of its own before it calls the Model.

### What is hard, and what makes each part correct

* **PowerSubsystem.** Commands come between any two locked sections of
  `processDaq`, and restart a sequence that takes dozens of readings. Correct
  means: the output bits agree with the target; the phase belongs to the state;
  a latched fault keeps power off; ON is declared only on evidence; turning on
  and off come to an end; low voltage is noticed.
* **PowerSystem.** The rule that MOTOR needs COMM is checked at one moment and
  acted on at another, in three places. Correct means: MOTOR does not stay on
  without COMM.
* **Model.** It reads two subsystems that change meanwhile, and hears of a
  change only if the subsystem remembers what it last reported. Correct means:
  IDLE goes when power goes, OFFLINE is left only for a client.
* **Connections.** A client that goes away is noticed in three steps, while its
  commands and the readings go on. Correct means: nothing is powered after it.
* **FaultMgr.** Edges are detected by comparing bit sets that several callers
  rewrite, and a call takes one lock after the other. Correct means: what was
  seen stays latched until it is reset, a fault that outlasts a reset is latched
  again, a new health fault leads to safe mode, a lost connection ends power.
* **Commands.** One sequence number serves every client, a command is answered
  twice, and the next one is read before the last one ends. Correct means: no
  command runs twice, each is answered, and by answers of its own.
* **Telemetry.** A socket is closed by up to three threads and its descriptor is
  used again. Correct means: no handler is destroyed while its threads run, a
  client that stays is served, shutdown ends.
* **Threads.** Queues end, threads are joined, connections are destroyed in
  callbacks. Correct means: nothing waits on itself, nothing is counted twice.

`PROJECT.json` lists these hazards at their lines with the properties that
cover them, or with a note on why none does.

## The modules

### `PowerSubsystem` and `PowerPromise`

`PowerSubsystem` is one subsystem with its hardware. `targ`, `actual`, `phase`,
`age` (the time since `_phaseStartTime`), `telem` and `sysInfo` are the members
of the class; `port` is its two bits of the output port; `latched` and
`commLost` are what `FaultMgr` answers it with; `plant` is the hardware. `pc`
is where `processDaq` is: it reads, checks for faults, processes the reading
and hands over what it found, and `SetPowerOn` or `SetPowerOff` may come between
any two of these. `_processPowerOn` is split by the actual state into
`OnWhileOn`, `OnWhileTurningOn`, `OnWhileReset` and `OnWhileUnknown`, each with
one disjunct for every way out of the C++ `case`.

What is abstracted: voltages are the five classes that the thresholds
distinguish; the breakers of a group are the status `checkBreakers` computes
from them; a current is over its limit or not; time is ticks. Warnings only
report. The buffers of `FpgaIo` delay a reading or an output, and a delay is a
step of the hardware or of the event thread that has not happened yet.
`TURNING_OFF` is kept although no statement enters it, because the code's
`switch` handles it; `NeverTurningOff` is part of the proved invariant.

`PowerPromise` says what a caller may count on: the target is ON or OFF, and
the actual state follows along a fixed graph in which ON is reached through
TURNING_ON and only a processed reading moves it. `PowerSubsystem` implements
it (`KeepsPromise`), checked by TLC and proved.

### `StateMap` and `ControlSystem`

`StateMap` holds the accepted changes of the Model's state as operators:
`Acceptable` is the table of `_changeState`, `SafeTarget` is `goToASafeState`.

`ControlSystem` puts the Model, the `PowerSystem`'s event thread, `FaultMgr`,
the commands of a client and its connection around the two subsystems. A
subsystem does here what `PowerPromise` says, so the phases and voltages of
`PowerSubsystem` need not be carried along; `SubsystemsKeepPromise` checks that
it is driven only in the ways the promise allows.

The steps are cut at the locks:

* `Model::_mtx` is held over two steps by whoever turns off both subsystems
  (`TurnOffAll`, then `TurnOffComm`) and by the report (`DaqReport`, then
  `DaqAct`), because commands, which do not take it, run in between. That is
  also why the two subsystems are turned off in two steps.
* `DaqCheck` is the fault check and the comparison with the previous states in
  one step: a command between the two has the effect it would have had just
  before the check, or is seen by `DaqPrev`.
* Among the four reads of a report, the two targets are told apart
  (`comTarg`); the actual states only move in the thread that reports.
* A command holds its connection, so the destructor of the connection runs only
  when no command does; `ComServer::shutdown` closes it regardless.
* `Erase` and `Erased` are `eraseConnection`: the fault is set first, safe mode
  is entered later.
* A command of the event thread's queue is a step of that thread; a timeout
  may be found whenever it is idle.

`TURNING_ON` stands for RESET as well. Whether a subsystem finds a fault of its
own is a choice at each look, so what is shown does not depend on which faults
`FaultMgr` remembers.

### `ComServer`

The server with several connections, `ComServer`, `ComConnection` and what they
report to `Globals` and `FaultMgr`. `ControlSystem` has one connection at a time
and looks at what power does; here are several, and what counts is who holds
them. `refs[c]` are the shared pointers to a connection (accept handler, pending
read or write, command, broadcast, shutdown). Whoever drops the last one runs the
destructor, and with it `ComConnection::shutdown`: `CloseCount`, `CloseErase`,
`CloseFlag` and the act on it are steps of their own, since the map's lock is let
go of before the count is reported. A broadcast, by a command's thread or by an
event thread that reports a change (`Broadcasters`), alone holds `_mapMtx` over
several steps. `SetTcpIpConnected` is `Globals`' count with the change of the
Model's state that it causes.

A power command is two steps, as in `ControlSystem`: `LookUp` is
`Model::getCurrentState` under the Model's lock, which leaves the command in
`granted`; `Power` is what the state then does, whatever the Model's state is by
that time. `Power` asks `FaultMgr` and turns on in one step, because
`_checkForFaults` is called with the subsystem's `_powerStateMtx` held
(`PowerSubsystem.cpp:398-431`), and safe mode needs that lock to turn off.
`PowerNeedsClient` holds all the same, and why it does is not in one place: a
command holds its connection, so that the destructor, and with it the count that
takes the Model OFFLINE, waits for it. Two things do not wait for a command:
`ComServer::shutdown`, which is why the property ends there, and
`Model::systemShutdown`, which is `ControlMain`'s.

### `ControlMain`

The program's life on top of `ComServer`: `ControlMain::_cMain` from setup to the
joins, the thread that runs the server, `MotionEngine` with its event thread,
timeout thread and queue, the loop of `FpgaIo`, and the thread in which
`cmd_systemShutdown` calls `Model::systemShutdown`. The construction of the
singletons is one step. `fpga.port` is what was last written to the output port:
after `stopLoop` it stays. The event thread of `MotionEngine` broadcasts what a
check finds changed, besides the commands of the clients. `WelcomeFails` is the
write of the welcome message to a client that has gone: nothing catches what it
throws, and the program ends.

### `NetCommands`

Messages and their answers at both ends: `ComConnection` and `ComControl` read a
message, `NetCommandFactory::getCommandFor` makes a command of it or refuses it,
the acknowledgement is written, a detached thread runs it, and
`ComClient::cmdSendRecv` sorts what it receives by sequence number. A message is
a kind and a number. That the next message is read as soon as the acknowledgement
is written is `ResponseSent`. A client waits for the answers to whatever it sent
(`Sends`), also to what could not be read: the refusal of that has the number 0,
which is never the one it waits for.

### `FaultStatusBits` and `FaultMgr`

`FaultStatusBits` names every bit and builds every mask as the code does; two
assumptions, which TLC evaluates, say that faults, warnings and information
partition the bits, and that no bit belongs to two managers.
`FaultMgr` has the three `BasicFaultMgr`s as records of sets. A call that
concerns several of them goes through a list, `left`, in the code's order, one
lock per step. `UpdatedSummary` is `updateFaultStatus` with its 16-bit result,
and `CheckConnection`, `CheckFaults` are `checkForPowerSubsystemFaults` under
the subsystem's lock. The time stamps are left out.

### `ThreadPool`

`util/ThreadPool` with `EventThread`, `Command`, `CommandQueue` and
`EventThreadJoiner`. A thread that leaves the pool, from within its command or
made to by another thread, finishes the command, releases itself, is handed to
the joiner, and the pool is filled up again: `release` is cut where
`_poolMutex` is taken and let go. A thread that is handed to a joiner which has
ended stays in its queue (`toJoin`) and is not joined.

### `TelemetryItems` and `TelemetryCom`

`TelemetryItems` has the elements and sizes of every item, what is set by a
message of which only a part fits, and the comparison of two maps.
`TelemetryCom` is the server's thread, the two threads of each handler, the owner
that starts and destroys it, and the clients, on a table of file descriptors that
gives out the lowest free one, as the system does: `fds`. A descriptor is kept by
a handler after it was closed, which is why the table is part of the model. An
exception that no one catches, such as that of a server that cannot listen, makes
`alive` false. `shutdownCom` wakes the server's thread by a connection of its own;
when that cannot be made the owner is at `joinAlone`, and waits for the next client or
for an accept that fails. `StopEnds` is said of an owner that has made it.

### `PowerSubsystem_proofs`

Everything here holds for every `TelemMin > 1`, every delay and pulse, every
set of hardware conditions and both kinds of subsystem; the assumptions are
`KindAssumption` and `DelayAssumption`.

The inductive invariant `IInv` is `TypeOK`, `OutputsFollowTarget`,
`PhaseMatchesState` and `LatchedFaultHoldsOff` with two additions.
`CountsFromZero` says that the counter is below `TelemMin` while phase 1 waits
for it: without it, `TypeOK` is not inductive, because a reading could count
past the end of a phase that had already counted. `NeverTurningOff` is needed
because a subsystem found in TURNING_OFF would enter TURNING_ON with whatever
count was left. The proof has a lemma for each action; the steps that turn power
off share `TurnedOffKeepsIInv`, those that go on turning on share
`ProcessOnIInv`.

From it follow `TypeCorrect`, `OutputsAlwaysFollow`, `PhaseAlwaysMatches` and
`LatchedFaultsHold`. `TurnOnIsVerified` is the action property: `actual`
becomes ON in two places, and each has seen the outputs, the voltage and the
breakers on the same reading. `PromiseIsKept` is the refinement: a caller's
step and the fault check are `SetOn` or `SetOff`, a processed reading is
`FollowOn` or `FollowOff`, and the rest stutters.

### `FaultMgr_proofs`

For any set of threads and any faults, resets, enables and timeouts that
`MasksAssumption` and `ThreadsAssumption` allow; the runs use two threads and a
few bits.

`IInv` has a part about the managers and one about the calls. The first is the
type, `SystemCurrentIsSummary` and `SeenIsLatched`; each operator on a record has
a lemma (`WithMaskKeeps`, `UpdateKeeps`, `MergeKeeps`) that says what it
preserves. `SeenIsLatched` needs that every default fault stays enabled, which
is in the type. The second part is needed for `NoPowerWithoutConnection`, which is
not inductive: `CallsFit` says which managers a call has left,
`CheckHoldsLock` that the one call that checks holds the subsystem's lock, and
`LossIsAnswered` that, while there is power without a connection, or a check that
has not seen the loss, some thread is on its way to safe mode. Safe mode waits for
that lock, so it comes after the check. The proof has a lemma for each action
and part; `PersistenceLatches` and `OnlyResetsTakePowerFaults` are action
properties that follow from what an update does.

### `NetCommands_proofs`

For any connections, command threads, kinds of messages and numbers up to any
`MaxSeq`, from `SeqAssumption` alone. `RunsOnce` and `AnswersFit` are not inductive:
the first needs to know which numbers are still to be used, the second what an
answer on its way will be. `NumbersUsed` says that a number that was used, or is
that of a command about to act, is not above `prevSeqId`, that the latter was not
used yet, and that no two such commands share one. A message that is read is
refused or has a number above them all. `ClientsFit` says that a client that
waits has its acknowledgement (it is sent before the command's thread starts),
or none at all and no command with its number, as its message could not be
read, and that the command with its number is a refused one exactly if the
acknowledgement says so; `CommandsFit` that a refused command can only fail. That a
client uses a number again only when it was answered (`InFlight`) is what
keeps the answers of two commands apart. The steps of a command's thread but the
last are all `GoesOn`, about which the lemmas are stated once. From `IInv` follow
`TypeCorrect`, `CommandsRunOnce` and `AnswersAlwaysFit`.

### `ControlSystem_proofs`

For any number of command threads, whatever they command, with or without
failing health inputs and a shutdown; the assumptions are `OpsAssumption` and
`SwitchAssumption`. `IInv` adds three parts to the type. `CommFollowsLink` says that
the connection fault is set exactly while no connection is registered; it is why
no command can turn power on when the last one went. `OffSinceErased` is
`NoPowerWithoutClient` taken apart: MOTOR is off as soon as the link is gone, COMM
once the thread that enters safe mode has released `_mtx`.
`IdleKnowsLosses` is `LossIsReported` between the steps of a reading: a subsystem that is
not ON differs from what was last reported, and the one whose comparison is
past is ON until `_processDaq` has seen to it (`PassedIsOn`). Without the latter
the reading that finds the loss would overwrite the remembered state before it is
compared. `TargStep` and its like say once what any step does to the targets.

From it follow `TypeCorrect`, `NothingPoweredAlone` and `LossesAreReported`.
`OfflineIsKept` is an action property: every other way to change the state has a
guard that OFFLINE fails. `SubsystemsImplementPromise` is the refinement of two
copies of `PowerPromise`: every step of the whole system is, for each subsystem, a
step of its promise or a stutter.

### `ComServer_proofs`

For any finite set of connections (`ConnsAssumption`), with broadcasts and a
shutdown at any time. `IInv` has four parts, each resting on those before it.
`Lifetimes` is about holders and the map: what is dead is shut, what is shut is
closing, the map has nothing that was erased from it, the accept handler holds
the connection it works on, and only destructors shut connections while the
server runs. `CountIsActive` relates `count` to the connections that are active,
by cardinalities of sets that gain or lose one member. `Served` says that what a
connection does for its client, a command that has looked up the state among it,
begins once it is active and ends before it is not, as long as only destructors
shut it. `ModelInv` is that power needs a counted client: by `Served` whoever is
about to turn power on is one. That the Model is not OFFLINE while someone is
counted (`Online`) is kept apart from `IInv`, since it is not so once
`cmd_systemShutdown` goes there; `RunningInv` has both. From them follow
`TypeCorrect`, `NoDeadPointers`, `CountIsOfClients` and `PowerIsAClients`.

### `ControlMain_proofs`

It extends `ComServer_proofs`: what is proved of the connections is used for the
whole program, whose other threads change of it only the Model and the power. The
assumption on the bounds is `MainAssumption`. `MainIInv` adds to `IInv` the types of
main's own variables, that MotionEngine is started before the server is waited
for and joined before the server is (`StartedThenJoined`), that before there is a
server there is nothing to the connections (`QuietBefore`), that only the thread
of `cmd_systemShutdown` stops the server (`StoppedByCommand`), that this thread has
gone OFFLINE first, which only a client who is counted can leave again
(`OfflineFirst`), and that until then such a client keeps the Model from it
(`OnlineUntilShutdown`). The last three are about the end: every connection that is
not shut is in the map (`OpenIsRegistered`), `ComServer::shutdown` leaves none
open (`StopShuts`), and when the server has stopped nothing goes on with its
connections but what a broadcast destroys (`StoppedIsIdle`).

`MainJoinsThreads` follows, and `MainEndsOffline`: if the Model is not OFFLINE at
the end, `OfflineFirst` gives a connection that is counted, and the last three say
which it can be, namely one that was shut down before it began or one that a
broadcast's thread has yet to uncount. `ConnectionsInProgram` states for `MainSpec`
what is proved of the connections, with the power as far as it holds: with a
counted client while the server is not shut down, and with a Model that is
not OFFLINE until `cmd_systemShutdown` makes it that. Beyond is what
`shutdown_stays_off` refutes.

### `TelemetryCom_proofs`

For any finite set of connections and any items (`TelemetryAssumption`). It is
about the list of handlers, not about what is sent: `Shapes` types only what the
list needs, and the type of the rest stays with TLC. `SweepsWithin` and
`OwnerWithin` say that the sweep and the owner are at handlers there are;
`OverWhenDropped` that a handler in no list is over, `OverWhenPassed` the same of
those that the owner has passed. For the owner it is needed that the server
thread, which removes handlers, has ended first (`ServerEndsFirst`).
`HandlersJoined` follows.

### `ThreadPool_proofs`

For any finite set of threads, any commands, any of which leave the pool or are
made to, any sizes and number of calls of `resize`, with or without a shutdown
(`PoolAssumption`). Neither `FinishedOnce` nor `JoinedOnce` is inductive.

For the first, `CmdWhileRunning` says when a thread has a command, `OnePlace` that a
command is in the queue, with one thread or done with, and `FinishedWhenCalled`
that it was finished exactly if it is done with or its thread has the flag
`finishCalled`. That flag is cleared when the next command is taken, so the call of
`leavePool` from outside needs more: `SlowThread` says that the thread it stopped
takes no command any more, and still has the one that was meant or has finished
it. That the thread object exists (`Owned`) follows from the pointer's being
cleared by whoever uses it. For the second, `ReleasedOnce` follows a thread from
the pool to the joiner and says that it is in one place of the joiner's queue, and
that it does not come back into the pool.
From them follow `TypeCorrect`, `ToldOnce` and `HandedOverOnce`.

The proof first says what each step of a thread does to its record (the lemmas
`...Effect`) and what each kind of step leaves alone (`...Keeps`), and then has
one lemma for each part of the invariant. `SomeOfIs` is the fact about the model's
own operator: the `CHOOSE` in `_resize` has something to choose.

### What is model-checked only

Every invariant and action property of the runs that pass is stated by a theorem.
What is left is liveness under fairness, which is out of the prover's reach:
`OffCompletes`, `OnSettles`, `LowVoltageTrips`, `MotorFollowsComm`, `IdleIsLeft`,
`NewHealthFaultTurnsOff`, `EveryCommandAnswered`, `PoolSettles`, `QueuedRuns`, both
`ShutdownEnds`, `StopEnds` and `ClientsFollow`. What `FaultStatusBits` and
`TelemetryItems` compute is not proved.

## The runs

| Run | Checks | Bounds |
|---|---|---|
| `power_subsystem` | `TypeOK`, `OutputsFollowTarget`, `PhaseMatchesState`, `KeepsPromise`, `LatchedFaultHoldsOff`, `TurnOnVerified` | two readings in phase 1, delays of zero, age up to 1; ok, overload, interlock missing, not ready |
| `power_live` | `OffCompletes`, `OnSettles`, `LowVoltageTrips` | the same; ok, sag |
| `control_system` | `TypeOK`, `LossIsReported`, `NoPowerWithoutClient`, `OfflineLeftByClient`, `SubsystemsKeepPromise` | one command at a time, all four operations, a shutdown |
| `control_live` | `MotorFollowsComm`, `IdleIsLeft` | one command, turning MOTOR or COMM on |
| `control_new_health` | `NewHealthFaultTurnsOff` | one command, COMM on and off, MOTOR off, failing health inputs |
| `com_server` | `RegisteredExists`, `CountsLiveClients`, `PowerNeedsClient` | two connections at a time, a broadcast at a time, by a command or the event thread, a shutdown |
| `control_main` | `ThreadsJoined`, `EndsOffline`, `ShutdownEnds` | one connection at a time, one poll, one check waiting, broadcasts of commands and checks, one `cmd_systemShutdown` |
| `net_commands` | `RunsOnce`, `AnswersFit`, `EveryCommandAnswered` | two clients, two commands running, numbers up to 2; a power command, a switch of the source, an unknown and an unreadable one |
| `fault_mgr` | `TypeOK`, `SystemCurrentIsSummary`, `SeenIsLatched`, `NoPowerWithoutConnection`, `PersistentFaultLatches`, `PowerFaultsStay` | two threads; a fault in the lower 16 bits, one above them, a warning; one reset mask, one enable mask, one timeout |
| `thread_pool` | `FinishedOnce`, `JoinedOnce`, `PoolSettles`, `QueuedRuns`, `ShutdownEnds` | three threads, a pool of two made one, a limit of three, two commands, one of which leaves the pool by itself or is made to, a shutdown |
| `telemetry` | `DroppedWhenJoined`, `StopEnds`, `ClientsFollow` | two connections and descriptors, the two items of the elevation, one value, one client that sends one message, good or ill-typed; a listen, an accept or the wake-up connection may fail |
| `shutdown_stays_off` | `ShutdownStaysOff`, violated | as `control_main`, two polls |

Why these are enough. Two readings stand for the ten of phase 1. A phase is
entered, stayed in and left, and with delays of zero one tick is past all of
them, so each comparison of `age` with a delay comes out both ways; longer delays
are covered by the theorems, and so is every mixture of supply conditions, which
reach the subsystem as a class of voltage, a current or an input and do not
interact. In `ControlSystem` a command may be repeated for ever and overlaps the
readings, the timeouts, the closing connection and the shutdown; two commands at
a time without a shutdown, and two that turn power on with one, have been checked
outside the list of runs (change `Commands` in `MCControlSystem.cfg`; up to 9
million states). Two connections are as many as a count, a report and a broadcast
need to come out of order; each may be made again for ever. `control_main` has one:
the life of the program is multiplied by that of each connection, and main's
giving up after one look or several is the same to the others. With two, the first
10 million states have been searched outside the list of runs, without a violation
of its invariants or the inductive one, and the theorems have any number. Two clients with
two numbers have an older, an equal and a newer number. In `FaultMgr` the bits do
not interact, apart from their place in the lower 16 and their masks. In
`ThreadPool` each command is queued once, so that its end is seen;
`MaxResizes` bounds the calls of `resize`. The pool of the run shrinks while commands
are queued, before them or after, so that the end command competes with them
for the two threads; it grows only as a thread that leaves is replaced by
the third, and the limit of three threads never makes one wait. A pool of one that is made
two and then one again (1.7 million states) has been checked for the invariants
outside the list of runs. What happens at the limit is told below. `MaxChecks` bounds a queue that the
event thread empties, and beyond it a check is as good as one that is waiting.
In `TelemetryCom` each connection is made once (`Conns`), `Speakers` are the
clients that send and `MaxSaid` bounds what they send; more values or speakers
multiply states only.

Every module states the types of its variables. The type invariants of
`PowerSubsystem`, `ControlSystem` and `FaultMgr` are checked by their runs, as the
other invariants rest on them. Those and the ones of `NetCommands`, `ComServer`,
`ControlMain` and `ThreadPool` are proved; that of `TelemetryCom` holds on the
instance of its run and may be added to the `INVARIANTS` of the cfg. So may the
inductive invariants: with a `..._proofs` module in place of the module it is about,
TLC checks `IInv` on the instance of the same cfg.

Deadlock is checked in `power_subsystem` and `fault_mgr`, whose parts never stop.
Elsewhere a system that was shut down, or has no client, has nothing left to do.

### Fairness

In `PowerSubsystem`, the event thread and the simulator's loop are loops without
an exit while the program runs, and time passes (`WF` of `Daq`, `SimRun`,
`Tick`). A voltage on its way reaches the next class because
`calcVoltageCurrent` adds a rate each time (`WF` of `VoltageMoves`). `OnSettles` and
`LowVoltageTrips` are said of callers that stop asking for a turn-on
(`NoMoreTurnOns`): every `setPowerOn` restarts the sequence, also of a subsystem
that is ON.

In `ControlSystem`, each thread goes on: a lock is released, a command in
progress ends, a closing connection is erased, a shutdown runs to its end. The
event thread goes on while readings arrive; after `stopLoop` the timeouts
take their place, which is why `DaqTimeout` is fair only then. The strong
fairness of `VoltageGone` is what `OffCompletes` shows of a subsystem: one that
is processed again and again without being wanted is at some time found OFF.

In `ControlMain`, every thread of the program goes on, each with a fairness of its
own. A broadcast that has begun goes on too. Those that wait for `_mapMtx` (a
connection that is to be erased, the shutdown of the server, the event thread)
have strong fairness: broadcasts end again and again, and a mutex is not taken by
newcomers for ever, which Linux's do not promise but a scheduler provides.
`ShutdownEnds` has the one exception that the code has, a broadcast that waits for
itself. In `NetCommands`, writes complete and command threads run; that `TellAll` ends
assumes the same of broadcasts, and `EveryCommandAnswered` is said of commands that
can be read. In `ThreadPool`,
calls are few and each leads to finitely many steps, so it is enough that
something of the pool goes on. In `TelemetryCom`, each thread goes on while the
program is alive, and a client takes what it is sent, as the network's buffers
are finite.

Nothing is assumed of clients beyond that: that they connect, stay, leave or send
anything.

### What the violated run shows

`systemShutdown` makes the Model OFFLINE, turns everything off and sleeps for a
second; then it stops the loop of `FpgaIo`. A command of another thread has asked the
Model for its state before (`NetCommandDefs.cpp:104`), got STANDBY, and turns power
on in that second: the fault that would refuse it is that of a missing
connection, and there is one. `FpgaIo` writes the bits and then stops, and they stay
at the output port until something else clears it. The comment at
`state/Model.cpp:70-71` says that OFFLINE prevents this. A client that connects in
that second does the same in another way, for the server still accepts:
`Globals::setTcpIpConnected` takes the Model from OFFLINE to STANDBY again.

### Divergences without a run

The modules state these too. Each is what a comment says, or a reader would expect,
and is violated by what the code does; putting its name into the `INVARIANTS` or
`PROPERTIES` of the cfg of the run shows how (`ShutdownStaysOff` and `SummaryStays` are among the `PROPERTIES`).

| Definition | Run | What happens |
|---|---|---|
| `StuckRelayReported` | `power_live`, with `"welded"` in `Conditions` | `_processPowerOff` (`PowerSubsystem.cpp:756`) restarts the phase on every reading whose actual state is not OFF or TURNING_OFF, and nothing assigns TURNING_OFF: the relay fault cannot occur. |
| `FullPowerIsIdle` | `control_live` | The report reads the COMM target (`Model.cpp:126`), then a command turns COMM on, then MOTOR's target is read; `processDaq` remembers the new target as reported, and both subsystems reach ON in STANDBY. |
| `HealthFaultTurnsOff` | `control_new_health` | Safe mode is entered when a health fault appears (`FaultMgr.cpp:142`). The client may turn power on again, and nothing turns it off while the fault lasts. |
| `MotorOnNeedsComm` | `control_system` | COMM is turned off between the check of `powerMotor` (`PowerSystem.cpp:129`) and its act; a later reading corrects it. |
| `ControlSystem`'s `ShutdownStaysOff` | `control_system` | A command got the state before `systemShutdown` made it OFFLINE (`NetCommandDefs.cpp:104`), and turns power on afterwards. |
| `FaultMatchesConnections` | `com_server` | The counts of two connections reach `FaultMgr` in the other order (`ComServer.cpp:112`): it has the fault with a connection, or none without. |
| `BroadcastNeverWaitsForItself` | `com_server` | A broadcast holds the last pointer to a connection (`ComServer.cpp:208`), whose destructor locks `_mapMtx` again. From then on nobody gets it: no client is accepted or erased, and `ComServer::shutdown`, and with it the program, does not end. |
| `ClientsToldLast` | `net_commands`, with `"remote"` in `Kinds` | Two switches of the command source broadcast in the other order (`NetCommandDefs.cpp:69`). |
| `SummaryStays` | `fault_mgr` | `updateFaultStatus` returns 16 bits and the changed bits for the summary (`BasicFaultMgr.cpp:121-126`), so that latched faults leave the system's summary. |
| `AllJoined` | `thread_pool` | `ThreadPool.h:156-158` says that the shutdown waits for all threads. `release` erases a thread from the pool before it hands it over (`ThreadPool.cpp:174-176`), and `waitForResize` (`:236`) looks at the pool without its lock: the joiner is ended with the thread not yet in its queue, and `shutdownPool` returns with a thread that runs and is never joined. |
| `ShutdownLosesNothing` | `thread_pool` | End commands overtake nothing, but commands queued behind them are left (`ThreadPool.h:128-129`). |
| `UniqueConnection` | `telemetry` | A descriptor is closed twice and belongs to the next client in between (`TelemetryCom.cpp:188`, `225`, `266`); two handlers then write to one socket. A reader may then wait on a socket nobody shuts down (`Stranded`), and the destructor with it. |

More that the models show, without a definition of their own:

* A connection that `ComServer::shutdown` closes between its accept and
  `beginProtocol` (`ComConnection.cpp:91-98`, `353`) is counted afterwards and never
  uncounted, so that the Model may end in STANDBY. `EndsOffline` names it.
* `NetCommandFactory.cpp:97-98` says that a client should break the connection when it
  sees a bad sequence number. `ComClient::cmdRecvSeqId` (`ComClient.cpp:132-150`) does
  not look for one: it stores the message and reads on, for ever. In
  `NetCommands`, `EveryCommandAnswered` without `~client[c].garbled` is violated.
* In a pool of two whose limit is two, a command that is made to leave the pool just
  before it calls `leavePool` itself waits in `_waitIfAtMaxThreadPoolCount`, with its
  thread already at the joiner; the joiner waits for the thread, and the threads
  that would bring the count below the limit wait behind it. The command never
  completes, though `ThreadPool.h:128-129` says that it should. Only `resize` keeps
  the limit above the size (`ThreadPool.cpp:189-193`); `newThreadPool` takes the one
  it is given. `Size = 2` and `Max = 2` in `MCThreadPool.cfg` show it.

`state/StateMap.cpp:102-104` says that entering a safe state turns power
off, but STANDBY overrides `enterState` (`state/StandbyState.cpp:44`) and does not;
that is why `EntryTurnsOff` does not contain it.

## Not modelled

* The queue of readings between `FpgaIo` and the event thread: a step takes the
  latest reading.
* The cRIO interlock as an output: only tests call `writeCrioInterlockEnable`,
  so it is an input here that may be missing.
* Construction and destruction of the singletons; a second `cmd_systemShutdown`.
* The text of messages and logs, the reading of the configuration, `NamedValue`s,
  single bits and their names; the errors of `ComClient`'s socket.
* `FpgaIoOld`, `DaqInMock`, `FpgaBooleans`, `Ilc` and `vis`: nothing in the program
  uses them.

## Plan

1. `PowerPromise`, `PowerSubsystem` and the theorems about it. Done.
2. `StateMap` and `ControlSystem`, their runs. Done.
3. `ComServer`, several connections; `ControlMain`, the program's life. Done.
4. `FaultMgr` and the theorems about it. Done.
5. `NetCommands`, `ThreadPool`, `TelemetryCom`. Done.
6. `NetCommands_proofs`: `RunsOnce` and `AnswersFit` for any number of clients and
   numbers. Done.
7. `ComServer_proofs`: `RegisteredExists`, `CountsLiveClients` and
   `PowerNeedsClient` for any finite set of connections. Done.
8. `ControlSystem_proofs`: its type invariant, `NoPowerWithoutClient`,
   `LossIsReported`, `OfflineLeftByClient` and the refinement of `PowerPromise`.
   Done.
9. `ControlMain_proofs` and `TelemetryCom_proofs`: the end of the program and the
   handlers' ends. Done.
10. `ThreadPool_proofs`: `JoinedOnce` and `FinishedOnce`. Done.
11. Next: the type of all of `TelemetryCom`, and lemmas about what the masks of
    `FaultStatusBits` have in common.
