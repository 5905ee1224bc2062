# NetworkControl: formal verification

TLA+ models of NetworkControl, a Windows server and clients for a shared
two-dimensional helicopter simulation, with the TLC configurations that check
them on small instances and TLAPS proofs for any number of connections, ids
and inputs. Every definition is written from the source (`PROJECT.json`, "map",
gives its lines); the documentation is used only as the source of claims.

## The system

Each client holds one TCP connection to the server (its *control channel*) and
one UDP port. Over TCP it registers the UDP port and sends commands; the server
sends it EntitySpawn and EntityDespawn. Over UDP the server streams batches of
EntityState at 30 or 60 Hz, and the client sends control inputs.

| Part | Keeps | Does | Runs in |
|---|---|---|---|
| `TcpControlServer` | listener, `isRunning_`, worker count | accept, commands, Spawn/Despawn broadcasts, Stop | accept thread, one detached worker per connection |
| `SessionManager` | map of sessions | add, remove, snapshot, lookup | all server threads, under a shared mutex |
| `ClientSession` | state, rate, endpoint, sequence id, entity, control input | the effect of a command; a physics step | all server threads; atomics and two mutexes |
| `UdpStreamingService`, `TimerCompensator` | tick count, next tick | physics and one packet per recipient per tick | streaming worker |
| `UdpControlInputReceiver` | socket | takes a control input to its session | receive worker |
| server `Main` | the parts | start, console, ordered shutdown | main thread |
| `GameClient` | connection state, sockets, receivers | Connect, Disconnect, commands, reconnect | user's thread, watchdog |
| `TcpMessageReceiver` | running and failed flags | Spawn and Despawn to `EntityWorld`; notices a loss | receive worker |
| `UdpReceiver` | `isActive_`, input ids | packets to `MetricsCollector` and `EntityWorld`; sends control inputs | receive worker |
| `EntityWorld` | known entities, own id | spawn, despawn, state | both receive workers, user |
| `MetricsCollector` | loss, order, timing, latency | per-packet statistics, snapshot | UDP receive worker, user |
| `Protocol`, `BinarySerializer` | nothing | wire format | callers |
| `Config` | nothing | ports and host from an ini file | main threads, at the start |
| `ManagedGameClient`, `MainViewModel`, console client | a polled copy of the state | the user's side | user's thread |

What is hard in it: threads are joined, detached and woken by closing the
sockets they block on; sessions are shared by three kinds of server thread, with
the state read in one critical section and used in another; broadcasts loop
over snapshots outside any lock; packets are lost, late, repeated and
reordered; the watchdog reconnects while the user connects and disconnects.
`PROJECT.json` lists the hazards at their lines, with the properties that cover
each.

What makes each part correct:

- control plane: registered sessions know of each other, departures are told,
  nothing survives Stop, Stop returns, a removed session is stopped for good;
- streaming: the sequence ids a client never sees are those of packets the
  network lost and of sends that failed, and no others; physics makes up for late
  ticks, a stopped entity stays put, a playing one is served;
- control inputs: the newest wins, and only its own client's drives an entity;
- known world: whoever is there is known and shown in the end, whoever left is
  forgotten, but for the cases that the protocol cannot exclude;
- wire format: what is read is what was written, and the two ends stay in step;
- client connection: a receiver reads only its own connection, a reconnect
  starts from an empty world and keeps it free of the old session until the next
  Play, Disconnect is final, losses are noticed, and reconnecting goes on;
- statistics: the reported loss, elapsed time and latency are what happened;
- end to end: what the interface shows, what the server's session does and what
  the client counts agree once nothing is on its way.

## Modules

| Module | Models | State and actions |
|---|---|---|
| `ClientSession` | `ClientSession` | a record and one operator per method; used by both server modules |
| `ControlServer` | `TcpControlServer`, `SessionManager`, shutdown | one program counter for main, the accept thread and each worker; an action per step that another thread can tell from the next |
| `Membership` | nothing: the abstract specification | what clients and the rest of the server may rely on of the control plane: the stages of a session, who may stream, who has been told of whom; no threads |
| `UdpStreaming` | `UdpStreamingService`, `TimerCompensator`, `UdpControlInputReceiver`, shutdown | the streaming worker's loops session by session, the receive loop, control workers that send commands |
| `GameClient` | `GameClient`'s connection, `TcpMessageReceiver`, start, stop and gate of `UdpReceiver`, and what of several sessions gets into `EntityWorld`: `Clear`, Spawns, Despawns and batches | program counters of the user's thread, the watchdog and the TCP receiver; `connectionMutex_`; Play, Pause and Stop as far as they move the gate `isActive_` |
| `ConnectionLifecycle` | nothing: the abstract specification | what a user of `GameClient` may rely on |
| `MetricsCollector` | `MetricsCollector` | each method is one step (it holds `mutex_`) |
| `StreamSync` | the buttons and `Poll` of `MainViewModel`, the command methods of `GameClient`, `isActive_` and the receive worker of `UdpReceiver`, with a session on the server for each connection | composes `MetricsCollector` and `ClientSession` (their actions are its actions') with a TCP and a UDP channel; program counters of the user's thread and the receive worker |
| `EntityWorld` | `EntityWorld` | a record and one operator per method, used by `SharedWorld` |
| `SharedWorld` | the batches of the streaming worker, the two receive workers and `EntityWorld` of one client, and the list of entities of `MainViewModel` | extends `ControlServer` by the client that reads one of its connections, the *viewer*: its actions are the server's, and each thread of the viewer's |
| `Wire` | `Protocol`, `BinarySerializer`, `ByteOrder`, and the frames that `ReceiveAll` takes from a control channel | bytes, no state: what is written for a message, what is read of bytes |
| `Config` | `Config`, and what `Client/Main` makes of its argument | no state: what a list of lines makes of the defaults |
| `MC...` | | constants for TLC |
| `ControlServerProofs`, `SharedWorldProofs`, `UdpStreamingProofs`, `GameClientProofs`, `StreamSyncProofs`, `MetricsCollectorProofs`, `WireProofs`, `ConfigProofs` | | theorems |

Operators named `X_Something`, with a comment "Mutant", are the definition `X`
with a plausible bug; nothing uses them. They are there to show that the
properties notice the bug.

Abstractions. An entity is one Boolean, whether it has left the origin, and one
small integer for throttle and yaw; so the properties tell a neutral input from
others and the clamp is kept. A connection has a name, its session the same
name, and it is never reused (the code numbers sessions by a counter that only
grows). TCP is a FIFO sequence for each connection and direction, lost as a
whole. UDP packets are a set of what was sent: any of them may be received next,
again, or never (in `StreamSync` at most once; what repeated packets do to the
statistics is checked and proved in `MetricsCollector`). In `SharedWorld` a
batch is the set of entities it names, and the streaming worker's tick is one
step: a packet may be late by any time, so taking the tick apart would only make
a packet that could be received later be received later still. In `Wire` a value
is the bytes that the little-endian host holds of it, which is how the code
treats floats and doubles too. In `Config` a text is a model value with the
integer that `stoi` would find in front of it. The clock of `UdpStreaming` is
the distance between now and the next tick in whole periods; 64-bit sequence ids
count modulo `SequenceModulus`, which also bounds TLC's state space.

## Runs

| Run | Instance | What it shows |
|---|---|---|
| Stop | 2 connections, one may leave, operator stops | Stop leaves nothing behind and returns, wherever the accept thread and the workers are; registered sessions see each other; a lost client is removed, and its departure told. More than two connections are left to the theorems, which have no bound |
| Commands | 2 connections, 2 messages each: a good or a bad port, Play, Stop or another command | a command racing with the session's end never revives it; `ControlServer` implements `Membership`. Two sessions are one to come and one to be told; two messages are a registration, or its refusal, and a command, and either alone. The two are symmetric |
| Reconnect | 3 connections of one client | Connect, Disconnect and watchdog keep threads, sockets, world and reported state consistent; the refinement of `ConnectionLifecycle`; liveness. Three connections are one to lose, one to reconnect, and one that the user makes while that goes on; they are made in the order of their names, which loses nothing, for any other order is a renaming. The user may Play, and batches of any session made so far may come |
| Metrics | ids 1 to 5, window 2, 4 packets, time 0 to 3 | loss, order, elapsed time and latency. Ids reach past twice the window, so ids expire, come late and expire again |
| Streaming | 1 session, all commands, one late tick, one failed send in a row, operator stops | the order of checks, sends and commands in the worker's loops, and liveness of the UDP plane. A worker takes its sessions one by one and writes to none but the one it is at, so the properties, each about one session, do not need a second |
| Inputs | 1 session and a foreign client, 2 inputs | the three threads that share a session |
| World | 2 connections, one the viewer's, one that comes, plays and goes; packets up to 64 bytes | whoever is there is known and shown in the end, also when no packet gets through; whoever left stays known for one of three reasons only. A batch of one entity (43 bytes) fits the buffer and one of two (67) does not, so both kinds of batch happen; more clients, and any size, are left to the theorems |
| Sync | 1 user, 2 connections, 3 buttons, 2 packets | shown state, session and statistics agree. Two connections are one to lose and one to compare with; three buttons set a state and a rate and change one of them again, before or after the loss; two packets are one counted and one late |
| FirstSpawnIsOwn, Ghost, Phantom, StragglerPacket | the smallest that shows it | what the documentation says and the code does not do (below) |

Deadlock is checked wherever there is always something left to do: in Metrics,
Reconnect, Phantom, Inputs, Sync and StragglerPacket. In the other runs it
is off, for a stopped server has nothing left to do, and clients send a bounded
number of messages.

Bounds are constants with names: `MaxMessages` (messages of one client),
`MaxInputs` (control inputs sent), `MaxLag` (periods a worker is late),
`MaxFailedSends` (sends to one session that fail in a row),
`MaxSequenceId`, `MaxReceived`, `MaxTime` (statistics), `MaxConnections`,
`MaxCommands`, `MaxPackets` (the user of `StreamSync`), `BufferSize` (the
viewer's receive buffer, 2048 bytes in the code), and the sets of
connections, which bound how many a behaviour can make.

Assumptions on the environment. `SendAll` blocks while the peer does not read, and
in the models it returns: a client that stops reading without closing its
connection could hold the worker that writes to it, and with it that worker's own
client. `LostClientIsRemoved` and the progress of broadcasts assume that no client
does so for ever; Stop does not depend on it, for it shuts the sockets down.
A client's first message is RegisterUdpPort, as `GameClient` sends it. The server
also accepts a command before it (`TcpControlServer.cpp:161`), but ignores it, as it
does after a registration whose port was refused; that case the models have.
`ClientSession::Play` and `Pause` read the state and write it in a second access,
and are one step here. A session's own worker carries out all its commands, so only
the `StopSession` of the server's Stop can fall between. After a Play the outcome is
that of a Play which came later, which the models have. After a Pause the state is
Paused instead of Stopped, and nothing is streamed in either, until the worker's
own end writes Stopped once more.

`StreamSync` makes one assumption on time: the watchdog waits `ReconnectInterval`
(2 s) before it reconnects, and the user's thread, which polls thirty times a
second, has polled in that time. A handler that takes longer than that (it may
block in `SendAll`) could miss a reconnect altogether; `ShownAgrees` is not
claimed for it.

## Fairness

Liveness properties are checked under the fairness of the specification's
`FairSpec`, and nothing else is assumed of the environment.

- Server: every thread that can take a step takes one in the end. Nothing says
  that a client sends, leaves or that the operator stops the server.
- Streaming: threads are scheduled, time passes, `ReceiveFrom` times out again
  and again (the socket has a receive timeout; an endless stream of inputs
  is not what the property is about), a begun command is finished.
- Client: threads are scheduled, calls on closed sockets return, a lost
  connection's buffered messages run out, and a thread that waits for
  `connectionMutex_`, which is free again and again because the watchdog sleeps
  between its turns, gets it in the end. `std::mutex` promises the last only in
  practice.
- World: the server's threads as above, TCP delivers what was written to a
  connection that stays open, and the timer of `Poll` ticks. That any datagram
  arrives is not assumed: `NewcomerIsShown` holds without one.

## Proofs

| Theorem | For every |
|---|---|
| `ControlServerProofs`: `TypeCorrect`, `StopIsComplete`, `NoReceiverLeftBlocked`, `RegistryIsExact`, `DepartureIsFinal`, `EndpointFirst`, `RegisteredSeeEachOther`, `DepartureIsTold`, `MembershipRefined`, `StopIsNeverBlocked`, `StopRunsDown`, `LostClientLeaves` | finite set of connections, set of ports and commands, number of messages |
| `SharedWorldProofs`: `ControlPlane`, `WorldInvariant`, `ViewerTypeCorrect`, `NewcomerComes`, `TheKnownStay`, `NobodyIsMissing`, `TheGoneAreForgotten` | the same, and size of the buffer |
| `UdpStreamingProofs`: `TypeCorrect`, `OwnControlDrives`, `SequenceRestarts`, `StoppedRests`, `KeepsUp`, `NoOtherGaps`, `EverybodysTurnComes`, `ShutdownGoesForwards` | set of sessions and foreign clients, lateness, number of inputs and of failed sends, modulus of the ids |
| `GameClientProofs`: `TypeCorrect`, `ReceiverBorrowsSafely`, `WorldIsFresh`, `OwnStopIsQuiet`, `WatchdogIsJoined`, `DisconnectIsThorough`, `ClientRefines`, `NoCircle`, `DisconnectGoesForwards`, `FailureIsMarked` | set of connections |
| `StreamSyncProofs`: `ShowsTheSession`, `StopStaysEmpty`, `NewStaysEmpty`, `CollectorIsUsedAsSpecified`, `CollectorPromisesHold`, `StreamTypeCorrect` | number of connections, buttons and packets, window |
| `MetricsCollectorProofs`: `CollectorTypeCorrect`, `ReportedLossIsExact`, `WindowBoundsMissing`, `ElapsedExcludesPauses`, `IntervalNeverUnderflows`, `LatencyIsBounded` | window, range of ids, order of arrival, clock |
| `WireProofs`: `ControlInputIsRead`, `BatchIsRead`, `CutBatchIsRefused`, `BufferHolds84`, `PatchIsAnotherBatch`, `RecipientsReadTheirOwn`, `FramesStayInStep` | message, number of entities, whatever follows in the stream |
| `ConfigProofs`: `LastLineDecides`, `ServerPortsAreValid`, `ClientStartsUsable` | file and argument |

They rest on the named assumptions of the modules (`SessionsAssumption`,
`InputAssumption`, `WindowAssumption`, `BoundsAssumption`, ...), which TLC
evaluates in the runs.

*ControlServer.* `ControlInv` is the inductive invariant of the control part:
types, where each thread stands, what `isRunning_`, the listener, the snapshot
of Stop and the registry are at each position. `CountInv` says that the worker
count is the number of workers started and not yet ended; Stop's wait on the
counter proves `StopLeavesNothing` only through it, and it needs the
cardinality of a set that one step changes by one member. The proof that Stop
misses nobody is that the accept thread adds no session to the registry after
it has seen `isRunning_` cleared, and that a worker that has not seen it
belongs to a session of the snapshot. `PresenceInv` is about broadcasts: what a
snapshot holds, what each worker has sent at its position, and that a log only
grows. `MutualVisibility` follows: of two sessions that have both completed
their broadcasts, one was added first and is in the other's snapshot, whose
broadcast tells both. `EndpointFirst`, that whatever streams has registered, is
proved of every command; no run checks it by itself, since `Membership` has it in
the guard of `Stream`.

*Membership.* A session's stage is where its worker stands, as far as others can
tell (`Stage`); who streams, whose Spawn and Despawn each client was sent, and
whose connection still carries what is written to it are read off the sessions
and the sockets. `MembershipRefined` maps every step of the server and of a
client to one step of `Membership` or to none. The work is in three of its
guards: that nothing streams before it is visible (`ControlInv`), that whoever
becomes visible is known to, and knows, everyone who is (`PresenceInv`; `Meet`
asks for it of the moment itself, where `MutualVisibility` speaks of any later
one), and that nobody is removed before those it announced itself to have been
told.

*SharedWorld.* The composition implements `ControlServer` (`ControlPlane`), so
`ControlInv`, `PresenceInv` and `MutualVisibility` hold of it as they stand.
`WorldInv` adds what the client made of its connection. `KnownInv`: whoever's
last message that was taken is a Spawn is known, and nobody else is but those
whom a batch names. `ServingInv` and `OwnSpawnInv`: only a session that leaves
has been despawned, and the viewer is told of itself; with `MutualVisibility`,
`NobodyMissing` follows. `GoneInv`: who leaves a viewer that has joined has yet
to take its snapshot, or has the viewer in its loop, or has written a Despawn to
the viewer with no Spawn of itself behind it. The last is where a catch-up could
break it, and it does for a viewer that was still joining, whence `leftEarly`
and `EarlyInv`: who is not in `leftEarly` left a viewer that had joined, and a
viewer that has joined never broadcasts a snapshot again, since a client
registers once.

*UdpStreaming.* `StreamingInv`: what the worker's loop owes a session at each
position (`PaceInv`), that the counter is the id last sent and one more for each
send that failed since (`PacketInv`), that after Stop's first write the worker takes
at most the id it was about to take (`RestartInv`), and that an entity Stop has
put back rests until an input comes (`RestInv`). `NoOtherGaps` is an action property
from the same invariant; as the ids count modulo `SequenceModulus`, it needs that
taking remainders early or late makes no difference (`NextModulo`), which is proved
from the definition of the quotient.

*GameClient.* `ClientInv`: which positions hold `connectionMutex_`, what the
holder has done so far, why the watchdog holds it, what the receiver, its
thread and the socket it borrows are to each other, and that the gate is open only
if it was opened since the UDP receiver was started (`GateInv`). `WorldIsFresh` is
about both channels: by TCP nothing of an earlier session comes through, as the
receiver reads only its own connection and the world is cleared after the one
before has been joined; by UDP nothing does as long as the gate is closed, which
starting the receiver sees to. `ClientRefines` maps every
step to a step of `ConnectionLifecycle` or to a stutter.

*StreamSync.* The difficulty is what is on its way. `Will` says what a queue of
commands will make of a session, so "once nothing is on its way they agree"
becomes an equality that every step keeps: what the interface believes equals
what the session will be. The rest says when the gate is closed and how many
packets were past it (`GateInv`). `CollectorIsUsedAsSpecified` is a refinement:
every step is one of `MetricsCollector` or leaves its variables alone, because
no packet carries the id 0 and no counter passes the packets streamed
(`PacketInv`). The theorems of `MetricsCollectorProofs` then hold of the whole
stream by an instance of that module (`CollectorPromisesHold`), its types among
them; a packet's Stops are those the user pressed (`StopsInv`), which completes
`TypeOK`.

*MetricsCollector.* `LossInv` splits the ids from the first to the highest into
those received, missing and given up; the set of those given up (`GivenUp`) is
not in the code, which only counts, and is needed because the counter alone does
not say which ids a late packet may belong to. `ReportedLossIsExact` is then a
sum of cardinalities of disjoint sets. The elapsed time and the latency need
only that a pause begins after the first packet and that the sum lies between
the products of the extremes.

*Wire* and *Config* have no state and no run: the theorems are about every
message, every stream and every file. `RecipientsReadTheirOwn` is about the one
buffer that the streaming worker serializes once and patches for each recipient;
`FramesStayInStep` about a control channel, whose frames carry no length: the
receiver knows it from the type alone, so both ends must agree on every size. A
payload is what `Payloads` says of its type. That a message is written whole,
though several workers write to one socket without a lock, is assumed.

*Progress.* A liveness property has two halves: that the steps which are left
lead to the goal, and that they are taken. The second is fairness, which is
beyond the prover; the first is safety, and is proved. Each proof has two parts.
One is that nobody waits for ever: a thread that is waited for has the guard of
a step, or waits itself for one that has, and not in a circle
(`StopIsNeverBlocked`, `LostClientLeaves`, `NoCircle`; guards are written out,
since ENABLED is beyond the prover too). The other is that every step goes
forwards: each thread has a course of finitely many positions, and within one
position a finite list of sessions, a step takes its thread further along the
course or shortens the list, and takes no other thread back.

- Stop (`StopRunsDown`): from `isRunning_` false on, the loop of a worker ends
  where it would begin again, so a worker that is not at its receive never comes
  back to it. `LoopInv` adds that a worker in a broadcast has somebody left to
  send to. Without the rank of the lists this fails: in a broadcast the position
  stays where it is.
- A lost client (`LostClientLeaves`): its worker either takes a message, of which
  no more come, or goes forwards towards its end.
- Disconnect (`NoCircle`, `DisconnectGoesForwards`): the user waits for the
  watchdog without the mutex, and the watchdog for the mutex; either waits for a
  receiver with its socket already closed. A call that finds the watchdog in a
  reconnect has to let it finish: connecting is further from the watchdog's end
  than sleeping is. `FailureIsMarked` is the half of reconnecting: nobody has to
  be told of a loss, because whoever looks next finds the mark.
- Streaming (`EverybodysTurnComes`): `Due` says that this iteration will come to a
  session with a packet. It is lost only by sending one, and whoever is not due,
  because its Play came into the middle of an iteration, is due at the next.
  `ShutdownGoesForwards` is the same for the threads that main joins. None of
  them waits for another; the streaming worker waits for time.
- A newcomer (`NewcomerComes`, `TheKnownStay`): the Spawn of whoever is there has
  been taken by the viewer or waits in its connection, with no Despawn, and
  whoever is known and shown stays so until it leaves. `NobodyMissing` is the case
  in which nothing is left to take.

Only model-checked: the liveness properties themselves, since the scheduler's
fairness is beyond the prover.

## Where the code and its description differ

Each is a run that TLC finds violated; `PROJECT.json` quotes the lines.

- *FirstSpawnIsOwn*: a session accepted but not registered is sent others'
  Spawns first, and its client takes another's entity for its own.
- *Ghost*: a batch of entity states that arrives behind a session's Despawn
  creates the entity again, and the interface shows it to the end of the
  connection. The server helps: it broadcasts the Despawn before it removes the
  session, and streams the entity until then. `GoneIsForgotten` says that there
  are two more ways, and no other: a Spawn from a newcomer's old snapshot that
  follows the Despawn, and a session that never registered, which a newcomer is
  told of but whose end nobody is.
- *Phantom*: a Connect while connected that fails leaves the state Connected
  with no connection, and the watchdog does not look at it.
- *StragglerPacket*: a packet for which the receive worker found `isActive_` set
  is counted after Stop has cleared the statistics, and becomes their first.
  `StoppedCountsAtMostOne` says that it is one packet at most.

One difference has no run of its own:

- `README.md:191` of the sources says that `Clear` and `Reset` at every connection
  keep all traces of the earlier session out of the new one. They do so until the
  user's next Play. The new connection binds the same UDP port and a batch names no
  session, so once Play has opened the gate a late batch of the old stream puts its
  entities back into `EntityWorld`, whose `OnState` creates those it does not know,
  and is counted by `MetricsCollector`. `WorldIsThisSessions` says what does hold, and
  why: without its disjunct `wasActive`, the gate having been opened on this
  connection, TLC finds it violated. `NewConnectionCountsNothing` is about the time
  before Play for the same reason; what comes after may be an old packet.

Behaviours that no document speaks of, and that the models have:

- `SendTo` may fail, and the streaming worker only reports it: the id is used up, so
  the client counts a packet as lost that the network never had, and the server's
  own count of packets sent (`GetSentPacketCount`) includes it. `GapsAreFailedSends`
  says that there are no other gaps. In `SharedWorld` and `StreamSync` a failed send is
  a packet that never arrives.
- Reset while Playing has no defence against stragglers: one of the old
  numbering may become the base of the new statistics.
- `expectedDataRate_` outlives a reconnect while the new session starts at
  30 Hz, so until the user sets the rate again delays are judged by the old one;
  `ShownAgrees` leaves out just that.
- A control input that is on its way when Stop is carried out is taken by the
  stopped session and drives it at the next Play; `StoppedStaysAtOrigin` leaves
  out just that. The interface's own Stop sends two such inputs after it (the
  throttle goes to zero, then the yaw), of which the first still has the old
  yaw.
- A batch of more than 84 entities does not fit the client's buffer, and from
  then on no state arrives at all (`BufferHolds84`); who is there stays known
  through TCP alone (`NobodyMissing`).
- A later line of an ini file that is no port takes an earlier good one with it
  (`LastLineDecides`).

## Not modelled

Latency beyond the least, the greatest and the sum, and the sums of receive
intervals; positions and physics beyond "leaves the origin"; the views and the
sliders of the interface, which keep their places through a reconnect; the
managed wrapper's conversions; the console client's command loop, which sends
one command at a time from one thread and remembers the last throttle and yaw;
the wrap of the 32-bit input id, which takes 2^32 inputs; failures of Start.
Sockets have no module: what their calls do is in the actions of those that
call them, and a `SendAll` is one step. `HighResolutionTimer` is two calls of
the operating system.

In `SharedWorld` the viewer's connection stays open: losing one is `GameClient`'s
subject, and so is what a new one starts with (`WorldIsThisSessions`).
A command of the viewer and the gate it opens or closes are one step there;
`StreamSync` takes them apart. The third reason of `GoneIsForgotten` is as broad as
"a batch with it was ever sent to the viewer", for any datagram may be late by any
time; the property excludes every entity that stays without one, and a viewer whose
packets are all lost or too large. In `GameClient` a batch may come of any session
this client has had: which of them streamed is left open, so the model has more
behaviours than the code.

## Plan

All parts that keep state or decide something are modelled, all safety
properties of the runs are proved, and so are the refinements and what the
liveness properties need besides fairness. What is left:

1. `SendAll` of several workers on one socket, as steps of parts of messages, if
   the code gets a lock that makes a claim of it.
2. The sliders: which input is in force on the server after Stop, Play and a
   reconnect, beside what they show.
3. One abstract stream of a session that both `UdpStreaming` and the server side
   of `StreamSync` implement.
