--------------------------- MODULE ControlServer ---------------------------
(***************************************************************************)
(* The TCP control plane of the server: Server::TcpControlServer with the  *)
(* SessionManager it shares and one ClientSession per accepted connection. *)
(*                                                                         *)
(* Threads: the main thread (Start, Stop), the accept thread, and one      *)
(* detached control worker per session.  Every step is one call that       *)
(* another thread can observe: a SessionManager critical section, one      *)
(* SendAll, one received message, one atomic.                              *)
(*                                                                         *)
(* A session and the one connection it serves for its whole life share a   *)
(* name, an element of Sessions: nextSessionId_ never hands out an id      *)
(* twice.  The finite set Sessions therefore bounds the connections of a   *)
(* behaviour, and MaxMessages the messages each client sends.              *)
(***************************************************************************)
EXTENDS ClientSession, FiniteSets, Sequences

CONSTANTS Sessions,      \* connections a behaviour may make, one session each
          NoSession,     \* no connection is being accepted
          Ports,         \* ports a client may announce, NoPort for a bad one
          Commands,      \* what a client may send once it announced its port
          MaxMessages,   \* bound on the messages one client sends
          Leavers,       \* connections whose client may close them
          OperatorStops  \* whether the operator may ask the server to stop

ASSUME SessionsAssumption == IsFiniteSet(Sessions) /\ NoSession \notin Sessions

ASSUME InputAssumption ==
  /\ Ports \subseteq Nat
  /\ MaxMessages \in Nat
  /\ Leavers \subseteq Sessions
  /\ OperatorStops \in BOOLEAN
  /\ \A m \in Commands :
       /\ m.type \in {"Play", "Pause", "Stop", "Reset", "SetRate", "Other"}
       /\ m.arg \in Nat

VARIABLES
  isRunning,                 \* isRunning_
  listener,                  \* listenerSocket_: "none", "open", "closed"
  mainPc,                    \* main thread
  stopping,                  \* sessions of Stop's snapshot not yet stopped
  acceptPc,                  \* accept thread
  accepted,                  \* the connection the accept thread holds
  sessions,                  \* SessionManager::sessions_
  activeControlWorkerCount,  \* activeControlWorkerCount_
  session,                   \* the ClientSession objects
  closed,                    \* those whose isControlConnectionClosed_ is set
  workerPc,                  \* control workers
  message,                   \* what a worker has received, not yet handled
  isUdpEndpointRegistered,   \* local variable of each worker
  snapshot,                  \* others in the worker's Spawn snapshot
  todo,                      \* recipients or subjects left in a worker's loop
  client,                    \* client side: "idle", "open", "closed"
  inbox,                     \* client to server, unread
  sentCount,                 \* messages the client has sent
  log                        \* server to client, everything ever written

mainVars   == <<isRunning, listener, mainPc, stopping>>
acceptVars == <<acceptPc, accepted>>
sessionVars == <<sessions, activeControlWorkerCount, session, closed>>
messageVars == <<message, isUdpEndpointRegistered, inbox>>
broadcastVars == <<snapshot, todo, log>>
clientVars == <<client, sentCount>>

vars == <<mainVars, acceptVars, sessionVars, workerPc, messageVars, broadcastVars, clientVars>>

-----------------------------------------------------------------------------
Message(type, arg) == [type |-> type, arg |-> arg]

RegisterUdpPort == { Message("RegisterUdpPort", p) : p \in Ports }

ClientMessages == RegisterUdpPort \union Commands

NoMessage == Message("None", 0)

EntitySpawn(s) == [type |-> "EntitySpawn", id |-> s]

EntityDespawn(s) == [type |-> "EntityDespawn", id |-> s]

ServerMessages == [type : {"EntitySpawn", "EntityDespawn"}, id : Sessions]

\* What SendAll writes to d's control socket can still arrive.
Reachable(d) == d \notin closed /\ client[d] = "open"

\* SendEntitySpawn and SendEntityDespawn: a failed SendAll is only printed.
Send(d, m) == log' = IF Reachable(d) THEN [log EXCEPT ![d] = Append(@, m)] ELSE log

\* Queued by the listener and not yet taken by AcceptWorker.
InBacklog(s) ==
  client[s] # "idle" /\ s # accepted /\ workerPc[s] = "none" /\ s \notin closed

Init ==
  /\ isRunning = FALSE
  /\ listener = "none"
  /\ mainPc = "start"
  /\ stopping = {}
  /\ acceptPc = "none"
  /\ accepted = NoSession
  /\ sessions = {}
  /\ activeControlWorkerCount = 0
  /\ session = [s \in Sessions |-> NewClientSession]
  /\ closed = {}
  /\ workerPc = [s \in Sessions |-> "none"]
  /\ message = [s \in Sessions |-> NoMessage]
  /\ isUdpEndpointRegistered = [s \in Sessions |-> FALSE]
  /\ inbox = [s \in Sessions |-> <<>>]
  /\ snapshot = [s \in Sessions |-> {}]
  /\ todo = [s \in Sessions |-> {}]
  /\ log = [s \in Sessions |-> <<>>]
  /\ client = [s \in Sessions |-> "idle"]
  /\ sentCount = [s \in Sessions |-> 0]

-----------------------------------------------------------------------------
(* Main thread: Start, then Stop.  What no step of a thread changes is said    *)
(* once, where the thread's steps are put together (Main, AcceptWorker, ...).  *)

MainStep(from, to) == mainPc = from /\ mainPc' = to

Start ==
  /\ MainStep("start", "running")
  /\ listener' = "open"
  /\ isRunning' = TRUE
  /\ acceptPc' = "loop"
  /\ UNCHANGED <<stopping, session, closed>>

\* isRunning_.exchange(false)
StopBegin ==
  /\ OperatorStops
  /\ MainStep("running", "closeListener")
  /\ isRunning' = FALSE
  /\ UNCHANGED <<listener, stopping, acceptPc, session, closed>>

\* Connections still in the listener's queue are reset with it.
CloseListener ==
  /\ MainStep("closeListener", "snapshot")
  /\ listener' = "closed"
  /\ closed' = closed \union {s \in Sessions : InBacklog(s)}
  /\ UNCHANGED <<isRunning, stopping, acceptPc, session>>

StopSnapshot ==
  /\ MainStep("snapshot", "stopSessions")
  /\ stopping' = sessions
  /\ UNCHANGED <<isRunning, listener, acceptPc, session, closed>>

StopOneSession(s) ==
  /\ MainStep("stopSessions", "stopSessions")
  /\ s \in stopping
  /\ stopping' = stopping \ {s}
  /\ session' = [session EXCEPT ![s] = StopSession(@)]
  /\ closed' = closed \union {s}
  /\ UNCHANGED <<isRunning, listener, acceptPc>>

StopSessionsDone ==
  /\ MainStep("stopSessions", "join")
  /\ stopping = {}
  /\ UNCHANGED <<isRunning, listener, stopping, acceptPc, session, closed>>

\* Mutant: Stop goes on to count workers while the accept thread runs.
JoinAcceptThread_NoJoin ==
  /\ MainStep("join", "waitWorkers")
  /\ UNCHANGED <<isRunning, listener, stopping, acceptPc, session, closed>>

JoinAcceptThread ==
  /\ MainStep("join", "waitWorkers")
  /\ acceptPc = "done"
  /\ UNCHANGED <<isRunning, listener, stopping, acceptPc, session, closed>>

WaitWorkers ==
  /\ MainStep("waitWorkers", "stopped")
  /\ activeControlWorkerCount = 0
  /\ UNCHANGED <<isRunning, listener, stopping, acceptPc, session, closed>>

Main ==
  /\ \/ Start \/ StopBegin \/ CloseListener \/ StopSnapshot
     \/ \E s \in Sessions : StopOneSession(s)
     \/ StopSessionsDone \/ JoinAcceptThread \/ WaitWorkers
  /\ UNCHANGED <<accepted, sessions, activeControlWorkerCount, workerPc, messageVars,
                 broadcastVars, clientVars>>

-----------------------------------------------------------------------------
(* Accept thread *)

AcceptStep(from, to) == acceptPc = from /\ acceptPc' = to

AcceptLoop ==
  /\ AcceptStep("loop", IF isRunning THEN "accept" ELSE "done")
  /\ UNCHANGED <<accepted, sessions, activeControlWorkerCount, closed, workerPc>>

Accept(s) ==
  /\ AcceptStep("accept", "check")
  /\ listener = "open"
  /\ InBacklog(s)
  /\ accepted' = s
  /\ UNCHANGED <<sessions, activeControlWorkerCount, closed, workerPc>>

\* The listener is closed, or a queued connection was aborted by its client.
AcceptFails ==
  /\ AcceptStep("accept", "loop")
  /\ \/ listener = "closed" /\ UNCHANGED closed
     \/ \E s \in Sessions :
          InBacklog(s) /\ client[s] = "closed" /\ closed' = closed \union {s}
  /\ UNCHANGED <<accepted, sessions, activeControlWorkerCount, workerPc>>

\* Mutant: the socket is moved away before the session is built from it.
AcceptCheck_UseAfterMove ==
  /\ AcceptStep("check", IF isRunning THEN "addSession" ELSE "done")
  /\ accepted' = NoSession
  /\ closed' = IF isRunning THEN closed ELSE closed \union {accepted}
  /\ UNCHANGED <<sessions, activeControlWorkerCount, workerPc>>

AcceptCheck ==
  /\ AcceptStep("check", IF isRunning THEN "addSession" ELSE "done")
  /\ accepted' = IF isRunning THEN accepted ELSE NoSession
  /\ closed' = IF isRunning THEN closed ELSE closed \union {accepted}
  /\ UNCHANGED <<sessions, activeControlWorkerCount, workerPc>>

AddSession ==
  /\ AcceptStep("addSession", "countWorker")
  /\ sessions' = sessions \union {accepted}
  /\ UNCHANGED <<accepted, activeControlWorkerCount, closed, workerPc>>

CountWorker ==
  /\ AcceptStep("countWorker", "startWorker")
  /\ activeControlWorkerCount' = activeControlWorkerCount + 1
  /\ UNCHANGED <<accepted, sessions, closed, workerPc>>

StartWorker ==
  /\ AcceptStep("startWorker", "loop")
  /\ workerPc' = [workerPc EXCEPT ![accepted] = "loop"]
  /\ accepted' = NoSession
  /\ UNCHANGED <<sessions, activeControlWorkerCount, closed>>

AcceptWorker ==
  /\ \/ AcceptLoop \/ AcceptFails \/ AcceptCheck
     \/ \E s \in Sessions : Accept(s)
     \/ AddSession \/ CountWorker \/ StartWorker
  /\ UNCHANGED <<mainVars, session, messageVars, broadcastVars, clientVars>>

-----------------------------------------------------------------------------
(* Control worker: the loop and ProcessOneMessage *)

WorkerStep(s, from, to) == workerPc[s] = from /\ workerPc' = [workerPc EXCEPT ![s] = to]

\* Where a worker goes when it leaves its loop.
Leave(s) == IF isUdpEndpointRegistered[s] THEN "despawnSnapshot" ELSE "removeSession"

\* Mutant: the loop condition forgets isRunning_.
WorkerLoop_NoCheck(s) ==
  /\ WorkerStep(s, "loop", "receive")
  /\ UNCHANGED <<sessionVars, messageVars, broadcastVars>>

WorkerLoop(s) ==
  /\ WorkerStep(s, "loop", IF isRunning THEN "receive" ELSE Leave(s))
  /\ UNCHANGED <<sessionVars, messageVars, broadcastVars>>

\* Mutant: closing the socket does not release a blocked receive.
ReceiveFails_ClientOnly(s) ==
  /\ WorkerStep(s, "receive", Leave(s))
  /\ client[s] = "closed"
  /\ UNCHANGED <<sessionVars, messageVars, broadcastVars>>

\* Mutant: a failed receive is taken for an empty message.
ReceiveFails_Retry(s) ==
  /\ WorkerStep(s, "receive", "loop")
  /\ s \in closed \/ client[s] = "closed"
  /\ UNCHANGED <<sessionVars, messageVars, broadcastVars>>

\* ReceiveAll returns false: closed on this side, or by the client.  What the
\* client had sent before it closed may be lost with the connection.
ReceiveFails(s) ==
  /\ WorkerStep(s, "receive", Leave(s))
  /\ s \in closed \/ client[s] = "closed"
  /\ UNCHANGED <<sessionVars, messageVars, broadcastVars>>

Receive(s) ==
  /\ WorkerStep(s, "receive", "process")
  /\ s \notin closed
  /\ inbox[s] # <<>>
  /\ message' = [message EXCEPT ![s] = Head(inbox[s])]
  /\ inbox' = [inbox EXCEPT ![s] = Tail(@)]
  /\ UNCHANGED <<sessionVars, isUdpEndpointRegistered, broadcastVars>>

\* RegisterUdpEndpoint refuses port 0 and the worker then serves an unregistered
\* session; otherwise the broadcast of the new session follows.
ProcessRegister(s) ==
  LET port == message[s].arg IN
  /\ message[s].type = "RegisterUdpPort"
  /\ WorkerStep(s, "process", IF port # NoPort THEN "spawnSnapshot" ELSE "loop")
  /\ isUdpEndpointRegistered' = [isUdpEndpointRegistered EXCEPT ![s] = port # NoPort]
  /\ session' = [session EXCEPT ![s] = IF port # NoPort THEN RegisterUdpEndpoint(@, port) ELSE @]
  /\ UNCHANGED <<sessions, activeControlWorkerCount, closed, message, inbox, broadcastVars>>

\* Every command of a session without an endpoint is dropped, unknown ones too.
ProcessIgnored(s) ==
  /\ WorkerStep(s, "process", "loop")
  /\ message[s].type # "RegisterUdpPort"
  /\ ~isUdpEndpointRegistered[s]
  /\ UNCHANGED <<sessionVars, messageVars, broadcastVars>>

Execute(cs, m) ==
  CASE m.type = "Play"    -> Play(cs)
    [] m.type = "Pause"   -> Pause(cs)
    [] m.type = "Stop"    -> Stop(cs)
    [] m.type = "Reset"   -> Reset(cs)
    [] m.type = "SetRate" -> SetRate(cs, m.arg)
    [] OTHER              -> cs

\* Mutant: commands of an unregistered session are executed.
ProcessCommand_Unregistered(s) ==
  /\ WorkerStep(s, "process", IF message[s].type = "Other" THEN Leave(s) ELSE "loop")
  /\ message[s].type # "RegisterUdpPort"
  /\ session' = [session EXCEPT ![s] = Execute(@, message[s])]
  /\ UNCHANGED <<sessions, activeControlWorkerCount, closed, messageVars, broadcastVars>>

\* An unknown type ends the loop of a registered session.
ProcessCommand(s) ==
  /\ WorkerStep(s, "process", IF message[s].type = "Other" THEN Leave(s) ELSE "loop")
  /\ message[s].type # "RegisterUdpPort"
  /\ isUdpEndpointRegistered[s]
  /\ session' = [session EXCEPT ![s] = Execute(@, message[s])]
  /\ UNCHANGED <<sessions, activeControlWorkerCount, closed, messageVars, broadcastVars>>

-----------------------------------------------------------------------------
(* BroadcastSpawnsForNewSession *)

\* Mutant: only sessions that have finished registering are in the snapshot.
SpawnSnapshot_OnlyServing(s) ==
  /\ WorkerStep(s, "spawnSnapshot", "spawnSelf")
  /\ snapshot' = [snapshot EXCEPT ![s] =
       {o \in sessions \ {s} : isUdpEndpointRegistered[o] /\ workerPc[o] = "receive"}]
  /\ UNCHANGED <<sessionVars, messageVars, todo, log>>

SpawnSnapshot(s) ==
  /\ WorkerStep(s, "spawnSnapshot", "spawnSelf")
  /\ snapshot' = [snapshot EXCEPT ![s] = sessions \ {s}]
  /\ UNCHANGED <<sessionVars, messageVars, todo, log>>

SpawnSelf(s) ==
  /\ WorkerStep(s, "spawnSelf", IF snapshot[s] = {} THEN "loop" ELSE "spawnOthers")
  /\ Send(s, EntitySpawn(s))
  /\ todo' = [todo EXCEPT ![s] = snapshot[s]]
  /\ UNCHANGED <<sessionVars, messageVars, snapshot>>

SpawnOther(s, o) ==
  /\ WorkerStep(s, "spawnOthers", IF todo[s] = {o} THEN "announce" ELSE "spawnOthers")
  /\ o \in todo[s]
  /\ Send(s, EntitySpawn(o))
  /\ todo' = [todo EXCEPT ![s] = IF @ = {o} THEN snapshot[s] ELSE @ \ {o}]
  /\ UNCHANGED <<sessionVars, messageVars, snapshot>>

Announce(s, o) ==
  /\ WorkerStep(s, "announce", IF todo[s] = {o} THEN "loop" ELSE "announce")
  /\ o \in todo[s]
  /\ Send(o, EntitySpawn(s))
  /\ todo' = [todo EXCEPT ![s] = @ \ {o}]
  /\ UNCHANGED <<sessionVars, messageVars, snapshot>>

-----------------------------------------------------------------------------
(* The end of ControlWorker: BroadcastEntityDespawn, RemoveSession *)

\* Mutant: a session that has not registered yet is not told.
DespawnSnapshot_OnlyRegistered(s) ==
  LET others == {o \in sessions \ {s} : isUdpEndpointRegistered[o]} IN
  /\ WorkerStep(s, "despawnSnapshot", IF others = {} THEN "removeSession" ELSE "despawn")
  /\ todo' = [todo EXCEPT ![s] = others]
  /\ UNCHANGED <<sessionVars, messageVars, snapshot, log>>

DespawnSnapshot(s) ==
  LET others == sessions \ {s} IN
  /\ WorkerStep(s, "despawnSnapshot", IF others = {} THEN "removeSession" ELSE "despawn")
  /\ todo' = [todo EXCEPT ![s] = others]
  /\ UNCHANGED <<sessionVars, messageVars, snapshot, log>>

Despawn(s, o) ==
  /\ WorkerStep(s, "despawn", IF todo[s] = {o} THEN "removeSession" ELSE "despawn")
  /\ o \in todo[s]
  /\ Send(o, EntityDespawn(s))
  /\ todo' = [todo EXCEPT ![s] = @ \ {o}]
  /\ UNCHANGED <<sessionVars, messageVars, snapshot>>

\* Mutant: the session stays in sessions_.
RemoveSession_NotErased(s) ==
  /\ WorkerStep(s, "removeSession", "stopSession")
  /\ UNCHANGED <<sessionVars, messageVars, broadcastVars>>

\* The erase under managerMutex_; the StopSession after it is a step of its own.
\* The session is always found: nobody else erases it (SessionsMatchWorkers).
RemoveSession(s) ==
  /\ WorkerStep(s, "removeSession", IF s \in sessions THEN "stopSession" ELSE "uncount")
  /\ sessions' = sessions \ {s}
  /\ UNCHANGED <<activeControlWorkerCount, session, closed, messageVars, broadcastVars>>

\* Mutant: StopSession returns early when the socket is already closed.
CloseSession_OnlyFirst(s) ==
  /\ WorkerStep(s, "stopSession", "uncount")
  /\ session' = [session EXCEPT ![s] = IF s \in closed THEN @ ELSE StopSession(@)]
  /\ closed' = closed \union {s}
  /\ UNCHANGED <<sessions, activeControlWorkerCount, messageVars, broadcastVars>>

CloseSession(s) ==
  /\ WorkerStep(s, "stopSession", "uncount")
  /\ session' = [session EXCEPT ![s] = StopSession(@)]
  /\ closed' = closed \union {s}
  /\ UNCHANGED <<sessions, activeControlWorkerCount, messageVars, broadcastVars>>

UncountWorker(s) ==
  /\ WorkerStep(s, "uncount", "done")
  /\ activeControlWorkerCount' = activeControlWorkerCount - 1
  /\ UNCHANGED <<sessions, session, closed, messageVars, broadcastVars>>

-----------------------------------------------------------------------------
ProcessOneMessage(s) ==
  \/ ReceiveFails(s) \/ Receive(s)
  \/ ProcessRegister(s) \/ ProcessIgnored(s) \/ ProcessCommand(s)

BroadcastSpawnsForNewSession(s) ==
  \/ SpawnSnapshot(s) \/ SpawnSelf(s)
  \/ \E o \in Sessions : SpawnOther(s, o) \/ Announce(s, o)

LeaveServer(s) ==
  \/ DespawnSnapshot(s)
  \/ \E o \in Sessions : Despawn(s, o)
  \/ RemoveSession(s) \/ CloseSession(s) \/ UncountWorker(s)

ControlWorker(s) ==
  /\ \/ WorkerLoop(s) \/ ProcessOneMessage(s)
     \/ BroadcastSpawnsForNewSession(s) \/ LeaveServer(s)
  /\ UNCHANGED <<mainVars, acceptVars, clientVars>>

-----------------------------------------------------------------------------
(* The other end of a connection: GameClient::ConnectLocked sends              *)
(* RegisterUdpPort first and once, commands follow, and the connection goes    *)
(* when the user disconnects or the client dies.                               *)

Connect(s) ==
  /\ listener = "open"
  /\ client[s] = "idle"
  /\ client' = [client EXCEPT ![s] = "open"]
  /\ UNCHANGED <<inbox, sentCount>>

ClientSends(s, m) ==
  /\ client[s] = "open"
  /\ s \notin closed
  /\ sentCount[s] < MaxMessages
  /\ m \in (IF sentCount[s] = 0 THEN RegisterUdpPort ELSE Commands)
  /\ inbox' = [inbox EXCEPT ![s] = Append(@, m)]
  /\ sentCount' = [sentCount EXCEPT ![s] = @ + 1]
  /\ UNCHANGED client

ClientCloses(s) ==
  /\ s \in Leavers
  /\ client[s] = "open"
  /\ client' = [client EXCEPT ![s] = "closed"]
  /\ UNCHANGED <<inbox, sentCount>>

Client(s) ==
  /\ \/ Connect(s) \/ ClientCloses(s)
     \/ \E m \in ClientMessages : ClientSends(s, m)
  /\ UNCHANGED <<mainVars, acceptVars, sessionVars, workerPc, message,
                 isUdpEndpointRegistered, broadcastVars>>

-----------------------------------------------------------------------------
Next ==
  \/ Main \/ AcceptWorker
  \/ \E s \in Sessions : ControlWorker(s) \/ Client(s)

Spec == Init /\ [][Next]_vars

\* A thread that can take a step takes one: the operating system schedules every
\* thread, and closing a socket releases the thread blocked on it.  When the
\* operator asks to stop, and what clients do, is left to them.
Fairness ==
  /\ WF_vars(Main /\ mainPc # "running")
  /\ WF_vars(AcceptWorker)
  /\ \A s \in Sessions : WF_vars(ControlWorker(s))

FairSpec == Spec /\ Fairness

-----------------------------------------------------------------------------
(* Properties *)

MainPcs == {"start", "running", "closeListener", "snapshot", "stopSessions", "join",
            "waitWorkers", "stopped"}

AcceptPcs == {"none", "loop", "accept", "check", "addSession", "countWorker",
              "startWorker", "done"}

\* The worker is inside BroadcastSpawnsForNewSession.
Spawning == {"spawnSnapshot", "spawnSelf", "spawnOthers", "announce"}

\* The worker is in its message loop.
Serving == {"loop", "receive", "process"}

\* The worker has left its loop and still counts.
Departing == {"despawnSnapshot", "despawn", "removeSession", "stopSession", "uncount"}

\* Every departure has been broadcast.
Departed == {"removeSession", "stopSession", "uncount", "done"}

WorkerPcs == {"none", "done"} \union Serving \union Spawning \union Departing

\* The threads' program counters, the sets and the session objects have their types.
TypeOK ==
  /\ isRunning \in BOOLEAN
  /\ listener \in {"none", "open", "closed"}
  /\ mainPc \in MainPcs
  /\ stopping \subseteq Sessions
  /\ acceptPc \in AcceptPcs
  /\ accepted \in Sessions \union {NoSession}
  /\ sessions \subseteq Sessions
  /\ activeControlWorkerCount \in Int
  /\ session \in [Sessions -> ClientSessionType]
  /\ closed \subseteq Sessions
  /\ workerPc \in [Sessions -> WorkerPcs]
  /\ message \in [Sessions -> ClientMessages \union {NoMessage}]
  /\ isUdpEndpointRegistered \in [Sessions -> BOOLEAN]
  /\ snapshot \in [Sessions -> SUBSET Sessions]
  /\ todo \in [Sessions -> SUBSET Sessions]
  /\ client \in [Sessions -> {"idle", "open", "closed"}]
  /\ inbox \in [Sessions -> Seq(ClientMessages)]
  /\ sentCount \in [Sessions -> Nat]
  /\ log \in [Sessions -> Seq(ServerMessages)]

\* m was written to d's control connection.
InLog(m, d) == \E i \in DOMAIN log[d] : log[d][i] = m

\* Stop returns only when nothing it waits for can still run: the accept thread has
\* ended, no control worker is alive, no session is left in the SessionManager and
\* every accepted socket is closed (TcpControlServer::Stop, its join and its wait
\* on activeControlWorkerCount_).
StopLeavesNothing ==
  mainPc = "stopped" =>
    /\ acceptPc = "done"
    /\ accepted = NoSession
    /\ sessions = {}
    /\ \A s \in Sessions : workerPc[s] \in {"none", "done"}
    /\ \A s \in Sessions : client[s] # "idle" => s \in closed

\* Once Stop has taken its snapshot, no worker sits in ReceiveAll on a socket that
\* Stop will not close: a worker that missed the new value of isRunning_ belongs to
\* a session that was added early enough to be in the snapshot.
StopUnblocksReceivers ==
  mainPc \in {"stopSessions", "join", "waitWorkers", "stopped"} =>
    \A s \in Sessions : workerPc[s] = "receive" => s \in closed \union stopping

\* Two sessions whose clients are still connected and whose workers have both
\* completed BroadcastSpawnsForNewSession have each been sent the Spawn of the
\* other, however the two broadcasts and the two AddSessions interleaved.
MutualVisibility ==
  \A a, b \in sessions :
    /\ a # b
    /\ isUdpEndpointRegistered[a] /\ workerPc[a] \in Serving
    /\ isUdpEndpointRegistered[b] /\ workerPc[b] \in Serving
    /\ Reachable(a) /\ Reachable(b)
    => InLog(EntitySpawn(a), b) /\ InLog(EntitySpawn(b), a)

\* A client that a departed session announced itself to, and whose own session is
\* still there, has been told that it went, registered itself or not.
DepartureTold ==
  \A a \in Sessions : \A b \in sessions :
    /\ workerPc[a] \in Departed
    /\ b \in snapshot[a]
    /\ Reachable(b)
    => InLog(EntityDespawn(a), b)

\* A session that Stop, a lost client or a command race stopped ends Stopped and
\* closed: no command handled after Main's StopSession outlives RemoveSession.
DepartedIsStopped ==
  \A s \in Sessions :
    workerPc[s] \in {"uncount", "done"} =>
      s \notin sessions /\ s \in closed /\ session[s].state = "Stopped"

\* A session leaves Stopped only after its endpoint is registered, so a command that
\* overtakes a failed registration can never start a stream to port 0.
PlayingHasEndpoint ==
  \A s \in Sessions : session[s].state # "Stopped" => HasUdpEndpoint(session[s])

\* A connection is served by one worker for as long as its session is registered:
\* sessions_ and the accept thread's and the workers' positions agree.
SessionsMatchWorkers ==
  \A s \in Sessions :
    s \in sessions <=>
      \/ s = accepted /\ acceptPc \in {"countWorker", "startWorker"}
      \/ workerPc[s] \notin {"none", "stopSession", "uncount", "done"}

\* How far a session has got, whichever thread has taken it there.
Stage(s) ==
  IF s \notin sessions
  THEN IF workerPc[s] = "stopSession" THEN "removed"
       ELSE IF workerPc[s] \in {"uncount", "done"} THEN "gone" ELSE "absent"
  ELSE IF workerPc[s] \in Departing THEN "leaving"
  ELSE IF ~isUdpEndpointRegistered[s] THEN "joined"
  ELSE IF workerPc[s] \in Spawning THEN "registered" ELSE "visible"

StageOf == [s \in Sessions |-> Stage(s)]

Phase ==
  IF mainPc = "start" THEN "off"
  ELSE IF mainPc = "running" THEN "up" ELSE IF mainPc = "stopped" THEN "stopped" ELSE "stopping"

Streaming == { s \in Sessions : session[s].state # "Stopped" }

Listening == { s \in Sessions : Reachable(s) }

\* Whose Spawn, and whose Despawn, was written to each client's connection.
Told == [d \in Sessions |-> { s \in Sessions : InLog(EntitySpawn(s), d) }]

ToldGone == [d \in Sessions |-> { s \in Sessions : InLog(EntityDespawn(s), d) }]

\* What the clients and the rest of the server may rely on (see Membership).
Registry == INSTANCE Membership
  WITH phase <- Phase, stage <- StageOf, streaming <- Streaming, listening <- Listening,
       audience <- snapshot, told <- Told, toldGone <- ToldGone

\* The accept thread, the workers and Stop, in every interleaving, keep to the stages of
\* a session: it streams only once it is visible, is visible only once everybody who is
\* visible knows it and is known to it, is removed only when those it announced itself
\* to know that it left, and never comes back.
KeepsMembership == Registry!Spec

\* Stop returns: no join and no wait in it is left waiting for ever.
StopTerminates == (mainPc = "closeListener") ~> (mainPc = "stopped")

\* A session whose client is gone leaves the server, and with the despawn broadcast
\* behind it, also while other sessions register, leave or are being stopped.
LostClientIsRemoved ==
  \A s \in Sessions :
    (client[s] = "closed" /\ s \in sessions) ~> (workerPc[s] = "done" /\ s \notin sessions)

\* Claim of BroadcastSpawnsForNewSession's comment: the first Spawn a client is sent
\* is its own, which is how EntityWorld::OnSpawn learns its EntityId.
FirstSpawnIsOwn ==
  \A s \in Sessions :
    \A i \in DOMAIN log[s] :
      log[s][i].type = "EntitySpawn" =>
        \/ log[s][i].id = s
        \/ \E j \in 1 .. i - 1 : log[s][j] = EntitySpawn(s)

=============================================================================
