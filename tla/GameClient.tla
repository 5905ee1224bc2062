----------------------------- MODULE GameClient -----------------------------
(***************************************************************************)
(* The connection of one Client::GameClient: Connect, Disconnect, the      *)
(* watchdog that reconnects, and the TcpMessageReceiver and UdpReceiver    *)
(* they start and stop; and Play, Pause and Stop as far as they open and   *)
(* close the gate through which state batches reach EntityWorld.           *)
(*                                                                         *)
(* Threads: the user's (one, as in both clients), the watchdog, and the    *)
(* workers of the two receivers.  A step is what another thread can tell   *)
(* from the next: a lock, a join, an atomic, a socket call.  Every         *)
(* connection the socket ever makes has a name in Connections, which       *)
(* bounds them; an entity is named by the connection whose server session  *)
(* it belongs to.                                                          *)
(***************************************************************************)
EXTENDS Naturals

CONSTANTS Connections, NoConnection

ASSUME ConnectionsAssumption == NoConnection \notin Connections

VARIABLES
  connectionState,         \* connectionState_
  connectionMutex,         \* owner of connectionMutex_, or "none"
  isWatchdogRunning,       \* isWatchdogRunning_
  retryDue,                \* nextRetryTime has passed
  pc,                      \* of the user's thread and of the watchdog
  call,                    \* the user's last call
  isConnectedShown,        \* IsConnected of the user interface, a polled copy
  tcpSocket,               \* what tcpSocket_ is connected to
  udpReceiverRunning,      \* udpReceiver_ is bound and its worker runs
  isActive,                \* its isActive_: the gate for state batches
  tcpMessageReceiver,      \* the connection tcpMessageReceiver_ was made for
  isRunning,               \* its isRunning_
  hasFailedUnexpectedly,   \* its hasFailedUnexpectedly_
  receiverPc,              \* its worker
  entities, myEntityId,    \* entityWorld_
  \* The world outside, and history for the properties.
  used,                    \* connections made so far
  broken,                  \* those the other end closed, or whose stream is garbled
  latest,                  \* the last that ConnectLocked set up
  wasActive                \* the gate has been opened since udpReceiver_ was started

mutexVars    == <<connectionState, connectionMutex, retryDue>>
userVars     == <<call, isConnectedShown>>
receiverVars == <<tcpMessageReceiver, isRunning, hasFailedUnexpectedly, receiverPc>>
worldVars    == <<entities, myEntityId>>
outsideVars  == <<used, broken>>
gateVars     == <<isActive, wasActive>>

vars == <<mutexVars, isWatchdogRunning, pc, userVars, tcpSocket, udpReceiverRunning,
          receiverVars, worldVars, outsideVars, latest, gateVars>>

Init ==
  /\ connectionState = "Disconnected" /\ connectionMutex = "none"
  /\ isWatchdogRunning = FALSE /\ retryDue = TRUE
  /\ pc = [user |-> "idle", watchdog |-> "none"]
  /\ call = "none" /\ isConnectedShown = FALSE
  /\ tcpSocket = NoConnection /\ udpReceiverRunning = FALSE
  /\ tcpMessageReceiver = NoConnection /\ isRunning = FALSE
  /\ hasFailedUnexpectedly = FALSE /\ receiverPc = "none"
  /\ entities = {} /\ myEntityId = NoConnection
  /\ used = {} /\ broken = {} /\ latest = NoConnection
  /\ isActive = FALSE /\ wasActive = FALSE

-----------------------------------------------------------------------------
(* The user's thread *)

Step(t, from, to) == pc[t] = from /\ pc' = [pc EXCEPT ![t] = to]

Unlock(t, from, to) == Step(t, from, to) /\ connectionMutex' = "none"

\* The user interface's timer reads GetConnectionState.
Poll ==
  /\ pc["user"] = "idle"
  /\ isConnectedShown' = (connectionState = "Connected")
  /\ UNCHANGED <<mutexVars, isWatchdogRunning, pc, call>>

\* Connect is offered as long as the interface does not show a connection.
CallConnect ==
  /\ ~isConnectedShown
  /\ Step("user", "idle", "lock")
  /\ call' = "connect"
  /\ UNCHANGED <<mutexVars, isWatchdogRunning, isConnectedShown>>

CallDisconnect ==
  /\ Step("user", "idle", "joinWatchdog")
  /\ call' = "disconnect"
  /\ isWatchdogRunning' = FALSE
  /\ UNCHANGED <<mutexVars, isConnectedShown>>

\* Mutant: Disconnect stops the watchdog and does not wait for it.
JoinWatchdog_NoJoin ==
  /\ Step("user", "joinWatchdog", "lock")
  /\ UNCHANGED <<mutexVars, isWatchdogRunning, userVars>>

JoinWatchdog ==
  /\ pc["user"] = "joinWatchdog"
  /\ pc["watchdog"] \in {"none", "done"}
  /\ pc' = [pc EXCEPT !["user"] = "lock", !["watchdog"] = "none"]
  /\ UNCHANGED <<mutexVars, isWatchdogRunning, userVars>>

UserLock ==
  /\ connectionMutex = "none"
  /\ Step("user", "lock",
          IF call = "connect" /\ connectionState = "Disconnected" THEN "startUdp" ELSE "teardown")
  /\ connectionMutex' = "user"
  /\ UNCHANGED <<connectionState, retryDue, isWatchdogRunning, userVars>>

\* isWatchdogRunning_.exchange(true): a new thread if there was none.
StartWatchdog ==
  /\ pc["user"] = "startWatchdog"
  /\ pc' = [pc EXCEPT !["user"] = "idle",
                      !["watchdog"] = IF isWatchdogRunning THEN @ ELSE "check"]
  /\ isWatchdogRunning' = TRUE
  /\ retryDue' = (retryDue \/ ~isWatchdogRunning)
  /\ connectionMutex' = "none"
  /\ UNCHANGED <<connectionState, userVars>>

\* Play takes no lock.  IsConnected was true when it looked; a reconnect may have come since,
\* before the message is sent or before the gate is opened.
SendPlay ==
  /\ connectionState # "Disconnected" /\ tcpSocket # NoConnection
  /\ Step("user", "idle", "onPlay")
  /\ UNCHANGED gateVars

OnPlay ==
  /\ Step("user", "onPlay", "idle")
  /\ isActive' = TRUE /\ wasActive' = TRUE

\* Pause or Stop closes the gate.  A gate that a reconnect came before is closed already.
CloseGate ==
  /\ pc["user"] = "idle" /\ connectionState = "Connected"
  /\ isActive' = FALSE
  /\ UNCHANGED <<pc, wasActive>>

User ==
  /\ \/ /\ Poll \/ CallConnect \/ CallDisconnect \/ JoinWatchdog \/ UserLock \/ StartWatchdog
        /\ UNCHANGED gateVars
     \/ /\ SendPlay \/ OnPlay \/ CloseGate
        /\ UNCHANGED <<mutexVars, isWatchdogRunning, userVars>>
  /\ UNCHANGED <<tcpSocket, udpReceiverRunning, receiverVars, worldVars, outsideVars, latest>>

-----------------------------------------------------------------------------
(* WatchdogWorker *)

\* Mutant: the watchdog loops only while there is a connection to watch.
WatchdogCheck_WhileConnected ==
  /\ Step("watchdog", "check",
          IF isWatchdogRunning /\ connectionState = "Connected" THEN "sleep" ELSE "done")
  /\ UNCHANGED mutexVars

WatchdogCheck ==
  /\ Step("watchdog", "check", IF isWatchdogRunning THEN "sleep" ELSE "done")
  /\ UNCHANGED mutexVars

WatchdogWakes ==
  /\ Step("watchdog", "sleep", IF isWatchdogRunning THEN "lock" ELSE "done")
  /\ UNCHANGED mutexVars

LostConnection ==
  /\ connectionState = "Connected"
  /\ tcpMessageReceiver # NoConnection
  /\ hasFailedUnexpectedly

WatchdogLock ==
  /\ connectionMutex = "none"
  /\ \/ /\ LostConnection
        /\ Step("watchdog", "lock", "teardown")
        /\ connectionMutex' = "watchdog"
     \/ /\ connectionState = "Reconnecting" /\ retryDue
        /\ Step("watchdog", "lock", "startUdp")
        /\ connectionMutex' = "watchdog"
     \/ /\ ~LostConnection /\ ~(connectionState = "Reconnecting" /\ retryDue)
        /\ Unlock("watchdog", "lock", "check")
  /\ UNCHANGED <<connectionState, retryDue>>

\* Steady clock: ReconnectInterval is over.
RetryTimePasses ==
  /\ ~retryDue
  /\ retryDue' = TRUE
  /\ UNCHANGED <<connectionState, connectionMutex, pc>>

Watchdog ==
  /\ WatchdogCheck \/ WatchdogWakes \/ WatchdogLock
  /\ UNCHANGED <<isWatchdogRunning, userVars, tcpSocket, udpReceiverRunning, receiverVars,
                 worldVars, outsideVars, latest, gateVars>>

-----------------------------------------------------------------------------
(* TeardownConnectionLocked, by the thread t that holds connectionMutex_ *)

StopReceiver(t) ==
  /\ Step(t, "teardown", IF tcpMessageReceiver = NoConnection THEN "stopUdp" ELSE "close")
  /\ isRunning' = FALSE
  /\ UNCHANGED <<mutexVars, tcpSocket, udpReceiverRunning, tcpMessageReceiver,
                 hasFailedUnexpectedly, receiverPc>>

\* Mutant: the worker is joined while the socket it reads is open.
CloseSocket_Late(t) ==
  /\ Step(t, "close", "join")
  /\ UNCHANGED <<mutexVars, tcpSocket, udpReceiverRunning, receiverVars>>

CloseSocket(t) ==
  /\ Step(t, "close", "join")
  /\ tcpSocket' = NoConnection
  /\ UNCHANGED <<mutexVars, udpReceiverRunning, receiverVars>>

\* Mutant: the receiver goes without its thread.
JoinReceiver_NoJoin(t) ==
  /\ Step(t, "join", "stopUdp")
  /\ tcpMessageReceiver' = NoConnection
  /\ hasFailedUnexpectedly' = FALSE
  /\ UNCHANGED <<mutexVars, tcpSocket, udpReceiverRunning, isRunning, receiverPc>>

JoinReceiver(t) ==
  /\ Step(t, "join", "stopUdp")
  /\ receiverPc = "done"
  /\ receiverPc' = "none"
  /\ tcpMessageReceiver' = NoConnection
  /\ hasFailedUnexpectedly' = FALSE
  /\ UNCHANGED <<mutexVars, tcpSocket, udpReceiverRunning, isRunning>>

\* What the caller does when TeardownConnectionLocked has returned.
AfterTeardown(t) ==
  \/ /\ t = "user" /\ call = "connect"
     /\ Step(t, "stopUdp", "startUdp")
     /\ UNCHANGED mutexVars
  \/ /\ t = "user" /\ call = "disconnect"
     /\ Unlock(t, "stopUdp", "idle")
     /\ connectionState' = "Disconnected"
     /\ UNCHANGED retryDue
  \/ /\ t = "watchdog"
     /\ Unlock(t, "stopUdp", "check")
     /\ connectionState' = "Reconnecting"
     /\ retryDue' = FALSE

\* Mutant: the socket is taken to be closed already.
StopUdp_KeepsSocket(t) ==
  /\ AfterTeardown(t)
  /\ udpReceiverRunning' = FALSE
  /\ UNCHANGED <<tcpSocket, receiverVars>>

StopUdp(t) ==
  /\ AfterTeardown(t)
  /\ udpReceiverRunning' = FALSE
  /\ tcpSocket' = NoConnection
  /\ UNCHANGED receiverVars

Teardown(t) ==
  /\ StopReceiver(t) \/ CloseSocket(t) \/ JoinReceiver(t) \/ StopUdp(t)
  /\ UNCHANGED <<isWatchdogRunning, userVars, worldVars, outsideVars, latest, gateVars>>

-----------------------------------------------------------------------------
(* ConnectLocked, by the thread t that holds connectionMutex_ *)

\* Mutant: a Connect that fails is left to the watchdog.
ConnectFails_Reconnects(t, from) ==
  /\ Unlock(t, from, IF t = "user" THEN "idle" ELSE "check")
  /\ retryDue' = IF t = "user" THEN retryDue ELSE FALSE
  /\ connectionState' = "Reconnecting"

\* It returns false: Connect gives up, the watchdog tries again later.
ConnectFails(t, from) ==
  /\ Unlock(t, from, IF t = "user" THEN "idle" ELSE "check")
  /\ retryDue' = IF t = "user" THEN retryDue ELSE FALSE
  /\ UNCHANGED connectionState

\* udpReceiver_.Start stops the receiver first and closes the gate; its port may be taken.
StartUdp(t) ==
  /\ \/ Step(t, "startUdp", "connectTcp") /\ udpReceiverRunning' = TRUE /\ UNCHANGED mutexVars
     \/ ConnectFails(t, "startUdp") /\ udpReceiverRunning' = FALSE
  /\ isActive' = FALSE /\ wasActive' = FALSE
  /\ UNCHANGED <<tcpSocket, receiverVars, worldVars, used, latest>>

\* One name is as good as another.
NewConnection == CHOOSE c \in Connections : c \notin used

\* A bad address leaves the socket as it was; Create closes it.
ConnectTcp(t) ==
  /\ \/ /\ used # Connections
        /\ Step(t, "connectTcp", "register")
        /\ tcpSocket' = NewConnection
        /\ used' = used \union {NewConnection}
        /\ UNCHANGED mutexVars
     \/ /\ ConnectFails(t, "connectTcp")
        /\ tcpSocket' \in {tcpSocket, NoConnection}
        /\ UNCHANGED used
  /\ UNCHANGED <<udpReceiverRunning, receiverVars, worldVars, latest>>

\* SendRegisterUdpPort: a send on a lost connection may still succeed.
Register(t) ==
  /\ \/ Step(t, "register", "startReceiver") /\ UNCHANGED mutexVars
     \/ tcpSocket \in broken /\ ConnectFails(t, "register")
  /\ UNCHANGED <<tcpSocket, udpReceiverRunning, receiverVars, worldVars, used, latest>>

\* Mutant: a reconnect starts from the world of the connection before.
StartReceiver_KeepsWorld(t) ==
  /\ Step(t, "startReceiver", "connected")
  /\ tcpMessageReceiver' = tcpSocket /\ latest' = tcpSocket
  /\ isRunning' = TRUE /\ hasFailedUnexpectedly' = FALSE /\ receiverPc' = "loop"
  /\ UNCHANGED <<mutexVars, tcpSocket, udpReceiverRunning, worldVars, used>>

StartReceiver(t) ==
  /\ Step(t, "startReceiver", "connected")
  /\ entities' = {} /\ myEntityId' = NoConnection
  /\ tcpMessageReceiver' = tcpSocket /\ latest' = tcpSocket
  /\ isRunning' = TRUE /\ hasFailedUnexpectedly' = FALSE /\ receiverPc' = "loop"
  /\ UNCHANGED <<mutexVars, tcpSocket, udpReceiverRunning, used>>

ReportConnected(t) ==
  /\ \/ t = "user" /\ Step(t, "connected", "startWatchdog") /\ UNCHANGED connectionMutex
     \/ t = "watchdog" /\ Unlock(t, "connected", "check")
  /\ connectionState' = "Connected"
  /\ UNCHANGED <<retryDue, tcpSocket, udpReceiverRunning, receiverVars, worldVars, used, latest>>

ConnectLocked(t) ==
  /\ \/ StartUdp(t)
     \/ /\ ConnectTcp(t) \/ Register(t) \/ StartReceiver(t) \/ ReportConnected(t)
        /\ UNCHANGED gateVars
  /\ UNCHANGED <<isWatchdogRunning, userVars, broken>>

-----------------------------------------------------------------------------
(* TcpMessageReceiver::ReceiveWorker *)

ReceiverStep(from, to) == receiverPc = from /\ receiverPc' = to

ReceiverLoop ==
  /\ ReceiverStep("loop", IF isRunning THEN "receive" ELSE "done")
  /\ UNCHANGED <<hasFailedUnexpectedly, worldVars>>

\* Mutant: a message is taken from a closed socket.
ReceiveSpawn_Closed ==
  /\ ReceiverStep("receive", "loop")
  /\ entities' = entities \union {tcpSocket}
  /\ myEntityId' = IF myEntityId = NoConnection THEN tcpSocket ELSE myEntityId
  /\ UNCHANGED hasFailedUnexpectedly

ReceiveSpawn ==
  /\ ReceiverStep("receive", "loop")
  /\ tcpSocket # NoConnection
  /\ entities' = entities \union {tcpSocket}
  /\ myEntityId' = IF myEntityId = NoConnection THEN tcpSocket ELSE myEntityId
  /\ UNCHANGED hasFailedUnexpectedly

ReceiveDespawn ==
  /\ ReceiverStep("receive", "loop")
  /\ tcpSocket # NoConnection
  /\ entities' = entities \ {tcpSocket}
  /\ UNCHANGED <<hasFailedUnexpectedly, myEntityId>>

\* The socket was closed at either end, or the message is none this channel has.
ReceiveFails ==
  /\ ReceiverStep("receive", "failed")
  /\ tcpSocket \in broken \union {NoConnection}
  /\ UNCHANGED <<hasFailedUnexpectedly, worldVars>>

\* Mutant: the worker just ends.
ReceiverEnds_Silently ==
  /\ ReceiverStep("failed", "done")
  /\ UNCHANGED <<hasFailedUnexpectedly, worldVars>>

ReceiverEnds ==
  /\ ReceiverStep("failed", "done")
  /\ hasFailedUnexpectedly' = (hasFailedUnexpectedly \/ isRunning)
  /\ UNCHANGED worldVars

ReceiveWorker ==
  /\ ReceiverLoop \/ ReceiveSpawn \/ ReceiveDespawn \/ ReceiveFails \/ ReceiverEnds
  /\ UNCHANGED <<mutexVars, isWatchdogRunning, pc, userVars, tcpSocket, udpReceiverRunning,
                 tcpMessageReceiver, isRunning, outsideVars, latest, gateVars>>

-----------------------------------------------------------------------------
(* UdpReceiver::ReceiveWorker *)

\* A batch comes through the open gate, and OnState creates an entity it does not know.
\* Batches name no session, and the port is that of the connection before: a late one of
\* an earlier stream is taken like any other.  Which of this client's sessions streamed
\* at all is left open.
ReceiveState(c) ==
  /\ udpReceiverRunning /\ isActive
  /\ c \in used
  /\ entities' = entities \union {c}
  /\ UNCHANGED <<mutexVars, isWatchdogRunning, pc, userVars, tcpSocket, udpReceiverRunning,
                 receiverVars, myEntityId, outsideVars, latest, gateVars>>

-----------------------------------------------------------------------------
\* The server closes a connection, or the network does.
Break(c) ==
  /\ c \in used \ broken
  /\ broken' = broken \union {c}
  /\ UNCHANGED <<mutexVars, isWatchdogRunning, pc, userVars, tcpSocket, udpReceiverRunning,
                 receiverVars, worldVars, used, latest, gateVars>>

Clock ==
  /\ RetryTimePasses
  /\ UNCHANGED <<isWatchdogRunning, userVars, tcpSocket, udpReceiverRunning, receiverVars,
                 worldVars, outsideVars, latest, gateVars>>

Next ==
  \/ User \/ Watchdog \/ Clock \/ ReceiveWorker
  \/ \E t \in {"user", "watchdog"} : Teardown(t) \/ ConnectLocked(t)
  \/ \E c \in Connections : Break(c) \/ ReceiveState(c)

Spec == Init /\ [][Next]_vars

\* Threads are scheduled; connect() and closed sockets return; what a lost connection
\* had still buffered runs out; and connectionMutex_, which is free again and again
\* (the watchdog sleeps between its turns), is not denied to a thread for ever.
Fairness ==
  /\ WF_vars(User /\ pc["user"] # "idle")
  /\ SF_vars(User /\ pc["user"] = "lock")
  /\ WF_vars(Watchdog)
  /\ SF_vars(Watchdog /\ pc["watchdog"] = "lock")
  /\ \A t \in {"user", "watchdog"} : WF_vars(Teardown(t) \/ ConnectLocked(t))
  /\ WF_vars(Clock)
  /\ WF_vars(ReceiveWorker /\ receiverPc # "receive")
  /\ SF_vars(ReceiveWorker /\ receiverPc' = "failed")

FairSpec == Spec /\ Fairness

-----------------------------------------------------------------------------
(* Properties *)

Holding == {"teardown", "close", "join", "stopUdp", "startUdp", "connectTcp", "register",
            "startReceiver", "connected"}

UserPcs ==
  {"idle", "lock", "joinWatchdog", "startWatchdog", "onPlay"} \union Holding

WatchdogPcs == {"none", "check", "sleep", "lock", "done"} \union Holding

\* Positions, flags and connections have their types; entities come from connections
\* that were made.
TypeOK ==
  /\ connectionState \in {"Disconnected", "Connected", "Reconnecting"}
  /\ connectionMutex \in {"none", "user", "watchdog"}
  /\ isWatchdogRunning \in BOOLEAN /\ retryDue \in BOOLEAN
  /\ pc \in [user : UserPcs, watchdog : WatchdogPcs]
  /\ call \in {"none", "connect", "disconnect"} /\ isConnectedShown \in BOOLEAN
  /\ tcpSocket \in used \union {NoConnection}
  /\ udpReceiverRunning \in BOOLEAN
  /\ tcpMessageReceiver \in used \union {NoConnection}
  /\ isRunning \in BOOLEAN /\ hasFailedUnexpectedly \in BOOLEAN
  /\ receiverPc \in {"none", "loop", "receive", "failed", "done"}
  /\ entities \subseteq used
  /\ myEntityId \in used \union {NoConnection}
  /\ used \subseteq Connections /\ broken \subseteq used
  /\ latest \in used \union {NoConnection}
  /\ isActive \in BOOLEAN /\ wasActive \in BOOLEAN

\* The receiver thread borrows tcpSocket_ by reference: it never runs on when the
\* socket has been given to another connection, whose messages it would steal.
ReceiverReadsItsConnection ==
  receiverPc \in {"loop", "receive", "failed"} /\ tcpSocket # NoConnection =>
    tcpSocket = tcpMessageReceiver

\* The client's own entity is never that of a session before a reconnect, and as long as
\* the user has not opened the gate again every entity it shows is of this session, for
\* all of them come by TCP.  Once Play has opened the gate only the first half holds: a
\* late batch of the old stream may bring the old session's entities back.
WorldIsThisSessions ==
  tcpMessageReceiver # NoConnection =>
    /\ wasActive \/ entities \subseteq {tcpMessageReceiver}
    /\ myEntityId \in {tcpMessageReceiver, NoConnection}

\* hasFailedUnexpectedly_ is set only for a connection that really broke, never
\* because this client stops its own receiver and closes the socket under it.
OwnStopIsNoFailure ==
  tcpMessageReceiver # NoConnection /\ hasFailedUnexpectedly => tcpMessageReceiver \in broken

\* Connect assigns watchdogThread_ only when it holds no running thread: assigning
\* over one would end the program.
WatchdogIsJoinedFirst ==
  pc["user"] = "startWatchdog" /\ ~isWatchdogRunning => pc["watchdog"] = "none"

\* When Disconnect has returned nothing is left running or open, and no reconnect of
\* the watchdog undoes it, whatever the watchdog was about when it was called.
DisconnectIsFinal ==
  pc["user"] = "idle" /\ call = "disconnect" =>
    /\ connectionState = "Disconnected" /\ connectionMutex = "none"
    /\ pc["watchdog"] = "none" /\ receiverPc = "none"
    /\ tcpSocket = NoConnection /\ ~udpReceiverRunning

\* What a user of the state may rely on (see ConnectionLifecycle).
Lifecycle == INSTANCE ConnectionLifecycle
  WITH state <- connectionState, wanted <- call = "connect", connection <- latest, lost <- broken

KeepsLifecycle == Lifecycle!Spec

\* Disconnect returns, although it waits for the watchdog, which may be anywhere in a
\* reconnect, and for the receiver, which may be blocked in a read.
DisconnectReturns == (call = "disconnect") ~> (pc["user"] = "idle")

\* A connection that broke is torn down: by the watchdog, or because the user acts.
FailureIsNoticed ==
  \A c \in Connections :
    (tcpMessageReceiver = c /\ c \in broken) ~> (tcpMessageReceiver # c)

\* As long as the client says it is reconnecting it makes another attempt.
KeepsTrying ==
  (connectionState = "Reconnecting") ~>
    (pc["watchdog"] = "startUdp" \/ connectionState # "Reconnecting")

\* Claim of ConnectionState: Connected means that there is a connection to lose, for
\* the receiver is what the watchdog watches.
ConnectedIsWatched ==
  connectionState = "Connected" /\ connectionMutex = "none" => tcpMessageReceiver # NoConnection

=============================================================================
