-------------------------- MODULE GameClientProofs --------------------------
(***************************************************************************)
(* Proofs about GameClient, for any set of connections: what the user's    *)
(* thread, the watchdog and the receiver may find of the connection they   *)
(* share, and that what is reported of it is a ConnectionLifecycle.        *)
(***************************************************************************)
EXTENDS GameClient, TLAPS

-----------------------------------------------------------------------------
(* The inductive invariant, part by part *)

Threads == {"user", "watchdog"}

Held == Holding \union {"startWatchdog"}

\* connectionMutex_ belongs to the thread that is between its lock and its unlock.
MutexInv == \A t \in Threads : pc[t] \in Held <=> connectionMutex = t

\* What a call of the user has done to the watchdog so far.
CallInv ==
  /\ call = "none" => pc["user"] = "idle" /\ connectionState = "Disconnected"
  /\ call = "disconnect" =>
       /\ ~isWatchdogRunning
       /\ pc["user"] \in {"idle", "joinWatchdog", "lock", "teardown", "close", "join", "stopUdp"}
  /\ pc["user"] # "joinWatchdog" /\ ~isWatchdogRunning => pc["watchdog"] = "none"

\* What the holder of the mutex has done so far.
PositionInv ==
  \A t \in Threads :
    /\ pc[t] \in {"close", "join"} => tcpMessageReceiver # NoConnection /\ ~isRunning
    /\ pc[t] \in {"stopUdp", "startUdp", "connectTcp", "register", "startReceiver"} =>
         tcpMessageReceiver = NoConnection
    /\ pc[t] \in {"register", "startReceiver"} => tcpSocket \notin {NoConnection, latest}
    /\ pc[t] = "connected" => latest # NoConnection

\* Why the watchdog holds the mutex.
WatchdogInv ==
  /\ pc["watchdog"] \in {"teardown", "close", "join", "stopUdp"} =>
       connectionState = "Connected" /\ latest \in broken
  /\ pc["watchdog"] \in {"startUdp", "connectTcp", "register", "startReceiver", "connected"} =>
       connectionState = "Reconnecting"

\* The receiver, its thread and the socket it reads.
ReceiverInv ==
  /\ receiverPc = "none" <=> tcpMessageReceiver = NoConnection
  /\ tcpMessageReceiver # NoConnection =>
       /\ latest = tcpMessageReceiver
       /\ tcpSocket \in {NoConnection, tcpMessageReceiver}
       /\ isRunning => tcpSocket = tcpMessageReceiver
       /\ isRunning /\ receiverPc = "failed" => tcpMessageReceiver \in broken
       /\ connectionState = "Connected" \/ \E t \in Threads : pc[t] = "connected"

\* The gate for state batches.
GateInv == isActive => wasActive

ClientInv ==
  /\ TypeOK /\ MutexInv /\ CallInv /\ PositionInv /\ WatchdogInv /\ ReceiverInv /\ GateInv
  /\ WorldIsThisSessions /\ OwnStopIsNoFailure /\ DisconnectIsFinal

-----------------------------------------------------------------------------
(* The positions of the two threads *)

\* A step moves its thread only, and to one of that thread's positions.
LEMMA StepEffect ==
  ASSUME TypeOK, NEW t \in Threads, NEW to, pc' = [pc EXCEPT ![t] = to],
         t = "user" => to \in UserPcs, t = "watchdog" => to \in WatchdogPcs
  PROVE  /\ pc'[t] = to /\ \A o \in Threads \ {t} : pc'[o] = pc[o]
         /\ pc' \in [user : UserPcs, watchdog : WatchdogPcs]
  BY DEF TypeOK, Threads

-----------------------------------------------------------------------------
(* The initial state *)

\* The threads start outside the mutex, with nothing to watch.
LEMMA ClientInit == Init => ClientInv
<1> SUFFICES ASSUME Init PROVE ClientInv
  OBVIOUS
<1> USE DEF Init
<1>1. TypeOK
  BY DEF TypeOK, UserPcs, WatchdogPcs
<1>2. MutexInv /\ CallInv /\ PositionInv /\ WatchdogInv
  BY DEF MutexInv, CallInv, PositionInv, WatchdogInv, Threads, Held, Holding
<1>3. ReceiverInv /\ GateInv /\ WorldIsThisSessions /\ OwnStopIsNoFailure /\ DisconnectIsFinal
  BY DEF ReceiverInv, GateInv, WorldIsThisSessions, OwnStopIsNoFailure, DisconnectIsFinal
<1> QED
  BY <1>1, <1>2, <1>3 DEF ClientInv

-----------------------------------------------------------------------------
(* The user's thread *)

\* The user's steps keep the invariant.
LEMMA UserStep == ClientInv /\ User => ClientInv'
<1> SUFFICES ASSUME ClientInv, User PROVE ClientInv'
  OBVIOUS
<1> USE DEF Threads, Held, Holding, UserPcs, WatchdogPcs
<1>0. /\ UNCHANGED <<tcpSocket, udpReceiverRunning, tcpMessageReceiver, isRunning,
                     hasFailedUnexpectedly, receiverPc, entities, myEntityId, used, broken, latest>>
      /\ TypeOK
  BY DEF User, receiverVars, worldVars, outsideVars, ClientInv
<1>10. isActive' \in BOOLEAN /\ wasActive' \in BOOLEAN /\ (wasActive => wasActive') /\ GateInv'
  <2>1. CASE UNCHANGED gateVars
    BY <1>0, <2>1, Zenon DEF gateVars, TypeOK, GateInv, ClientInv
  <2>2. CASE OnPlay
    BY <2>2, Zenon DEF OnPlay, GateInv
  <2>3. CASE CloseGate
    BY <1>0, <2>3, Zenon DEF CloseGate, TypeOK, GateInv
  <2> QED
    BY <2>1, <2>2, <2>3 DEF User, SendPlay
<1>1. CASE Poll
  BY <1>0, <1>10, <1>1 DEF Poll, mutexVars, ClientInv, TypeOK, MutexInv, CallInv, PositionInv,
     WatchdogInv,
     ReceiverInv, WorldIsThisSessions, OwnStopIsNoFailure, DisconnectIsFinal
<1>2. CASE CallConnect
  <2>1. /\ pc["user"] = "idle" /\ pc'["user"] = "lock" /\ pc'["watchdog"] = pc["watchdog"]
        /\ pc' \in [user : UserPcs, watchdog : WatchdogPcs]
    BY <1>0, <1>2, StepEffect DEF CallConnect, Step
  <2> QED
    BY <1>0, <1>10, <1>2, <2>1 DEF CallConnect, mutexVars, ClientInv, TypeOK, MutexInv, CallInv,
       PositionInv,
       WatchdogInv, ReceiverInv, WorldIsThisSessions, OwnStopIsNoFailure, DisconnectIsFinal
<1>3. CASE CallDisconnect
  <2>1. /\ pc["user"] = "idle" /\ pc'["user"] = "joinWatchdog" /\ pc'["watchdog"] = pc["watchdog"]
        /\ pc' \in [user : UserPcs, watchdog : WatchdogPcs]
    BY <1>0, <1>3, StepEffect DEF CallDisconnect, Step
  <2>2. /\ UNCHANGED <<connectionState, connectionMutex, retryDue, isConnectedShown>>
        /\ call' = "disconnect" /\ isWatchdogRunning' = FALSE
    BY <1>3 DEF CallDisconnect, mutexVars
  <2>3. TypeOK'
    <3>1. isWatchdogRunning' \in BOOLEAN
      BY <2>2, Zenon
    <3> QED
      BY <1>0, <1>10, <2>1, <2>2, <3>1 DEF TypeOK
  <2>7. CallInv'
    BY <2>1, <2>2 DEF CallInv
  <2>6. MutexInv'
    BY <2>1, <2>2 DEF ClientInv, MutexInv
  <2>4. PositionInv' /\ WatchdogInv' /\ ReceiverInv'
    BY <1>0, <2>1, <2>2 DEF ClientInv, PositionInv, WatchdogInv, ReceiverInv
  <2>5. WorldIsThisSessions' /\ OwnStopIsNoFailure' /\ DisconnectIsFinal'
    BY <1>0, <1>10, <2>1 DEF ClientInv, WorldIsThisSessions, OwnStopIsNoFailure, DisconnectIsFinal
  <2> QED
    BY <1>10, <2>3, <2>4, <2>5, <2>6, <2>7 DEF ClientInv
<1>4. CASE JoinWatchdog
  <2>1. /\ pc["user"] = "joinWatchdog" /\ pc["watchdog"] \in {"none", "done"}
        /\ pc'["user"] = "lock" /\ pc'["watchdog"] = "none"
        /\ pc' \in [user : UserPcs, watchdog : WatchdogPcs]
    BY <1>0, <1>4 DEF JoinWatchdog, TypeOK
  <2> QED
    BY <1>0, <1>10, <1>4, <2>1 DEF JoinWatchdog, mutexVars, userVars, ClientInv, TypeOK, MutexInv,
       CallInv,
       PositionInv, WatchdogInv, ReceiverInv, WorldIsThisSessions, OwnStopIsNoFailure,
       DisconnectIsFinal
<1>5. CASE UserLock
  <2>1. /\ pc["user"] = "lock" /\ pc'["watchdog"] = pc["watchdog"]
        /\ pc'["user"] = (IF call = "connect" /\ connectionState = "Disconnected"
                          THEN "startUdp" ELSE "teardown")
        /\ pc' \in [user : UserPcs, watchdog : WatchdogPcs]
    BY <1>0, <1>5, StepEffect DEF UserLock, Step
  <2> QED
    BY <1>0, <1>10, <1>5, <2>1 DEF UserLock, userVars, ClientInv, TypeOK, MutexInv, CallInv,
       PositionInv,
       WatchdogInv, ReceiverInv, WorldIsThisSessions, OwnStopIsNoFailure, DisconnectIsFinal
<1>6. CASE StartWatchdog
  <2>1. /\ pc["user"] = "startWatchdog" /\ pc'["user"] = "idle"
        /\ pc'["watchdog"] = IF isWatchdogRunning THEN pc["watchdog"] ELSE "check"
        /\ pc' \in [user : UserPcs, watchdog : WatchdogPcs]
    BY <1>0, <1>6 DEF StartWatchdog, TypeOK
  <2> QED
    BY <1>0, <1>10, <1>6, <2>1 DEF StartWatchdog, userVars, ClientInv, TypeOK, MutexInv, CallInv,
       PositionInv,
       WatchdogInv, ReceiverInv, WorldIsThisSessions, OwnStopIsNoFailure, DisconnectIsFinal
<1>7. CASE (SendPlay \/ OnPlay) /\ UNCHANGED <<mutexVars, isWatchdogRunning, userVars>>
  <2>0. UNCHANGED <<connectionState, connectionMutex, retryDue, isWatchdogRunning, call,
                    isConnectedShown>>
    BY <1>7 DEF mutexVars, userVars
  <2>1. /\ pc["user"] \in {"idle", "onPlay"} /\ pc'["user"] \in {"idle", "onPlay"}
        /\ pc["user"] = "idle" => connectionState # "Disconnected"
        /\ pc'["watchdog"] = pc["watchdog"]
        /\ pc' \in [user : UserPcs, watchdog : WatchdogPcs]
    BY <1>0, <1>7, StepEffect DEF SendPlay, OnPlay, Step
  <2>2. call = "connect"
    BY <1>0, <2>1 DEF ClientInv, TypeOK, CallInv, DisconnectIsFinal
  <2>3. TypeOK'
    BY <1>0, <1>10, <2>0, <2>1 DEF TypeOK
  <2>4. MutexInv' /\ CallInv' /\ PositionInv' /\ WatchdogInv' /\ ReceiverInv'
    BY <1>0, <2>0, <2>1, <2>2 DEF ClientInv, MutexInv, CallInv, PositionInv, WatchdogInv,
       ReceiverInv
  <2>5. WorldIsThisSessions' /\ OwnStopIsNoFailure' /\ DisconnectIsFinal'
    BY <1>0, <1>10, <2>0, <2>2 DEF ClientInv, WorldIsThisSessions, OwnStopIsNoFailure,
       DisconnectIsFinal
  <2> QED
    BY <1>10, <2>3, <2>4, <2>5 DEF ClientInv
<1>8. CASE CloseGate /\ UNCHANGED <<mutexVars, isWatchdogRunning, userVars>>
  <2>0. UNCHANGED <<connectionState, connectionMutex, retryDue, isWatchdogRunning, call,
                    isConnectedShown, pc>>
    BY <1>8, Zenon DEF CloseGate, mutexVars, userVars
  <2>1. TypeOK'
    BY <1>0, <1>10, <2>0 DEF TypeOK
  <2>2. MutexInv' /\ CallInv' /\ PositionInv' /\ WatchdogInv' /\ ReceiverInv'
    BY <1>0, <2>0 DEF ClientInv, MutexInv, CallInv, PositionInv, WatchdogInv, ReceiverInv
  <2>3. WorldIsThisSessions' /\ OwnStopIsNoFailure' /\ DisconnectIsFinal'
    BY <1>0, <1>10, <2>0 DEF ClientInv, WorldIsThisSessions, OwnStopIsNoFailure, DisconnectIsFinal
  <2> QED
    BY <1>10, <2>1, <2>2, <2>3 DEF ClientInv
<1> QED
  BY <1>1, <1>2, <1>3, <1>4, <1>5, <1>6, <1>7, <1>8 DEF User

-----------------------------------------------------------------------------
(* The watchdog, and the clock it waits for *)

\* The watchdog's steps outside the mutex, and into it, keep the invariant.
LEMMA WatchdogStep == ClientInv /\ (Watchdog \/ Clock) => ClientInv'
<1> SUFFICES ASSUME ClientInv, Watchdog \/ Clock PROVE ClientInv'
  OBVIOUS
<1> USE DEF Threads, Held, Holding, UserPcs, WatchdogPcs
<1>0. /\ UNCHANGED <<isWatchdogRunning, call, isConnectedShown, connectionState>>
      /\ UNCHANGED <<tcpSocket, udpReceiverRunning, tcpMessageReceiver, isRunning,
                     hasFailedUnexpectedly, receiverPc, entities, myEntityId, used, broken, latest>>
      /\ TypeOK /\ UNCHANGED <<isActive, wasActive>>
  BY DEF Watchdog, WatchdogCheck, WatchdogWakes, WatchdogLock, Clock, RetryTimePasses, mutexVars,
     userVars, receiverVars, worldVars, outsideVars, gateVars, ClientInv
<1>1. CASE WatchdogCheck \/ WatchdogWakes
  <2>1. /\ pc["watchdog"] \in {"check", "sleep"} /\ pc'["watchdog"] \in {"sleep", "lock", "done"}
        /\ pc'["user"] = pc["user"] /\ pc' \in [user : UserPcs, watchdog : WatchdogPcs]
        /\ UNCHANGED <<connectionMutex, retryDue>>
    BY <1>0, <1>1, StepEffect DEF WatchdogCheck, WatchdogWakes, Step, mutexVars
  <2> QED
    BY <1>0, <2>1 DEF ClientInv, TypeOK, MutexInv, CallInv, PositionInv, WatchdogInv, ReceiverInv,
       GateInv, WorldIsThisSessions, OwnStopIsNoFailure, DisconnectIsFinal
<1>2. CASE WatchdogLock
  <2>1. /\ connectionMutex = "none" /\ UNCHANGED retryDue
        /\ pc["watchdog"] = "lock" /\ pc'["user"] = pc["user"]
        /\ pc' \in [user : UserPcs, watchdog : WatchdogPcs]
        /\ \/ LostConnection /\ pc'["watchdog"] = "teardown" /\ connectionMutex' = "watchdog"
           \/ connectionState = "Reconnecting" /\ pc'["watchdog"] = "startUdp"
                /\ connectionMutex' = "watchdog"
           \/ pc'["watchdog"] = "check" /\ connectionMutex' = "none"
    BY <1>0, <1>2, StepEffect DEF WatchdogLock, Unlock, Step
  <2> QED
    BY <1>0, <2>1 DEF LostConnection, ClientInv, TypeOK, MutexInv, CallInv, PositionInv,
       WatchdogInv,
       ReceiverInv, GateInv, WorldIsThisSessions, OwnStopIsNoFailure, DisconnectIsFinal
<1>3. CASE Clock
  <2>1. UNCHANGED <<connectionMutex, pc>> /\ retryDue' = TRUE
    BY <1>3 DEF Clock, RetryTimePasses
  <2> QED
    BY <1>0, <2>1 DEF ClientInv, TypeOK, MutexInv, CallInv, PositionInv, WatchdogInv, ReceiverInv,
       GateInv, WorldIsThisSessions, OwnStopIsNoFailure, DisconnectIsFinal
<1> QED
  BY <1>1, <1>2, <1>3 DEF Watchdog

-----------------------------------------------------------------------------
(* TeardownConnectionLocked *)

\* The thread that holds the mutex, and the other one, which does not.
LEMMA Exclusion ==
  ASSUME MutexInv, NEW t \in Threads, pc[t] \in Held
  PROVE  connectionMutex = t /\ \A o \in Threads \ {t} : pc[o] \notin Held
  BY DEF MutexInv

\* Taking a connection down keeps the invariant.
LEMMA TeardownStep ==
  ASSUME ClientInv, NEW t \in Threads, Teardown(t)
  PROVE  ClientInv'
<1> USE DEF Threads, Held, Holding, UserPcs, WatchdogPcs
<1>0. /\ UNCHANGED <<isWatchdogRunning, call, isConnectedShown, entities, myEntityId, used, broken,
                     latest, isActive, wasActive>>
      /\ TypeOK /\ connectionMutex = t /\ \A o \in Threads \ {t} : pc[o] \notin Held
  <2>1. pc[t] \in Held
    BY DEF Teardown, StopReceiver, CloseSocket, JoinReceiver, StopUdp, AfterTeardown, Unlock, Step
  <2> QED
    BY <2>1, Exclusion DEF Teardown, userVars, worldVars, outsideVars, gateVars, ClientInv
<1>1. CASE StopReceiver(t)
  <2>1. /\ pc[t] = "teardown"
        /\ pc'[t] = IF tcpMessageReceiver = NoConnection THEN "stopUdp" ELSE "close"
        /\ \A o \in Threads \ {t} : pc'[o] = pc[o]
        /\ pc' \in [user : UserPcs, watchdog : WatchdogPcs]
    BY <1>0, <1>1, StepEffect DEF StopReceiver, Step
  <2>2. /\ isRunning' = FALSE
        /\ UNCHANGED <<connectionState, connectionMutex, retryDue, tcpSocket, udpReceiverRunning,
                       tcpMessageReceiver, hasFailedUnexpectedly, receiverPc>>
    BY <1>1 DEF StopReceiver, mutexVars
  <2>3. TypeOK'
    <3>1. isRunning' \in BOOLEAN
      BY <2>2, Zenon
    <3> QED
      BY <1>0, <2>1, <2>2, <3>1 DEF TypeOK
  <2>4. MutexInv'
    BY <1>0, <2>1, <2>2 DEF ClientInv, MutexInv
  <2>5. CallInv' /\ DisconnectIsFinal'
    BY <1>0, <2>1, <2>2 DEF ClientInv, MutexInv, CallInv, PositionInv, ReceiverInv, TypeOK,
       DisconnectIsFinal
  <2>6. PositionInv' /\ WatchdogInv'
    BY <1>0, <2>1, <2>2 DEF ClientInv, PositionInv, WatchdogInv, ReceiverInv
  <2>7. ReceiverInv'
    BY <1>0, <2>1, <2>2 DEF ClientInv, PositionInv, WatchdogInv, ReceiverInv, TypeOK
  <2>8. WorldIsThisSessions' /\ OwnStopIsNoFailure'
    BY <1>0, <2>1, <2>2 DEF ClientInv, PositionInv, ReceiverInv, WorldIsThisSessions,
       OwnStopIsNoFailure
  <2> QED
    BY <1>0, <2>3, <2>4, <2>5, <2>6, <2>7, <2>8 DEF ClientInv, GateInv
<1>2. CASE CloseSocket(t)
  <2>1. /\ pc[t] = "close" /\ pc'[t] = "join" /\ \A o \in Threads \ {t} : pc'[o] = pc[o]
        /\ pc' \in [user : UserPcs, watchdog : WatchdogPcs]
    BY <1>0, <1>2, StepEffect DEF CloseSocket, Step
  <2>2. /\ tcpSocket' = NoConnection
        /\ UNCHANGED <<connectionState, connectionMutex, retryDue, udpReceiverRunning,
                       tcpMessageReceiver, isRunning, hasFailedUnexpectedly, receiverPc>>
    BY <1>2 DEF CloseSocket, mutexVars, receiverVars
  <2>3. TypeOK'
    BY <1>0, <2>1, <2>2 DEF TypeOK
  <2>4. MutexInv'
    BY <1>0, <2>1, <2>2 DEF ClientInv, MutexInv
  <2>5. CallInv' /\ DisconnectIsFinal'
    BY <1>0, <2>1, <2>2 DEF ClientInv, MutexInv, CallInv, PositionInv, ReceiverInv, TypeOK,
       DisconnectIsFinal
  <2>6. PositionInv' /\ WatchdogInv'
    BY <1>0, <2>1, <2>2 DEF ClientInv, PositionInv, WatchdogInv, ReceiverInv
  <2>7. ReceiverInv'
    BY <1>0, <2>1, <2>2 DEF ClientInv, PositionInv, WatchdogInv, ReceiverInv, TypeOK
  <2>8. WorldIsThisSessions' /\ OwnStopIsNoFailure'
    BY <1>0, <2>1, <2>2 DEF ClientInv, PositionInv, ReceiverInv, WorldIsThisSessions,
       OwnStopIsNoFailure
  <2> QED
    BY <1>0, <2>3, <2>4, <2>5, <2>6, <2>7, <2>8 DEF ClientInv, GateInv
<1>3. CASE JoinReceiver(t)
  <2>1. /\ pc[t] = "join" /\ pc'[t] = "stopUdp" /\ \A o \in Threads \ {t} : pc'[o] = pc[o]
        /\ pc' \in [user : UserPcs, watchdog : WatchdogPcs]
    BY <1>0, <1>3, StepEffect DEF JoinReceiver, Step
  <2>2. /\ tcpMessageReceiver' = NoConnection /\ hasFailedUnexpectedly' = FALSE
        /\ receiverPc' = "none"
        /\ UNCHANGED <<connectionState, connectionMutex, retryDue, tcpSocket, udpReceiverRunning,
                       isRunning>>
    BY <1>3 DEF JoinReceiver, mutexVars
  <2>3. TypeOK'
    <3>1. hasFailedUnexpectedly' \in BOOLEAN
      BY <2>2, Zenon
    <3>2. receiverPc' \in {"none", "loop", "receive", "failed", "done"}
      BY <2>2
    <3> QED
      BY <1>0, <2>1, <2>2, <3>1, <3>2 DEF TypeOK
  <2>4. MutexInv'
    BY <1>0, <2>1, <2>2 DEF ClientInv, MutexInv
  <2>5. CallInv' /\ DisconnectIsFinal'
    BY <1>0, <2>1, <2>2 DEF ClientInv, MutexInv, CallInv, PositionInv, ReceiverInv, TypeOK,
       DisconnectIsFinal
  <2>6. PositionInv' /\ WatchdogInv'
    BY <1>0, <2>1, <2>2 DEF ClientInv, PositionInv, WatchdogInv, ReceiverInv
  <2>7. ReceiverInv'
    BY <1>0, <2>1, <2>2 DEF ClientInv, PositionInv, WatchdogInv, ReceiverInv, TypeOK
  <2>8. WorldIsThisSessions' /\ OwnStopIsNoFailure'
    BY <1>0, <2>1, <2>2 DEF ClientInv, PositionInv, ReceiverInv, WorldIsThisSessions,
       OwnStopIsNoFailure
  <2> QED
    BY <1>0, <2>3, <2>4, <2>5, <2>6, <2>7, <2>8 DEF ClientInv, GateInv
<1>4. CASE StopUdp(t)
  <2>0. /\ udpReceiverRunning' = FALSE /\ tcpSocket' = NoConnection
        /\ UNCHANGED <<tcpMessageReceiver, isRunning, hasFailedUnexpectedly, receiverPc>>
    BY <1>4 DEF StopUdp, receiverVars
  <2>5. udpReceiverRunning' \in BOOLEAN
    BY <2>0, Zenon
  <2>1. CASE t = "user" /\ call = "connect" /\ Step(t, "stopUdp", "startUdp") /\ UNCHANGED mutexVars
    <3>1. /\ pc[t] = "stopUdp" /\ pc'[t] = "startUdp" /\ \A o \in Threads \ {t} : pc'[o] = pc[o]
          /\ pc' \in [user : UserPcs, watchdog : WatchdogPcs]
      BY <1>0, <2>1, StepEffect DEF Step
    <3>2. UNCHANGED <<connectionState, connectionMutex, retryDue>>
      BY <2>1 DEF mutexVars
    <3>3. TypeOK'
      BY <1>0, <2>0, <2>1, <2>5, <3>1, <3>2 DEF TypeOK
    <3>4. MutexInv'
      BY <1>0, <2>0, <2>1, <3>1, <3>2 DEF ClientInv, MutexInv
    <3>5. CallInv' /\ DisconnectIsFinal'
      BY <1>0, <2>0, <2>1, <3>1, <3>2 DEF ClientInv, MutexInv, CallInv, PositionInv, ReceiverInv,
         TypeOK, DisconnectIsFinal
    <3>6. PositionInv' /\ WatchdogInv'
      BY <1>0, <2>0, <2>1, <3>1, <3>2 DEF ClientInv, PositionInv, WatchdogInv, ReceiverInv
    <3>7. ReceiverInv'
      BY <1>0, <2>0, <2>1, <3>1, <3>2 DEF ClientInv, PositionInv, WatchdogInv, ReceiverInv, TypeOK
    <3>8. WorldIsThisSessions' /\ OwnStopIsNoFailure'
      BY <1>0, <2>0, <2>1, <3>1, <3>2 DEF ClientInv, PositionInv, ReceiverInv,
         WorldIsThisSessions, OwnStopIsNoFailure
    <3> QED
      BY <1>0, <3>3, <3>4, <3>5, <3>6, <3>7, <3>8 DEF ClientInv, GateInv
  <2>2. CASE t = "user" /\ call = "disconnect" /\ Unlock(t, "stopUdp", "idle")
             /\ connectionState' = "Disconnected" /\ UNCHANGED retryDue
    <3>1. /\ pc[t] = "stopUdp" /\ pc'[t] = "idle" /\ \A o \in Threads \ {t} : pc'[o] = pc[o]
          /\ pc' \in [user : UserPcs, watchdog : WatchdogPcs] /\ connectionMutex' = "none"
      BY <1>0, <2>2, StepEffect DEF Unlock, Step
    <3>2. TypeOK'
      BY <1>0, <2>0, <2>2, <2>5, <3>1 DEF TypeOK
    <3>3. MutexInv'
      BY <1>0, <2>0, <2>2, <3>1 DEF ClientInv, MutexInv
    <3>4. CallInv' /\ DisconnectIsFinal'
      BY <1>0, <2>0, <2>2, <3>1 DEF ClientInv, MutexInv, CallInv, PositionInv, ReceiverInv,
         TypeOK, DisconnectIsFinal
    <3>5. PositionInv' /\ WatchdogInv'
      BY <1>0, <2>0, <2>2, <3>1 DEF ClientInv, PositionInv, WatchdogInv, ReceiverInv
    <3>6. ReceiverInv'
      BY <1>0, <2>0, <2>2, <3>1 DEF ClientInv, PositionInv, WatchdogInv, ReceiverInv, TypeOK
    <3>7. WorldIsThisSessions' /\ OwnStopIsNoFailure'
      BY <1>0, <2>0, <2>2, <3>1 DEF ClientInv, PositionInv, ReceiverInv, WorldIsThisSessions,
         OwnStopIsNoFailure
    <3> QED
      BY <1>0, <3>2, <3>3, <3>4, <3>5, <3>6, <3>7 DEF ClientInv, GateInv
  <2>3. CASE t = "watchdog" /\ Unlock(t, "stopUdp", "check")
             /\ connectionState' = "Reconnecting" /\ retryDue' = FALSE
    <3>1. /\ pc[t] = "stopUdp" /\ pc'[t] = "check" /\ \A o \in Threads \ {t} : pc'[o] = pc[o]
          /\ pc' \in [user : UserPcs, watchdog : WatchdogPcs] /\ connectionMutex' = "none"
      BY <1>0, <2>3, StepEffect DEF Unlock, Step
    <3>2. TypeOK'
      <4>1. retryDue' \in BOOLEAN
        BY <2>3, Zenon
      <4> QED
        BY <1>0, <2>0, <2>3, <2>5, <3>1, <4>1 DEF TypeOK
    <3>3. MutexInv'
      BY <1>0, <2>0, <2>3, <3>1 DEF ClientInv, MutexInv
    <3>4. CallInv' /\ DisconnectIsFinal'
      <4>1. pc["watchdog"] = "stopUdp" /\ UNCHANGED isWatchdogRunning /\ pc'["user"] = pc["user"]
        BY <1>0, <2>3, <3>1
      <4>2. pc["user"] \notin Held /\ UNCHANGED call /\ TypeOK
        BY <1>0, <2>3
      <4>3. call = "disconnect" => pc["user"] # "idle"
        BY <4>1 DEF ClientInv, DisconnectIsFinal
      <4>4. call # "none"
        BY <4>1 DEF ClientInv, CallInv, WatchdogInv
      <4> QED
        BY <2>3, <3>1, <4>1, <4>2, <4>3, <4>4 DEF ClientInv, CallInv, DisconnectIsFinal
    <3>5. PositionInv' /\ WatchdogInv'
      BY <1>0, <2>0, <2>3, <3>1 DEF ClientInv, PositionInv, WatchdogInv, ReceiverInv
    <3>6. ReceiverInv'
      BY <1>0, <2>0, <2>3, <3>1 DEF ClientInv, PositionInv, WatchdogInv, ReceiverInv, TypeOK
    <3>7. WorldIsThisSessions' /\ OwnStopIsNoFailure'
      BY <1>0, <2>0, <2>3, <3>1 DEF ClientInv, PositionInv, ReceiverInv, WorldIsThisSessions,
         OwnStopIsNoFailure
    <3> QED
      BY <1>0, <3>2, <3>3, <3>4, <3>5, <3>6, <3>7 DEF ClientInv, GateInv
  <2> QED
    BY <1>4, <2>1, <2>2, <2>3 DEF StopUdp, AfterTeardown
<1> QED
  BY <1>1, <1>2, <1>3, <1>4 DEF Teardown

-----------------------------------------------------------------------------
(* ConnectLocked *)

\* The name of a new connection was never used.
LEMMA NewConnectionIsNew ==
  ASSUME TypeOK, used # Connections
  PROVE  NewConnection \in Connections \ used
<1>1. \E c \in Connections : c \notin used
  BY DEF TypeOK
<1> QED
  BY <1>1, Zenon DEF NewConnection

\* Setting a connection up, and giving up on it, keeps the invariant.
LEMMA ConnectStep ==
  ASSUME ClientInv, NEW t \in Threads, ConnectLocked(t)
  PROVE  ClientInv'
<1> USE DEF Threads, Held, Holding, UserPcs, WatchdogPcs
<1>0. /\ UNCHANGED <<isWatchdogRunning, call, isConnectedShown, broken>>
      /\ TypeOK /\ connectionMutex = t /\ \A o \in Threads \ {t} : pc[o] \notin Held
      /\ t = "user" => call = "connect"
      /\ isActive' \in BOOLEAN /\ wasActive' \in BOOLEAN /\ GateInv'
  <2>1. pc[t] \in {"startUdp", "connectTcp", "register", "startReceiver", "connected"}
    BY DEF ConnectLocked, StartUdp, ConnectTcp, Register, StartReceiver, ReportConnected,
       ConnectFails, Unlock, Step
  <2>2. TypeOK /\ MutexInv /\ CallInv
    BY DEF ClientInv
  <2>3. t = "user" => call = "connect"
    BY <2>1, <2>2 DEF TypeOK, CallInv
  <2>4. isActive' \in BOOLEAN /\ wasActive' \in BOOLEAN /\ GateInv'
    <3>1. CASE UNCHANGED gateVars
      BY <2>2, <3>1, Zenon DEF gateVars, TypeOK, GateInv, ClientInv
    <3>2. CASE isActive' = FALSE /\ wasActive' = FALSE
      BY <3>2, Zenon DEF GateInv
    <3> QED
      BY <3>1, <3>2 DEF ConnectLocked, StartUdp
  <2> QED
    BY <2>1, <2>2, <2>3, <2>4, Exclusion DEF ConnectLocked, userVars
\* The three ways to give up: before the socket is touched, with it, and after it is connected.
<1>1. ASSUME NEW from \in {"startUdp", "connectTcp", "register"}, ConnectFails(t, from),
             UNCHANGED <<tcpMessageReceiver, isRunning, hasFailedUnexpectedly, receiverPc, entities,
                         myEntityId, used, latest>>,
             tcpSocket' \in {tcpSocket, NoConnection},
             udpReceiverRunning' \in {udpReceiverRunning, FALSE}
      PROVE  ClientInv'
  <2>1. /\ pc[t] = from /\ pc'[t] = (IF t = "user" THEN "idle" ELSE "check")
        /\ \A o \in Threads \ {t} : pc'[o] = pc[o]
        /\ pc' \in [user : UserPcs, watchdog : WatchdogPcs]
    BY <1>0, <1>1, StepEffect DEF ConnectFails, Unlock, Step
  <2>2. /\ connectionMutex' = "none" /\ retryDue' \in BOOLEAN /\ UNCHANGED connectionState
        /\ udpReceiverRunning' \in BOOLEAN
    BY <1>0, <1>1 DEF ConnectFails, Unlock, TypeOK
  <2>3. TypeOK'
    BY <1>0, <1>1, <2>1, <2>2 DEF TypeOK
  <2>4. MutexInv'
    BY <1>0, <1>1, <2>1, <2>2 DEF ClientInv, MutexInv
  <2>5. CallInv' /\ DisconnectIsFinal'
    BY <1>0, <1>1, <2>1, <2>2 DEF ClientInv, CallInv, WatchdogInv, DisconnectIsFinal
  <2>6. PositionInv' /\ WatchdogInv'
    BY <1>0, <1>1, <2>1, <2>2 DEF ClientInv, PositionInv, WatchdogInv, ReceiverInv
  <2>7. ReceiverInv'
    BY <1>0, <1>1, <2>1, <2>2 DEF ClientInv, PositionInv, WatchdogInv, ReceiverInv
  <2>8. WorldIsThisSessions' /\ OwnStopIsNoFailure'
    BY <1>0, <1>1, <2>1, <2>2 DEF ClientInv, PositionInv, ReceiverInv, WorldIsThisSessions,
       OwnStopIsNoFailure
  <2> QED
    BY <1>0, <2>3, <2>4, <2>5, <2>6, <2>7, <2>8 DEF ClientInv
<1>2. CASE StartUdp(t) /\ Step(t, "startUdp", "connectTcp") /\ udpReceiverRunning' = TRUE
  <2>1. /\ pc[t] = "startUdp" /\ pc'[t] = "connectTcp" /\ \A o \in Threads \ {t} : pc'[o] = pc[o]
        /\ pc' \in [user : UserPcs, watchdog : WatchdogPcs]
    BY <1>0, <1>2, StepEffect DEF Step
  <2>2. UNCHANGED <<connectionState, connectionMutex, retryDue, tcpSocket, tcpMessageReceiver,
                  isRunning, hasFailedUnexpectedly, receiverPc, entities, myEntityId, used, latest>>
    BY <1>2, <2>1 DEF StartUdp, ConnectFails, Unlock, Step, mutexVars, receiverVars, worldVars
  <2>9. udpReceiverRunning' \in BOOLEAN
    BY <1>2, Zenon
  <2>3. TypeOK'
    BY <1>0, <2>1, <2>2, <2>9 DEF TypeOK
  <2>4. MutexInv'
    BY <1>0, <2>1, <2>2, <2>9 DEF ClientInv, MutexInv
  <2>5. CallInv' /\ DisconnectIsFinal'
    BY <1>0, <2>1, <2>2, <2>9 DEF ClientInv, CallInv, WatchdogInv, DisconnectIsFinal
  <2>6. PositionInv' /\ WatchdogInv'
    BY <1>0, <2>1, <2>2, <2>9 DEF ClientInv, PositionInv, WatchdogInv, ReceiverInv
  <2>7. ReceiverInv'
    BY <1>0, <2>1, <2>2, <2>9 DEF ClientInv, PositionInv, WatchdogInv, ReceiverInv
  <2>8. WorldIsThisSessions' /\ OwnStopIsNoFailure'
    BY <1>0, <2>1, <2>2, <2>9 DEF ClientInv, PositionInv, ReceiverInv, WorldIsThisSessions,
       OwnStopIsNoFailure
  <2> QED
    BY <1>0, <2>3, <2>4, <2>5, <2>6, <2>7, <2>8 DEF ClientInv
<1>3. CASE ConnectTcp(t) /\ Step(t, "connectTcp", "register")
  <2>1. /\ pc[t] = "connectTcp" /\ pc'[t] = "register" /\ \A o \in Threads \ {t} : pc'[o] = pc[o]
        /\ pc' \in [user : UserPcs, watchdog : WatchdogPcs]
    BY <1>0, <1>3, StepEffect DEF Step
  <2>2. PICK c \in Connections \ used : tcpSocket' = c /\ used' = used \union {c}
    BY <1>0, <1>3, <2>1, NewConnectionIsNew DEF ConnectTcp, ConnectFails, Unlock, Step
  <2>9. UNCHANGED <<connectionState, connectionMutex, retryDue, udpReceiverRunning,
                    tcpMessageReceiver, isRunning, hasFailedUnexpectedly, receiverPc, entities,
                    myEntityId, latest>>
    BY <1>3, <2>1 DEF ConnectTcp, ConnectFails, Unlock, Step, mutexVars, receiverVars, worldVars
  <2>10. c # NoConnection /\ c # latest /\ tcpMessageReceiver = NoConnection
    BY <1>0, <2>1, <2>2, ConnectionsAssumption DEF ClientInv, PositionInv, TypeOK
  <2>3. TypeOK'
    BY <1>0, <2>1, <2>2, <2>9, <2>10 DEF TypeOK
  <2>4. MutexInv'
    BY <1>0, <2>1, <2>2, <2>9, <2>10 DEF ClientInv, MutexInv
  <2>5. CallInv' /\ DisconnectIsFinal'
    BY <1>0, <2>1, <2>2, <2>9, <2>10 DEF ClientInv, CallInv, WatchdogInv, DisconnectIsFinal
  <2>6. PositionInv' /\ WatchdogInv'
    BY <1>0, <2>1, <2>2, <2>9, <2>10 DEF ClientInv, PositionInv, WatchdogInv, ReceiverInv
  <2>7. ReceiverInv'
    BY <1>0, <2>1, <2>2, <2>9, <2>10 DEF ClientInv, PositionInv, WatchdogInv, ReceiverInv
  <2>8. WorldIsThisSessions' /\ OwnStopIsNoFailure'
    BY <1>0, <2>1, <2>2, <2>9, <2>10 DEF ClientInv, PositionInv, ReceiverInv, WorldIsThisSessions,
       OwnStopIsNoFailure
  <2> QED
    BY <1>0, <2>3, <2>4, <2>5, <2>6, <2>7, <2>8 DEF ClientInv
<1>4. CASE Register(t) /\ Step(t, "register", "startReceiver")
  <2>1. /\ pc[t] = "register" /\ pc'[t] = "startReceiver" /\ \A o \in Threads \ {t} : pc'[o] = pc[o]
        /\ pc' \in [user : UserPcs, watchdog : WatchdogPcs]
    BY <1>0, <1>4, StepEffect DEF Step
  <2>2. UNCHANGED <<connectionState, connectionMutex, retryDue, tcpSocket, udpReceiverRunning,
                    tcpMessageReceiver, isRunning, hasFailedUnexpectedly, receiverPc, entities,
                    myEntityId, used, latest>>
    BY <1>4, <2>1 DEF Register, ConnectFails, Unlock, Step, mutexVars, receiverVars, worldVars
  <2>3. TypeOK'
    BY <1>0, <2>1, <2>2 DEF TypeOK
  <2>4. MutexInv'
    BY <1>0, <2>1, <2>2 DEF ClientInv, MutexInv
  <2>5. CallInv' /\ DisconnectIsFinal'
    BY <1>0, <2>1, <2>2 DEF ClientInv, CallInv, WatchdogInv, DisconnectIsFinal
  <2>6. PositionInv' /\ WatchdogInv'
    BY <1>0, <2>1, <2>2 DEF ClientInv, PositionInv, WatchdogInv, ReceiverInv
  <2>7. ReceiverInv'
    BY <1>0, <2>1, <2>2 DEF ClientInv, PositionInv, WatchdogInv, ReceiverInv
  <2>8. WorldIsThisSessions' /\ OwnStopIsNoFailure'
    BY <1>0, <2>1, <2>2 DEF ClientInv, PositionInv, ReceiverInv, WorldIsThisSessions,
       OwnStopIsNoFailure
  <2> QED
    BY <1>0, <2>3, <2>4, <2>5, <2>6, <2>7, <2>8 DEF ClientInv
<1>5. CASE StartReceiver(t)
  <2>1. /\ pc[t] = "startReceiver" /\ pc'[t] = "connected"
        /\ \A o \in Threads \ {t} : pc'[o] = pc[o]
        /\ pc' \in [user : UserPcs, watchdog : WatchdogPcs]
    BY <1>0, <1>5, StepEffect DEF StartReceiver, Step
  <2>2. /\ UNCHANGED <<connectionState, connectionMutex, retryDue, tcpSocket,
                       udpReceiverRunning, used>>
        /\ entities' = {} /\ myEntityId' = NoConnection
        /\ tcpMessageReceiver' = tcpSocket /\ latest' = tcpSocket /\ receiverPc' = "loop"
        /\ isRunning' = TRUE /\ hasFailedUnexpectedly' = FALSE
    BY <1>5 DEF StartReceiver, mutexVars
  <2>9. /\ tcpSocket # NoConnection
        /\ isRunning' \in BOOLEAN /\ hasFailedUnexpectedly' \in BOOLEAN
    BY <2>1, <2>2, Zenon DEF ClientInv, PositionInv
  <2>3. TypeOK'
    BY <1>0, <2>1, <2>2, <2>9 DEF TypeOK
  <2>4. MutexInv'
    BY <1>0, <2>1, <2>2, <2>9 DEF ClientInv, MutexInv
  <2>5. CallInv' /\ DisconnectIsFinal'
    BY <1>0, <2>1, <2>2, <2>9 DEF ClientInv, CallInv, WatchdogInv, DisconnectIsFinal
  <2>6. PositionInv' /\ WatchdogInv'
    BY <1>0, <2>1, <2>2, <2>9 DEF ClientInv, PositionInv, WatchdogInv, ReceiverInv
  <2>7. ReceiverInv'
    BY <1>0, <2>1, <2>2, <2>9 DEF ClientInv, PositionInv, WatchdogInv, ReceiverInv
  <2>8. WorldIsThisSessions' /\ OwnStopIsNoFailure'
    BY <1>0, <2>1, <2>2, <2>9 DEF ClientInv, PositionInv, ReceiverInv, WorldIsThisSessions,
       OwnStopIsNoFailure
  <2> QED
    BY <1>0, <2>3, <2>4, <2>5, <2>6, <2>7, <2>8 DEF ClientInv
<1>6. CASE ReportConnected(t)
  <2>1. /\ pc[t] = "connected" /\ \A o \in Threads \ {t} : pc'[o] = pc[o]
        /\ pc' \in [user : UserPcs, watchdog : WatchdogPcs]
        /\ \/ t = "user" /\ pc'[t] = "startWatchdog" /\ connectionMutex' = connectionMutex
           \/ t = "watchdog" /\ pc'[t] = "check" /\ connectionMutex' = "none"
    BY <1>0, <1>6, StepEffect DEF ReportConnected, Unlock, Step
  <2>0. ~StartUdp(t)
    BY <2>1, Zenon DEF StartUdp, ConnectFails, Unlock, Step
  <2>2. /\ connectionState' = "Connected"
        /\ UNCHANGED <<retryDue, tcpSocket, udpReceiverRunning, tcpMessageReceiver, isRunning,
                       hasFailedUnexpectedly, receiverPc, entities, myEntityId, used, latest,
                       wasActive>>
    BY <1>6, <2>0, Zenon DEF ConnectLocked, ReportConnected, receiverVars, worldVars, gateVars
  <2>3. TypeOK'
    BY <1>0, <2>1, <2>2 DEF TypeOK
  <2>4. MutexInv'
    BY <1>0, <2>1, <2>2 DEF ClientInv, MutexInv
  <2>5. CallInv' /\ DisconnectIsFinal'
    BY <1>0, <2>1, <2>2 DEF ClientInv, CallInv, WatchdogInv, DisconnectIsFinal
  <2>6. PositionInv' /\ WatchdogInv'
    BY <1>0, <2>1, <2>2 DEF ClientInv, PositionInv, WatchdogInv, ReceiverInv
  <2>7. ReceiverInv'
    BY <1>0, <2>1, <2>2 DEF ClientInv, PositionInv, WatchdogInv, ReceiverInv
  <2>8. WorldIsThisSessions' /\ OwnStopIsNoFailure'
    BY <1>0, <2>1, <2>2 DEF ClientInv, PositionInv, ReceiverInv, WorldIsThisSessions,
       OwnStopIsNoFailure
  <2> QED
    BY <1>0, <2>3, <2>4, <2>5, <2>6, <2>7, <2>8 DEF ClientInv
<1> QED
  <2>1. CASE StartUdp(t) /\ ConnectFails(t, "startUdp") /\ udpReceiverRunning' = FALSE
    BY <1>1, <2>1 DEF StartUdp, receiverVars, worldVars
  <2>2. CASE /\ ConnectTcp(t) /\ ConnectFails(t, "connectTcp")
             /\ tcpSocket' \in {tcpSocket, NoConnection} /\ UNCHANGED used
    BY <1>1, <2>2 DEF ConnectTcp, receiverVars, worldVars
  <2>3. CASE Register(t) /\ ConnectFails(t, "register")
    BY <1>1, <2>3 DEF Register, receiverVars, worldVars
  <2> QED
    BY <1>2, <1>3, <1>4, <1>5, <1>6, <2>1, <2>2, <2>3
       DEF ConnectLocked, StartUdp, ConnectTcp, Register

-----------------------------------------------------------------------------
(* The receiver, and the world outside *)

\* What the receiver takes from its socket keeps the invariant.
LEMMA ReceiveStep == ClientInv /\ ReceiveWorker => ClientInv'
<1> SUFFICES ASSUME ClientInv, ReceiveWorker PROVE ClientInv'
  OBVIOUS
<1>0. /\ UNCHANGED <<connectionState, connectionMutex, retryDue, isWatchdogRunning, pc, call,
                     isConnectedShown, tcpSocket, udpReceiverRunning, tcpMessageReceiver, isRunning,
                     used, broken, latest, isActive, wasActive>>
      /\ TypeOK /\ receiverPc \in {"loop", "receive", "failed"} /\ receiverPc' # "none"
      /\ receiverPc' \in {"none", "loop", "receive", "failed", "done"}
  BY DEF ReceiveWorker, mutexVars, userVars, outsideVars, gateVars, ReceiverLoop, ReceiveSpawn,
     ReceiveDespawn,
     ReceiveFails, ReceiverEnds, ReceiverStep, ClientInv
<1>1. MutexInv' /\ CallInv' /\ PositionInv' /\ WatchdogInv' /\ DisconnectIsFinal' /\ GateInv'
  BY <1>0 DEF ClientInv, MutexInv, CallInv, PositionInv, WatchdogInv, DisconnectIsFinal, GateInv
<1>2. tcpMessageReceiver # NoConnection /\ tcpSocket \in {NoConnection, tcpMessageReceiver}
  BY <1>0 DEF ClientInv, ReceiverInv
<1>3. CASE UNCHANGED <<hasFailedUnexpectedly, entities, myEntityId>>
  <2>1. receiverPc' = "failed" => ReceiveFails
    BY DEF ReceiveWorker, ReceiverLoop, ReceiveSpawn, ReceiveDespawn, ReceiveFails, ReceiverEnds,
       ReceiverStep
  <2>2. ReceiverInv'
    BY <1>0, <1>2, <2>1 DEF ReceiveFails, ClientInv, ReceiverInv
  <2> QED
    BY <1>0, <1>1, <1>3, <2>2 DEF ClientInv, TypeOK, WorldIsThisSessions, OwnStopIsNoFailure
<1>4. CASE ReceiveSpawn \/ ReceiveDespawn
  <2>1. /\ tcpSocket = tcpMessageReceiver /\ receiverPc' = "loop" /\ UNCHANGED hasFailedUnexpectedly
        /\ entities' \subseteq entities \union {tcpSocket}
        /\ myEntityId' \in {myEntityId, tcpSocket}
    BY <1>2, <1>4 DEF ReceiveSpawn, ReceiveDespawn, ReceiverStep
  <2> QED
    BY <1>0, <1>1, <2>1 DEF ClientInv, TypeOK, ReceiverInv, WorldIsThisSessions, OwnStopIsNoFailure
<1>5. CASE ReceiverEnds
  <2>1. /\ receiverPc = "failed" /\ receiverPc' = "done" /\ UNCHANGED <<entities, myEntityId>>
        /\ hasFailedUnexpectedly' = (hasFailedUnexpectedly \/ isRunning)
    BY <1>5 DEF ReceiverEnds, ReceiverStep, worldVars
  <2>2. hasFailedUnexpectedly' \in BOOLEAN
    BY <2>1, Zenon
  <2> QED
    BY <1>0, <1>1, <2>1, <2>2 DEF ClientInv, TypeOK, ReceiverInv, WorldIsThisSessions,
       OwnStopIsNoFailure
<1> QED
  BY <1>3, <1>4, <1>5 DEF ReceiveWorker, ReceiverLoop, ReceiveFails, worldVars

\* A connection that breaks does, and so does time.
LEMMA BreakStep ==
  ASSUME ClientInv, NEW c \in Connections, Break(c)
  PROVE  ClientInv'
<1>1. /\ broken' = broken \union {c} /\ c \in used
      /\ UNCHANGED <<connectionState, connectionMutex, retryDue, isWatchdogRunning, pc, call,
                     isConnectedShown, tcpSocket, udpReceiverRunning, tcpMessageReceiver, isRunning,
                     hasFailedUnexpectedly, receiverPc, entities, myEntityId, used, latest,
                     isActive, wasActive>>
  BY DEF Break, mutexVars, userVars, receiverVars, worldVars, gateVars
<1> QED
  BY <1>1 DEF ClientInv, TypeOK, MutexInv, CallInv, PositionInv, WatchdogInv, ReceiverInv, GateInv,
     WorldIsThisSessions, OwnStopIsNoFailure, DisconnectIsFinal

\* A batch gets in only through a gate that was opened since the receiver was started.
LEMMA BatchStep ==
  ASSUME ClientInv, NEW c \in Connections, ReceiveState(c)
  PROVE  ClientInv'
<1>1. /\ entities' = entities \union {c} /\ c \in used /\ isActive
      /\ UNCHANGED <<connectionState, connectionMutex, retryDue, isWatchdogRunning, pc, call,
                     isConnectedShown, tcpSocket, udpReceiverRunning, tcpMessageReceiver, isRunning,
                     hasFailedUnexpectedly, receiverPc, myEntityId, used, broken, latest,
                     isActive, wasActive>>
  BY DEF ReceiveState, mutexVars, userVars, receiverVars, outsideVars, gateVars
<1>2. wasActive
  BY <1>1 DEF ClientInv, GateInv
<1> QED
  BY <1>1, <1>2 DEF ClientInv, TypeOK, MutexInv, CallInv, PositionInv, WatchdogInv, ReceiverInv,
     GateInv, WorldIsThisSessions, OwnStopIsNoFailure, DisconnectIsFinal

-----------------------------------------------------------------------------
(* The theorems *)

\* Every step keeps the invariant.
LEMMA ClientStep == ClientInv /\ [Next]_vars => ClientInv'
<1>1. CASE UNCHANGED vars
  BY <1>1 DEF vars, mutexVars, userVars, receiverVars, worldVars, outsideVars, gateVars, ClientInv,
     TypeOK, MutexInv, CallInv, PositionInv, WatchdogInv, ReceiverInv, GateInv, WorldIsThisSessions,
     OwnStopIsNoFailure, DisconnectIsFinal
<1> QED
  BY <1>1, UserStep, WatchdogStep, TeardownStep, ConnectStep, ReceiveStep, BreakStep,
     BatchStep DEF Next, Threads

\* The invariant holds in every reachable state.
LEMMA Invariance == Spec => []ClientInv
  BY ClientInit, ClientStep, PTL DEF Spec

\* The client's threads, flags and connections keep their types.
THEOREM TypeCorrect == Spec => []TypeOK
  BY Invariance, PTL DEF ClientInv

\* The receiver's thread never reads a connection that is not its own.
THEOREM ReceiverBorrowsSafely == Spec => []ReceiverReadsItsConnection
<1>1. ClientInv => ReceiverReadsItsConnection
  BY DEF ClientInv, ReceiverInv, ReceiverReadsItsConnection
<1> QED
  BY <1>1, Invariance, PTL

\* The client's own entity is of the connection that is up, and so is every other that it
\* knows until the user's Play opens the gate for batches, which name no session.
THEOREM WorldIsFresh == Spec => []WorldIsThisSessions
  BY Invariance, PTL DEF ClientInv

\* The client's own closing of a socket is never taken for a failure of the connection.
THEOREM OwnStopIsQuiet == Spec => []OwnStopIsNoFailure
  BY Invariance, PTL DEF ClientInv

\* No running watchdog is ever assigned over.
THEOREM WatchdogIsJoined == Spec => []WatchdogIsJoinedFirst
<1>1. ClientInv => WatchdogIsJoinedFirst
  BY DEF ClientInv, CallInv, WatchdogIsJoinedFirst
<1> QED
  BY <1>1, Invariance, PTL

\* After Disconnect nothing runs, nothing is open and nothing reconnects.
THEOREM DisconnectIsThorough == Spec => []DisconnectIsFinal
  BY Invariance, PTL DEF ClientInv

-----------------------------------------------------------------------------
(* The client implements ConnectionLifecycle *)

\* A step of the holder of the mutex is what the user may see of a connection, or nothing.
LEMMA HolderRefines ==
  ASSUME ClientInv, NEW t \in Threads, Teardown(t) \/ ConnectLocked(t)
  PROVE  [Lifecycle!Next]_(Lifecycle!vars)
<1> USE DEF Threads
<1>0. /\ UNCHANGED <<call, broken>> /\ CallInv
      /\ latest \in Connections \union {NoConnection}
      /\ tcpSocket \in Connections \union {NoConnection}
      /\ call \in {"none", "connect", "disconnect"}
  BY DEF Teardown, ConnectLocked, userVars, outsideVars, ClientInv, TypeOK
<1>1. CASE Teardown(t) /\ ~StopUdp(t)
  <2>1. UNCHANGED <<connectionState, latest>>
    BY <1>1 DEF Teardown, StopReceiver, CloseSocket, JoinReceiver, mutexVars
  <2> QED
    BY <1>0, <2>1 DEF Lifecycle!vars
<1>2. CASE Teardown(t) /\ StopUdp(t)
  <2>1. UNCHANGED latest
    BY <1>2 DEF Teardown
  <2>2. CASE UNCHANGED connectionState
    BY <1>0, <2>1, <2>2 DEF Lifecycle!vars
  <2>3. CASE call = "disconnect" /\ connectionState' = "Disconnected"
    BY <1>0, <2>1, <2>3 DEF Lifecycle!Next, Lifecycle!Disconnect
  <2>4. CASE t = "watchdog" /\ pc[t] = "stopUdp" /\ connectionState' = "Reconnecting"
    <3>1. connectionState = "Connected" /\ latest \in broken
      BY <2>4 DEF ClientInv, WatchdogInv
    <3> QED
      BY <1>0, <2>1, <2>4, <3>1 DEF Lifecycle!Next, Lifecycle!Notice
  <2> QED
    BY <1>2, <2>2, <2>3, <2>4 DEF StopUdp, AfterTeardown, Unlock, Step, mutexVars
<1>3. CASE ConnectLocked(t) /\ ~StartReceiver(t) /\ ~ReportConnected(t)
  <2>1. UNCHANGED <<connectionState, latest>>
    BY <1>3 DEF ConnectLocked, StartUdp, ConnectTcp, Register, ConnectFails, mutexVars
  <2> QED
    BY <1>0, <2>1 DEF Lifecycle!vars
<1>4. CASE ConnectLocked(t) /\ (StartReceiver(t) \/ ReportConnected(t))
  <2>1. pc[t] \in {"startReceiver", "connected"}
    BY <1>4 DEF StartReceiver, ReportConnected, Unlock, Step
  <2>2. call = "connect" \/ connectionState # "Disconnected"
    <3>1. t = "watchdog" => connectionState = "Reconnecting"
      BY <2>1 DEF ClientInv, WatchdogInv
    <3>2. t = "user" => call = "connect"
      BY <1>0, <2>1 DEF CallInv
    <3> QED
      BY <3>1, <3>2
  <2>3. CASE StartReceiver(t)
    <3>1. /\ pc[t] = "startReceiver" /\ UNCHANGED connectionState
          /\ latest' = tcpSocket /\ tcpSocket \in Connections /\ tcpSocket # latest
      BY <1>0, <2>3 DEF StartReceiver, Step, mutexVars, ClientInv, PositionInv
    <3>2. Lifecycle!SetUp(tcpSocket)
      BY <1>0, <2>2, <3>1 DEF Lifecycle!SetUp, Lifecycle!Active
    <3> QED
      BY <3>1, <3>2 DEF Lifecycle!Next
  <2>4. CASE ReportConnected(t)
    <3>1. /\ pc[t] = "connected" /\ connectionState' = "Connected" /\ UNCHANGED latest
          /\ latest # NoConnection
      BY <2>4 DEF ReportConnected, Unlock, Step, ClientInv, PositionInv
    <3> QED
      BY <1>0, <2>2, <3>1 DEF Lifecycle!Next, Lifecycle!Report, Lifecycle!Active
  <2> QED
    BY <1>4, <2>3, <2>4
<1> QED
  BY <1>1, <1>2, <1>3, <1>4

\* Every other step shows the user's wish, a loss, or nothing.
LEMMA StepRefines == ClientInv /\ [Next]_vars => [Lifecycle!Next]_(Lifecycle!vars)
<1> SUFFICES ASSUME ClientInv, [Next]_vars PROVE [Lifecycle!Next]_(Lifecycle!vars)
  OBVIOUS
<1>1. CASE User
  <2>1. UNCHANGED <<connectionState, latest, broken>>
    BY <1>1 DEF User, Poll, CallConnect, CallDisconnect, JoinWatchdog, UserLock, StartWatchdog,
       mutexVars, outsideVars
  <2>2. CASE CallConnect
    BY <2>1, <2>2 DEF CallConnect, Lifecycle!Next, Lifecycle!Ask
  <2>3. CASE CallDisconnect
    BY <2>1, <2>3 DEF CallDisconnect, Lifecycle!Next, Lifecycle!Leave
  <2>4. CASE UNCHANGED call
    BY <2>1, <2>4 DEF Lifecycle!vars
  <2> QED
    BY <1>1, <2>2, <2>3, <2>4 DEF User, Poll, JoinWatchdog, UserLock, StartWatchdog, userVars
<1>2. CASE \/ Watchdog \/ Clock \/ ReceiveWorker \/ UNCHANGED vars
           \/ \E c \in Connections : ReceiveState(c)
  <2>1. UNCHANGED <<connectionState, call, latest, broken>>
    BY <1>2 DEF Watchdog, WatchdogCheck, WatchdogWakes, WatchdogLock, Clock, RetryTimePasses,
       ReceiveWorker, ReceiveState, vars, mutexVars, userVars, outsideVars
  <2> QED
    BY <2>1 DEF Lifecycle!vars
<1>3. ASSUME NEW c \in Connections, Break(c)
      PROVE  [Lifecycle!Next]_(Lifecycle!vars)
  <2>1. broken' = broken \union {c} /\ UNCHANGED <<connectionState, call, latest>>
    BY <1>3 DEF Break, mutexVars, userVars
  <2>2. Lifecycle!Lose(c)
    BY <2>1 DEF Lifecycle!Lose
  <2> QED
    BY <2>2 DEF Lifecycle!Next
<1> QED
  BY <1>1, <1>2, <1>3, HolderRefines DEF Next, Threads

\* What a user sees of the connection is a ConnectionLifecycle: Reconnecting only after a
\* connection was lost, Disconnected to stay once the user has left.
THEOREM ClientRefines == Spec => KeepsLifecycle
<1>1. Init => Lifecycle!Init
  BY DEF Init, Lifecycle!Init
<1> QED
  BY <1>1, StepRefines, Invariance, PTL DEF Spec, KeepsLifecycle, Lifecycle!Spec

-----------------------------------------------------------------------------
(* Progress: what DisconnectReturns, FailureIsNoticed and KeepsTrying rest on  *)
(* besides the scheduler.  No thread waits for one that cannot move, every     *)
(* step of a Disconnect goes forwards, and there is always somebody to notice. *)

\* The guards of a thread's steps: it waits for the mutex, or for a thread to end.
CanStep(t) ==
  /\ pc[t] \notin {"idle", "none", "done"}
  /\ pc[t] = "lock" => connectionMutex = "none"
  /\ pc[t] = "joinWatchdog" => pc["watchdog"] \in {"none", "done"}
  /\ pc[t] = "join" => receiverPc = "done"

\* The receiver can take a step that brings it nearer to its end.
ReceiverCanEnd ==
  \/ receiverPc \in {"loop", "failed"}
  \/ receiverPc = "receive" /\ tcpSocket \in broken \union {NoConnection}

OnTheMove(t) == CanStep(t) \/ (pc[t] = "join" /\ ReceiverCanEnd)

\* The user, the watchdog, the receiver and connectionMutex_ never wait in a circle: a
\* thread inside a call has a step, or joins a receiver that can end, or waits for the
\* other thread, of which the same is true and which does not wait for this one.
NobodyWaitsInACircle ==
  /\ pc["user"] # "idle" =>
       \/ OnTheMove("user")
       \/ pc["user"] \in {"joinWatchdog", "lock"} /\ OnTheMove("watchdog")
  /\ pc["watchdog"] \notin {"none", "done"} =>
       \/ OnTheMove("watchdog")
       \/ pc["watchdog"] = "lock" /\ OnTheMove("user")

\* What lies ahead of the user in Disconnect, of the watchdog that has been told to end,
\* and of a receiver whose socket is closed.
UserAhead ==
  [joinWatchdog |-> 6, lock |-> 5, teardown |-> 4, close |-> 3, join |-> 2, stopUdp |-> 1,
   idle |-> 0]

WatchdogAhead ==
  [lock |-> 13, teardown |-> 12, close |-> 11, join |-> 10, stopUdp |-> 9, startUdp |-> 8,
   connectTcp |-> 7, register |-> 6, startReceiver |-> 5, connected |-> 4, sleep |-> 3,
   check |-> 2, done |-> 1, none |-> 0]

ReceiverAhead == [receive |-> 3, failed |-> 2, loop |-> 2, done |-> 1, none |-> 0]

UserOn == pc'["user"] = pc["user"] \/ UserAhead[pc'["user"]] < UserAhead[pc["user"]]

WatchdogOn ==
  pc'["watchdog"] = pc["watchdog"] \/ WatchdogAhead[pc'["watchdog"]] < WatchdogAhead[pc["watchdog"]]

ReceiverOn ==
  receiverPc' = receiverPc \/ ReceiverAhead[receiverPc'] < ReceiverAhead[receiverPc]

DisconnectingStep ==
  /\ UserOn /\ WatchdogOn /\ UNCHANGED call
  /\ UNCHANGED pc => ReceiveWorker \/ Clock \/ \E c \in Connections : Break(c) \/ ReceiveState(c)

ForwardStep ==
  /\ call = "disconnect" /\ pc["user"] # "idle" => DisconnectingStep
  /\ "join" \in {pc["user"], pc["watchdog"]} => ReceiverOn

\* From its call to its return Disconnect only goes forwards, and so does the watchdog it
\* waits for, wherever in a reconnect the call finds it; a receiver that is being joined,
\* then or in a reconnect, only goes to its end.
DisconnectRunsDown == [][ForwardStep]_vars

\* As long as the user wants a connection and the client does not say Disconnected, the
\* watchdog is in its loop, or at work with the mutex; and a receiver that has ended has
\* left the mark by which the watchdog will know it.
FailureReachesWatchdog ==
  call = "connect" /\ connectionState # "Disconnected" /\ connectionMutex = "none" =>
    /\ isWatchdogRunning /\ pc["watchdog"] \in {"check", "sleep", "lock"}
    /\ receiverPc = "done" => LostConnection

\* A running watchdog has a thread, there is one once there was a connection to watch, a
\* receiver ends of itself only with a mark, is stopped only by the thread that then joins
\* it, and is joined only with its socket closed.
WatchedInv ==
  /\ isWatchdogRunning => pc["watchdog"] \notin {"none", "done"}
  /\ connectionState # "Disconnected" /\ call # "disconnect" /\ pc["user"] # "startWatchdog" =>
       isWatchdogRunning
  /\ receiverPc = "done" /\ isRunning => hasFailedUnexpectedly
  /\ tcpMessageReceiver # NoConnection /\ ~isRunning =>
       \E t \in Threads : pc[t] \in {"close", "join"}
  /\ \A t \in Threads : pc[t] = "join" => tcpSocket = NoConnection

\* The courses, position by position.
LEMMA ClientCourse ==
  /\ UserAhead["joinWatchdog"] = 6 /\ UserAhead["lock"] = 5 /\ UserAhead["teardown"] = 4
  /\ UserAhead["close"] = 3 /\ UserAhead["join"] = 2 /\ UserAhead["stopUdp"] = 1
  /\ UserAhead["idle"] = 0
  /\ WatchdogAhead["lock"] = 13 /\ WatchdogAhead["teardown"] = 12
  /\ WatchdogAhead["close"] = 11 /\ WatchdogAhead["join"] = 10
  /\ WatchdogAhead["stopUdp"] = 9 /\ WatchdogAhead["startUdp"] = 8
  /\ WatchdogAhead["connectTcp"] = 7 /\ WatchdogAhead["register"] = 6
  /\ WatchdogAhead["startReceiver"] = 5 /\ WatchdogAhead["connected"] = 4
  /\ WatchdogAhead["sleep"] = 3 /\ WatchdogAhead["check"] = 2
  /\ WatchdogAhead["done"] = 1 /\ WatchdogAhead["none"] = 0
  /\ ReceiverAhead["receive"] = 3 /\ ReceiverAhead["failed"] = 2 /\ ReceiverAhead["loop"] = 2
  /\ ReceiverAhead["done"] = 1 /\ ReceiverAhead["none"] = 0
  BY DEF UserAhead, WatchdogAhead, ReceiverAhead

\* The user's steps: forwards in Disconnect, and not at all into the receiver.
LEMMA UserGoesOn ==
  ASSUME ClientInv, WatchedInv, User
  PROVE  WatchedInv' /\ (call = "disconnect" /\ pc["user"] # "idle" => DisconnectingStep)
<1> USE DEF Threads
<1>0. /\ UNCHANGED <<receiverPc, isRunning, hasFailedUnexpectedly, tcpSocket, tcpMessageReceiver>>
      /\ TypeOK /\ CallInv
  BY DEF User, receiverVars, ClientInv
<1>1. CASE Poll
  BY <1>0, <1>1 DEF Poll, mutexVars, WatchedInv
<1>2. CASE CallConnect
  <2>1. /\ pc["user"] = "idle" /\ pc'["user"] = "lock" /\ pc'["watchdog"] = pc["watchdog"]
        /\ UNCHANGED <<connectionState, isWatchdogRunning>>
    BY <1>0, <1>2, StepEffect DEF CallConnect, Step, UserPcs, mutexVars
  <2>2. connectionState # "Disconnected" => call # "disconnect"
    BY <2>1 DEF ClientInv, DisconnectIsFinal
  <2> QED
    BY <1>0, <2>1, <2>2 DEF WatchedInv
<1>3. CASE CallDisconnect
  <2>1. /\ pc["user"] = "idle" /\ pc'["user"] = "joinWatchdog" /\ pc'["watchdog"] = pc["watchdog"]
        /\ call' = "disconnect" /\ isWatchdogRunning' = FALSE
    BY <1>0, <1>3, StepEffect DEF CallDisconnect, Step, UserPcs
  <2> QED
    BY <1>0, <2>1 DEF WatchedInv
<1>4. CASE JoinWatchdog
  <2>1. /\ pc["user"] = "joinWatchdog" /\ pc["watchdog"] \in {"none", "done"}
        /\ pc'["user"] = "lock" /\ pc'["watchdog"] = "none"
        /\ UNCHANGED <<connectionState, isWatchdogRunning, call>>
    BY <1>0, <1>4 DEF JoinWatchdog, TypeOK, mutexVars, userVars
  <2>2. WatchedInv'
    BY <1>0, <2>1 DEF WatchedInv
  <2> QED
    BY <2>1, <2>2, ClientCourse DEF DisconnectingStep, UserOn, WatchdogOn
<1>5. CASE UserLock
  <2>1. /\ pc["user"] = "lock" /\ pc'["watchdog"] = pc["watchdog"]
        /\ pc'["user"] \in {"startUdp", "teardown"}
        /\ call = "disconnect" => pc'["user"] = "teardown"
        /\ UNCHANGED <<connectionState, isWatchdogRunning, call>>
    BY <1>0, <1>5, StepEffect DEF UserLock, Step, UserPcs, Holding, userVars
  <2>2. WatchedInv'
    BY <1>0, <2>1 DEF WatchedInv
  <2> QED
    BY <2>1, <2>2, ClientCourse DEF DisconnectingStep, UserOn, WatchdogOn
<1>6. CASE StartWatchdog
  <2>1. /\ pc["user"] = "startWatchdog" /\ pc'["user"] = "idle" /\ isWatchdogRunning' = TRUE
        /\ pc'["watchdog"] = IF isWatchdogRunning THEN pc["watchdog"] ELSE "check"
    BY <1>0, <1>6 DEF StartWatchdog, TypeOK
  <2>2. call # "disconnect"
    BY <1>0, <2>1 DEF CallInv
  <2>3. pc'["watchdog"] = pc["watchdog"] \/ ~isWatchdogRunning
    BY <2>1
  <2>4. ~isWatchdogRunning => pc["watchdog"] = "none"
    BY <1>0, <2>1 DEF CallInv
  <2>5. \A t \in Threads : pc'[t] \in {"close", "join"} <=> pc[t] \in {"close", "join"}
    BY <2>1, <2>3, <2>4
  <2>6. \A t \in Threads : pc'[t] = "join" => pc[t] = "join"
    BY <2>1, <2>3, <2>4
  <2>7. pc'["watchdog"] \notin {"none", "done"}
    BY <2>1 DEF WatchedInv
  <2> QED
    BY <1>0, <2>1, <2>2, <2>5, <2>6, <2>7 DEF WatchedInv
<1>7. CASE (SendPlay \/ OnPlay) /\ UNCHANGED <<mutexVars, isWatchdogRunning, userVars>>
  <2>0. UNCHANGED <<connectionState, isWatchdogRunning, call>>
    BY <1>7 DEF mutexVars, userVars
  <2>1. /\ pc["user"] \in {"idle", "onPlay"} /\ pc'["user"] \in {"idle", "onPlay"}
        /\ pc'["watchdog"] = pc["watchdog"]
    BY <1>0, <1>7, StepEffect DEF SendPlay, OnPlay, Step, UserPcs
  <2>2. WatchedInv'
    BY <1>0, <2>0, <2>1 DEF WatchedInv
  <2> QED
    BY <1>0, <2>1, <2>2 DEF CallInv
<1>8. CASE CloseGate /\ UNCHANGED <<mutexVars, isWatchdogRunning, userVars>>
  <2>1. pc["user"] = "idle" /\ UNCHANGED <<connectionState, isWatchdogRunning, call, pc>>
    BY <1>8, Zenon DEF CloseGate, mutexVars, userVars
  <2> QED
    BY <1>0, <2>1 DEF WatchedInv
<1> QED
  BY <1>1, <1>2, <1>3, <1>4, <1>5, <1>6, <1>7, <1>8 DEF User

\* The watchdog's steps, by the flag that Disconnect has taken from it.
LEMMA WatchdogGoesOn ==
  ASSUME ClientInv, WatchedInv, Watchdog
  PROVE  /\ WatchedInv' /\ UNCHANGED receiverPc
         /\ call = "disconnect" => DisconnectingStep
<1> USE DEF Threads
<1>0. /\ UNCHANGED <<receiverPc, isRunning, hasFailedUnexpectedly, tcpSocket, call>>
      /\ UNCHANGED <<isWatchdogRunning, connectionState, tcpMessageReceiver>>
      /\ TypeOK /\ (call = "disconnect" => ~isWatchdogRunning)
  BY DEF Watchdog, WatchdogCheck, WatchdogWakes, WatchdogLock, mutexVars, receiverVars, userVars,
     ClientInv, CallInv
<1>1. /\ pc'["user"] = pc["user"]
      /\ \/ /\ pc["watchdog"] = "check"
            /\ pc'["watchdog"] = IF isWatchdogRunning THEN "sleep" ELSE "done"
         \/ /\ pc["watchdog"] = "sleep"
            /\ pc'["watchdog"] = IF isWatchdogRunning THEN "lock" ELSE "done"
         \/ pc["watchdog"] = "lock" /\ pc'["watchdog"] \in {"teardown", "startUdp", "check"}
  BY <1>0, StepEffect DEF Watchdog, WatchdogCheck, WatchdogWakes, WatchdogLock, Unlock, Step,
     WatchdogPcs, Holding
<1>2. WatchedInv'
  BY <1>0, <1>1 DEF WatchedInv
<1>3. ~isWatchdogRunning => WatchdogAhead[pc'["watchdog"]] < WatchdogAhead[pc["watchdog"]]
  BY <1>1, ClientCourse
<1>4. call = "disconnect" => DisconnectingStep
  BY <1>0, <1>1, <1>3 DEF DisconnectingStep, UserOn, WatchdogOn
<1> QED
  BY <1>0, <1>2, <1>4

\* Of the two threads the holder of the mutex is the only one to take a connection down or
\* set one up.
LEMMA HolderAlone ==
  ASSUME ClientInv, NEW t \in Threads, Teardown(t) \/ ConnectLocked(t)
  PROVE  /\ pc[t] \in Holding /\ \A o \in Threads \ {t} : pc[o] \notin Held
         /\ UNCHANGED <<isWatchdogRunning, call>> /\ TypeOK /\ CallInv
<1>1. pc[t] \in Holding
  BY DEF Teardown, StopReceiver, CloseSocket, JoinReceiver, StopUdp, AfterTeardown, ConnectLocked,
     StartUdp, ConnectTcp, Register, StartReceiver, ReportConnected, ConnectFails, Unlock, Step,
     Holding
<1> QED
  BY <1>1, Exclusion DEF Held, Teardown, ConnectLocked, userVars, ClientInv

\* A teardown goes forwards, in Disconnect and in a reconnect.
LEMMA TeardownGoesOn ==
  ASSUME ClientInv, WatchedInv, NEW t \in Threads, Teardown(t)
  PROVE  /\ WatchedInv' /\ ReceiverOn
         /\ call = "disconnect" /\ pc["user"] # "idle" => DisconnectingStep
<1> USE DEF Threads
<1>0. /\ pc[t] \in Holding /\ \A o \in Threads \ {t} : pc[o] \notin Held
      /\ UNCHANGED <<isWatchdogRunning, call>> /\ TypeOK /\ CallInv
  BY HolderAlone
<1>1. CASE StopReceiver(t)
  <2>1. /\ pc[t] = "teardown" /\ pc'[t] \in {"close", "stopUdp"}
        /\ pc'[t] = "stopUdp" => tcpMessageReceiver = NoConnection
        /\ \A o \in Threads \ {t} : pc'[o] = pc[o]
        /\ isRunning' = FALSE
        /\ UNCHANGED <<connectionState, receiverPc, tcpSocket, tcpMessageReceiver>>
    BY <1>0, <1>1, StepEffect DEF StopReceiver, Step, mutexVars, UserPcs, WatchdogPcs, Holding
  <2>2. WatchedInv'
    BY <1>0, <2>1 DEF WatchedInv
  <2>3. UserOn /\ WatchdogOn
    BY <2>1, ClientCourse DEF UserOn, WatchdogOn
  <2> QED
    BY <1>0, <2>1, <2>2, <2>3 DEF DisconnectingStep, ReceiverOn
<1>2. CASE CloseSocket(t)
  <2>1. /\ pc[t] = "close" /\ pc'[t] = "join" /\ \A o \in Threads \ {t} : pc'[o] = pc[o]
        /\ tcpSocket' = NoConnection
        /\ UNCHANGED <<connectionState, receiverPc, isRunning, hasFailedUnexpectedly>>
        /\ UNCHANGED tcpMessageReceiver
    BY <1>0, <1>2, StepEffect DEF CloseSocket, Step, mutexVars, receiverVars, UserPcs, WatchdogPcs,
       Holding
  <2>2. WatchedInv'
    BY <1>0, <2>1 DEF WatchedInv
  <2>3. UserOn /\ WatchdogOn
    BY <2>1, ClientCourse DEF UserOn, WatchdogOn
  <2> QED
    BY <1>0, <2>1, <2>2, <2>3 DEF DisconnectingStep, ReceiverOn
<1>3. CASE JoinReceiver(t)
  <2>1. /\ pc[t] = "join" /\ pc'[t] = "stopUdp" /\ \A o \in Threads \ {t} : pc'[o] = pc[o]
        /\ receiverPc = "done" /\ receiverPc' = "none" /\ tcpMessageReceiver' = NoConnection
        /\ UNCHANGED <<connectionState, tcpSocket>>
    BY <1>0, <1>3, StepEffect DEF JoinReceiver, Step, mutexVars, UserPcs, WatchdogPcs, Holding
  <2>2. WatchedInv'
    BY <1>0, <2>1 DEF WatchedInv
  <2>3. UserOn /\ WatchdogOn /\ ReceiverOn
    BY <2>1, ClientCourse DEF UserOn, WatchdogOn, ReceiverOn
  <2> QED
    BY <1>0, <2>1, <2>2, <2>3 DEF DisconnectingStep
<1>4. CASE StopUdp(t)
  <2>1. /\ pc[t] = "stopUdp" /\ \A o \in Threads \ {t} : pc'[o] = pc[o]
        /\ \/ t = "user" /\ call = "connect" /\ pc'[t] = "startUdp" /\ UNCHANGED connectionState
           \/ t = "user" /\ call = "disconnect" /\ pc'[t] = "idle"
           \/ t = "watchdog" /\ pc'[t] = "check" /\ connectionState' = "Reconnecting"
        /\ tcpSocket' = NoConnection /\ UNCHANGED <<receiverPc, isRunning, hasFailedUnexpectedly>>
        /\ UNCHANGED tcpMessageReceiver
    BY <1>0, <1>4, StepEffect DEF StopUdp, AfterTeardown, Unlock, Step, mutexVars, receiverVars,
       UserPcs, WatchdogPcs, Holding
  <2>2. t = "watchdog" => connectionState = "Connected"
    BY <2>1 DEF ClientInv, WatchdogInv
  <2>3. WatchedInv'
    BY <1>0, <2>1, <2>2 DEF WatchedInv
  <2>4. call = "disconnect" => UserOn /\ WatchdogOn
    BY <2>1, ClientCourse DEF UserOn, WatchdogOn
  <2> QED
    BY <1>0, <2>1, <2>3, <2>4 DEF DisconnectingStep, ReceiverOn
<1> QED
  BY <1>1, <1>2, <1>3, <1>4 DEF Teardown

\* An attempt to connect ends with a connection that is watched, or without one.
LEMMA ConnectGoesOn ==
  ASSUME ClientInv, WatchedInv, NEW t \in Threads, ConnectLocked(t)
  PROVE  /\ WatchedInv' /\ ~(\E o \in Threads : pc[o] = "join")
         /\ call = "disconnect" /\ pc["user"] # "idle" => DisconnectingStep
<1> USE DEF Threads
<1>0. /\ pc[t] \in Holding /\ \A o \in Threads \ {t} : pc[o] \notin Held
      /\ UNCHANGED <<isWatchdogRunning, call>> /\ TypeOK /\ CallInv
  BY HolderAlone
<1>1. /\ pc[t] \in {"startUdp", "connectTcp", "register", "startReceiver", "connected"}
      /\ \A o \in Threads \ {t} : pc'[o] = pc[o]
      /\ \/ pc'[t] = IF t = "user" THEN "idle" ELSE "check"
         \/ pc[t] = "startUdp" /\ pc'[t] = "connectTcp"
         \/ pc[t] = "connectTcp" /\ pc'[t] = "register"
         \/ pc[t] = "register" /\ pc'[t] = "startReceiver"
         \/ pc[t] = "startReceiver" /\ pc'[t] = "connected"
         \/ t = "user" /\ pc[t] = "connected" /\ pc'[t] = "startWatchdog"
  BY <1>0, StepEffect DEF ConnectLocked, StartUdp, ConnectTcp, Register, StartReceiver,
     ReportConnected, ConnectFails, Unlock, Step, UserPcs, WatchdogPcs, Holding
<1>2. ~(\E o \in Threads : pc[o] = "join")
  BY <1>0, <1>1 DEF Held, Holding
<1>3. t = "user" => call = "connect"
  BY <1>0, <1>1 DEF CallInv, TypeOK
<1>4. t = "watchdog" => connectionState = "Reconnecting"
  BY <1>1 DEF ClientInv, WatchdogInv
<1>5. connectionState' # "Disconnected" /\ pc'["user"] # "startWatchdog" =>
        connectionState # "Disconnected" /\ pc["user"] # "startWatchdog"
  <2>1. pc["user"] # "startWatchdog"
    BY <1>0, <1>1 DEF Held
  <2>2. ReportConnected(t) /\ t = "user" => pc'["user"] = "startWatchdog"
    BY <1>0, StepEffect DEF ReportConnected, Step, UserPcs, Holding
  <2>3. ~ReportConnected(t) => UNCHANGED connectionState
    BY DEF ConnectLocked, StartUdp, ConnectTcp, Register, StartReceiver, ConnectFails, mutexVars
  <2> QED
    BY <1>4, <2>1, <2>2, <2>3
<1>6. receiverPc' = "done" /\ isRunning' =>
        receiverPc = "done" /\ isRunning /\ hasFailedUnexpectedly' = hasFailedUnexpectedly
  BY DEF ConnectLocked, StartUdp, ConnectTcp, Register, StartReceiver, ReportConnected, receiverVars
<1>7. WatchedInv'
  <2>3. tcpMessageReceiver' # NoConnection =>
         isRunning' \/ UNCHANGED <<tcpMessageReceiver, isRunning>>
    BY DEF ConnectLocked, StartUdp, ConnectTcp, Register, StartReceiver, ReportConnected,
       receiverVars
  <2>4. tcpMessageReceiver # NoConnection => isRunning
    BY <1>0, <1>1 DEF WatchedInv, Held, Holding
  <2>1. isWatchdogRunning' => pc'["watchdog"] \notin {"none", "done"}
    BY <1>0, <1>1 DEF WatchedInv
  <2>2. \A o \in Threads : pc'[o] # "join"
    BY <1>1, <1>2
  <2> QED
    BY <1>0, <1>5, <1>6, <2>1, <2>2, <2>3, <2>4 DEF WatchedInv
<1>8. call = "disconnect" => DisconnectingStep
  <2>1. ASSUME call = "disconnect"
        PROVE  t = "watchdog" /\ WatchdogAhead[pc'["watchdog"]] < WatchdogAhead[pc["watchdog"]]
    BY <1>1, <1>3, <2>1, ClientCourse
  <2> QED
    BY <1>0, <1>1, <2>1 DEF DisconnectingStep, UserOn, WatchdogOn
<1> QED
  BY <1>2, <1>7, <1>8

\* A receiver on a closed socket takes nothing more from it.
LEMMA ReceiverGoesOn ==
  ASSUME ClientInv, WatchedInv, ReceiveWorker
  PROVE  /\ WatchedInv' /\ UNCHANGED <<pc, call>>
         /\ (\E t \in Threads : pc[t] = "join") => ReceiverOn
<1>1. UNCHANGED <<pc, call, connectionState, isWatchdogRunning, tcpSocket, isRunning>>
  BY DEF ReceiveWorker, mutexVars, userVars
<1>2. receiverPc' = "done" /\ isRunning' => hasFailedUnexpectedly'
  <2>1. CASE ReceiverEnds
    BY <1>1, <2>1, Zenon DEF ReceiverEnds
  <2>2. CASE ~ReceiverEnds
    BY <1>1, <2>2 DEF ReceiveWorker, ReceiverLoop, ReceiveSpawn, ReceiveDespawn, ReceiveFails,
       ReceiverStep
  <2> QED
    BY <2>1, <2>2
<1>3. WatchedInv'
  BY <1>1, <1>2 DEF WatchedInv, ReceiveWorker
<1>4. ASSUME NEW t \in Threads, pc[t] = "join" PROVE ReceiverOn
  <2>1. tcpSocket = NoConnection /\ ~isRunning
    BY <1>4 DEF WatchedInv, ClientInv, PositionInv
  <2>2. \/ receiverPc = "loop" /\ receiverPc' = "done"
        \/ receiverPc = "receive" /\ receiverPc' = "failed"
        \/ receiverPc = "failed" /\ receiverPc' = "done"
    BY <2>1 DEF ReceiveWorker, ReceiverLoop, ReceiveSpawn, ReceiveDespawn, ReceiveFails,
       ReceiverEnds,
       ReceiverStep
  <2> QED
    BY <2>2, ClientCourse DEF ReceiverOn
<1> QED
  BY <1>1, <1>3, <1>4

\* Every step keeps the watch, and goes forwards where it has to.
LEMMA ClientGoesOn ==
  ClientInv /\ WatchedInv /\ [Next]_vars => WatchedInv' /\ [ForwardStep]_vars
<1> SUFFICES ASSUME ClientInv, WatchedInv, [Next]_vars PROVE WatchedInv' /\ [ForwardStep]_vars
  OBVIOUS
<1>0. "join" \in {pc["user"], pc["watchdog"]} <=> \E t \in Threads : pc[t] = "join"
  BY DEF Threads
<1>1. CASE User
  <2>1. ReceiverOn
    BY <1>1 DEF User, receiverVars, ReceiverOn
  <2> QED
    BY <1>1, <2>1, UserGoesOn DEF ForwardStep
<1>2. CASE Watchdog
  BY <1>2, WatchdogGoesOn DEF ForwardStep, ReceiverOn
<1>3. ASSUME NEW t \in Threads, Teardown(t) PROVE WatchedInv' /\ ForwardStep
  BY <1>3, TeardownGoesOn DEF ForwardStep
<1>4. ASSUME NEW t \in Threads, ConnectLocked(t) PROVE WatchedInv' /\ ForwardStep
  BY <1>0, <1>4, ConnectGoesOn DEF ForwardStep
<1>5. CASE ReceiveWorker
  BY <1>0, <1>5, ReceiverGoesOn DEF ForwardStep, DisconnectingStep, UserOn, WatchdogOn
<1>6. CASE Clock \/ \E c \in Connections : Break(c) \/ ReceiveState(c)
  <2>1. /\ UNCHANGED <<pc, call, connectionState, isWatchdogRunning, tcpSocket, receiverPc>>
        /\ UNCHANGED <<isRunning, hasFailedUnexpectedly, tcpMessageReceiver>>
    BY <1>6 DEF Clock, RetryTimePasses, Break, ReceiveState, mutexVars, userVars, receiverVars
  <2>2. WatchedInv'
    BY <2>1 DEF WatchedInv
  <2> QED
    BY <1>6, <2>1, <2>2 DEF ForwardStep, DisconnectingStep, UserOn, WatchdogOn, ReceiverOn
<1>7. CASE UNCHANGED vars
  BY <1>7 DEF vars, mutexVars, userVars, receiverVars, WatchedInv
<1> QED
  BY <1>1, <1>2, <1>3, <1>4, <1>5, <1>6, <1>7 DEF Next, Threads

\* The watch is kept in every reachable state.
LEMMA WatchInvariance == Spec => [](ClientInv /\ WatchedInv)
<1>1. Init => WatchedInv
  BY DEF Init, WatchedInv, Threads
<1> QED
  BY <1>1, ClientGoesOn, Invariance, PTL DEF Spec

\* No call of the user and no reconnect of the watchdog can be stuck: the threads, the
\* mutex and the joins never form a circle.
THEOREM NoCircle == Spec => []NobodyWaitsInACircle
<1>1. ClientInv /\ WatchedInv => NobodyWaitsInACircle
  <2> SUFFICES ASSUME ClientInv, WatchedInv PROVE NobodyWaitsInACircle
    OBVIOUS
  <2>1. TypeOK /\ MutexInv /\ CallInv /\ PositionInv /\ ReceiverInv
    BY DEF ClientInv
  <2>2. ASSUME NEW t \in Threads, pc[t] = "join" PROVE OnTheMove(t)
    <3>1. tcpSocket = NoConnection /\ receiverPc # "none"
      BY <2>1, <2>2 DEF WatchedInv, PositionInv, ReceiverInv
    <3>2. receiverPc \in {"loop", "receive", "failed", "done"}
      BY <2>1, <3>1 DEF TypeOK
    <3> QED
      BY <2>2, <3>1, <3>2 DEF OnTheMove, CanStep, ReceiverCanEnd
  <2>3. ASSUME NEW t \in Threads, pc[t] \notin {"idle", "none", "done", "lock", "joinWatchdog"}
        PROVE  OnTheMove(t)
    BY <2>2, <2>3 DEF OnTheMove, CanStep
  <2>4. ASSUME NEW t \in Threads, pc[t] = "lock", ~OnTheMove(t)
        PROVE  \E o \in Threads \ {t} : connectionMutex = o /\ OnTheMove(o)
    <3>1. connectionMutex \in Threads \ {t}
      BY <2>1, <2>4 DEF OnTheMove, CanStep, TypeOK, MutexInv, Held, Holding, Threads
    <3>2. pc[connectionMutex] \in Held
      BY <2>1, <3>1 DEF MutexInv
    <3> QED
      BY <2>3, <3>1, <3>2 DEF Held, Holding
  <2>5. pc["user"] = "joinWatchdog" => OnTheMove("user") \/ OnTheMove("watchdog")
    <3> SUFFICES ASSUME pc["user"] = "joinWatchdog", ~OnTheMove("user") PROVE OnTheMove("watchdog")
      OBVIOUS
    <3>1. pc["watchdog"] \notin {"none", "done", "idle", "joinWatchdog"}
      BY <2>1 DEF OnTheMove, CanStep, TypeOK, WatchdogPcs, Holding
    <3>2. connectionMutex # "user"
      BY <2>1 DEF MutexInv, Held, Holding, Threads
    <3> QED
      BY <2>3, <2>4, <3>1, <3>2 DEF Threads
  <2>6. pc["watchdog"] \notin {"idle", "joinWatchdog"} /\ pc["user"] \notin {"none", "done"}
    BY <2>1 DEF TypeOK, UserPcs, WatchdogPcs, Holding
  <2> QED
    BY <2>3, <2>4, <2>5, <2>6 DEF NobodyWaitsInACircle, Threads
<1> QED
  BY <1>1, WatchInvariance, PTL

\* Disconnect only goes forwards, and takes the watchdog and the receiver with it.
THEOREM DisconnectGoesForwards == Spec => DisconnectRunsDown
  BY ClientGoesOn, WatchInvariance, PTL DEF Spec, DisconnectRunsDown

\* A connection that is wanted and reported is watched, and its failure leaves a mark.
THEOREM FailureIsMarked == Spec => []FailureReachesWatchdog
<1>1. ClientInv /\ WatchedInv => FailureReachesWatchdog
  <2> SUFFICES ASSUME ClientInv, WatchedInv, call = "connect", connectionState # "Disconnected",
                      connectionMutex = "none"
               PROVE  /\ isWatchdogRunning /\ pc["watchdog"] \in {"check", "sleep", "lock"}
                      /\ receiverPc = "done" => LostConnection
    BY DEF FailureReachesWatchdog
  <2>1. \A t \in Threads : pc[t] \notin Held
    BY DEF ClientInv, MutexInv, Threads
  <2>2. isWatchdogRunning
    BY <2>1 DEF WatchedInv, Held, Threads
  <2>3. pc["watchdog"] \in {"check", "sleep", "lock"}
    BY <2>1, <2>2 DEF WatchedInv, ClientInv, TypeOK, WatchdogPcs, Held, Threads
  <2>4. receiverPc = "done" => LostConnection
    BY <2>1 DEF WatchedInv, ClientInv, ReceiverInv, LostConnection, Held, Holding, Threads
  <2> QED
    BY <2>2, <2>3, <2>4
<1> QED
  BY <1>1, WatchInvariance, PTL

=============================================================================
