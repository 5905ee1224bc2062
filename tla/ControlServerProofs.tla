------------------------ MODULE ControlServerProofs ------------------------
(***************************************************************************)
(* Proofs about ControlServer, for every number of connections, every set  *)
(* of ports and commands and every bound on the messages.                  *)
(***************************************************************************)
EXTENDS ControlServer, FiniteSetTheorems, TLAPS

-----------------------------------------------------------------------------
(* The inductive invariant, part by part *)

\* isRunning_, the listener and the two long-lived threads follow the main thread.
MainInv ==
  /\ isRunning <=> mainPc = "running"
  /\ listener = (IF mainPc = "start" THEN "none"
                 ELSE IF mainPc \in {"running", "closeListener"} THEN "open" ELSE "closed")
  /\ acceptPc = "none" <=> mainPc = "start"
  /\ mainPc \in {"waitWorkers", "stopped"} => acceptPc = "done"

\* The connection being accepted has no worker yet.
AcceptInv ==
  /\ accepted # NoSession <=> acceptPc \in {"check", "addSession", "countWorker", "startWorker"}
  /\ accepted \in Sessions => workerPc[accepted] = "none"

\* Workers that activeControlWorkerCount_ counts: those alive, and the next one.
Counted ==
  { s \in Sessions : \/ workerPc[s] \notin {"none", "done"}
                     \/ s = accepted /\ acceptPc = "startWorker" }

CountInv == activeControlWorkerCount = Cardinality(Counted)

\* Closing the listener leaves no connection queued.
BacklogInv == listener = "closed" => \A s \in Sessions : ~InBacklog(s)

\* The end of Stop.
StoppedInv == mainPc = "stopped" => \A s \in Sessions : workerPc[s] \in {"none", "done"}

\* The worker's flag, its position and the endpoint of its session.
RegistrationInv ==
  \A s \in Sessions :
    /\ isUdpEndpointRegistered[s] => workerPc[s] # "none" /\ HasUdpEndpoint(session[s])
    /\ workerPc[s] \in Spawning \union {"despawnSnapshot", "despawn"} => isUdpEndpointRegistered[s]

ControlInv ==
  /\ TypeOK
  /\ MainInv
  /\ AcceptInv
  /\ SessionsMatchWorkers
  /\ StopUnblocksReceivers
  /\ BacklogInv
  /\ StoppedInv
  /\ DepartedIsStopped
  /\ RegistrationInv
  /\ PlayingHasEndpoint

\* a has taken its Spawn snapshot.
Snapped(a) == isUdpEndpointRegistered[a] /\ workerPc[a] \notin {"none", "spawnSnapshot"}

\* What a still owes its own client about b, and b's client about itself.
ToldAboutOther(a, b) ==
  \/ workerPc[a] = "spawnSelf"
  \/ workerPc[a] = "spawnOthers" /\ b \in todo[a]
  \/ ~Reachable(a)
  \/ InLog(EntitySpawn(b), a)

AnnouncedTo(a, b) ==
  \/ workerPc[a] \in {"spawnSelf", "spawnOthers"}
  \/ workerPc[a] = "announce" /\ b \in todo[a]
  \/ ~Reachable(b)
  \/ InLog(EntitySpawn(a), b)

\* A session in use has a client that connected.
ConnectedInv ==
  \A s \in Sessions :
    client[s] = "idle" => workerPc[s] = "none" /\ s # accepted

\* A client registers once, before anything else it sends.
RegisterOnce ==
  \A s \in Sessions :
    /\ sentCount[s] = 0 => inbox[s] = <<>> /\ message[s] = NoMessage /\ ~isUdpEndpointRegistered[s]
    /\ \A i \in DOMAIN inbox[s] :
         inbox[s][i].type = "RegisterUdpPort" =>
           i = 1 /\ message[s] = NoMessage /\ ~isUdpEndpointRegistered[s]
    /\ workerPc[s] = "process" /\ message[s].type = "RegisterUdpPort" => ~isUdpEndpointRegistered[s]

\* A snapshot holds other sessions that were added before it was taken, and only a
\* session that registered ever takes one.
Added(b) == workerPc[b] # "none" \/ (b = accepted /\ acceptPc \in {"countWorker", "startWorker"})

SnapshotMembers ==
  \A a \in Sessions :
    /\ ~isUdpEndpointRegistered[a] => snapshot[a] = {}
    /\ \A b \in snapshot[a] : b # a /\ Added(b)

\* Of two sessions that took their snapshots, the later one has seen the earlier.
SnapshotInv ==
  \A a, b \in sessions :
    a # b /\ Snapped(a) /\ Snapped(b) => b \in snapshot[a] \/ a \in snapshot[b]

SpawnInv ==
  \A a, b \in Sessions :
    Snapped(a) /\ b \in snapshot[a] => ToldAboutOther(a, b) /\ AnnouncedTo(a, b)

DespawnInv ==
  \A a \in Sessions : \A b \in sessions :
    workerPc[a] = "despawn" /\ b \in snapshot[a] /\ Reachable(b) =>
      b \in todo[a] \/ InLog(EntityDespawn(a), b)

PresenceInv ==
  ConnectedInv /\ RegisterOnce /\ SnapshotMembers /\ SnapshotInv /\ SpawnInv /\ DespawnInv
    /\ DepartureTold

-----------------------------------------------------------------------------
(* The methods of ClientSession *)

\* Every method maps a session object to a session object.
LEMMA StopSessionType == \A cs \in ClientSessionType : StopSession(cs) \in ClientSessionType
  BY DEF StopSession, ClientSessionType, SessionStates

\* Registering an endpoint yields a session object.
LEMMA RegisterType ==
  \A cs \in ClientSessionType : \A port \in Nat : RegisterUdpEndpoint(cs, port) \in ClientSessionType
  BY DEF RegisterUdpEndpoint, ClientSessionType

\* Every command yields a session object.
LEMMA ExecuteType ==
  ASSUME NEW cs \in ClientSessionType, NEW m, m.arg \in Nat
  PROVE  Execute(cs, m) \in ClientSessionType
<1>1. /\ Play(cs) \in ClientSessionType
      /\ Pause(cs) \in ClientSessionType
      /\ Reset(cs) \in ClientSessionType
      /\ SetRate(cs, m.arg) \in ClientSessionType
  BY DEF Play, Pause, Reset, SetRate, ClientSessionType, SessionStates, DataRates
<1>2. StopState(cs) \in ClientSessionType
  BY DEF StopState, ClientSessionType, SessionStates
<1>3. \A x \in ClientSessionType : StopSequence(x) \in ClientSessionType
  BY DEF StopSequence, ClientSessionType
<1>4. 0 \in Controls
  BY DEF Controls, ControlLimit
<1>5. \A x \in ClientSessionType : StopEntity(x) \in ClientSessionType
  BY <1>4 DEF StopEntity, ClientSessionType
<1>6. Stop(cs) \in ClientSessionType
  BY <1>2, <1>3, <1>5 DEF Stop
<1> QED
  BY <1>1, <1>6 DEF Execute

\* What the methods do to the streaming state and to the endpoint.
LEMMA StopSessionEffect ==
  \A cs \in ClientSessionType :
    StopSession(cs).state = "Stopped" /\ StopSession(cs).udpPort = cs.udpPort
  BY DEF StopSession, ClientSessionType

\* RegisterUdpEndpoint sets the port and leaves the streaming state alone.
LEMMA RegisterEffect ==
  \A cs \in ClientSessionType : \A port \in Nat :
    /\ RegisterUdpEndpoint(cs, port).udpPort = port
    /\ RegisterUdpEndpoint(cs, port).state = cs.state
  BY DEF RegisterUdpEndpoint, ClientSessionType

\* No command changes the registered port.
LEMMA ExecuteEffect ==
  ASSUME NEW cs \in ClientSessionType, NEW m
  PROVE  Execute(cs, m).udpPort = cs.udpPort
<1>1. /\ Play(cs).udpPort = cs.udpPort
      /\ Pause(cs).udpPort = cs.udpPort
      /\ Reset(cs).udpPort = cs.udpPort
      /\ SetRate(cs, m.arg).udpPort = cs.udpPort
  BY DEF Play, Pause, Reset, SetRate, ClientSessionType
<1>2. Stop(cs).udpPort = cs.udpPort
  BY DEF Stop, StopState, StopSequence, StopEntity, ClientSessionType
<1> QED
  BY <1>1, <1>2 DEF Execute

\* A session object starts with the header's member initialisers.
LEMMA NewClientSessionType == NewClientSession \in ClientSessionType
  BY DEF NewClientSession, ClientSessionType, SessionStates, DataRates, NoPort, Controls,
         ControlLimit

\* Whatever a client sends has a numeric argument.
LEMMA MessageArguments ==
  \A m \in ClientMessages \union {NoMessage} : m.arg \in Nat
  BY InputAssumption DEF ClientMessages, RegisterUdpPort, NoMessage, Message

\* Writing to a control connection keeps every log a sequence of server messages.
LEMMA SendType ==
  ASSUME TypeOK, NEW d \in Sessions, NEW m \in ServerMessages, Send(d, m)
  PROVE  log' \in [Sessions -> Seq(ServerMessages)]
  BY DEF Send, TypeOK

\* What the server sends are server messages.
LEMMA ServerMessageType ==
  \A s \in Sessions : EntitySpawn(s) \in ServerMessages /\ EntityDespawn(s) \in ServerMessages
  BY DEF EntitySpawn, EntityDespawn, ServerMessages

-----------------------------------------------------------------------------
(* Type correctness *)

\* Start and Stop preserve the types.
LEMMA MainType == TypeOK /\ Main => TypeOK'
<1> SUFFICES ASSUME TypeOK, Main PROVE TypeOK'
  OBVIOUS
<1>0. UNCHANGED <<accepted, sessions, activeControlWorkerCount, workerPc, message,
                  isUdpEndpointRegistered, inbox, snapshot, todo, log, client, sentCount>>
  BY DEF Main, messageVars, broadcastVars, clientVars
<1>1. ASSUME NEW s \in Sessions, StopOneSession(s) PROVE TypeOK'
  <2>1. StopSession(session[s]) \in ClientSessionType
    BY StopSessionType DEF TypeOK
  <2> QED
    BY <1>0, <1>1, <2>1 DEF StopOneSession, MainStep, TypeOK, MainPcs
<1> QED
  BY <1>0, <1>1 DEF Main, Start, StopBegin, CloseListener, StopSnapshot, StopSessionsDone,
     JoinAcceptThread, WaitWorkers, MainStep, TypeOK, MainPcs, AcceptPcs

\* The accept thread preserves the types.
LEMMA AcceptType == TypeOK /\ AcceptInv /\ AcceptWorker => TypeOK'
<1> SUFFICES ASSUME TypeOK, AcceptInv, AcceptWorker PROVE TypeOK'
  OBVIOUS
<1>0. UNCHANGED <<isRunning, listener, mainPc, stopping, session, message,
                  isUdpEndpointRegistered, inbox, snapshot, todo, log, client, sentCount>>
  BY DEF AcceptWorker, mainVars, messageVars, broadcastVars, clientVars
<1>1. CASE AcceptLoop
  BY <1>0, <1>1 DEF AcceptLoop, AcceptStep, TypeOK, AcceptPcs
<1>2. CASE AcceptFails
  BY <1>0, <1>2 DEF AcceptFails, AcceptStep, TypeOK, AcceptPcs
<1>3. CASE AcceptCheck
  BY <1>0, <1>3 DEF AcceptCheck, AcceptStep, TypeOK, AcceptPcs, AcceptInv
<1>4. ASSUME NEW s \in Sessions, Accept(s) PROVE TypeOK'
  BY <1>0, <1>4 DEF Accept, AcceptStep, TypeOK, AcceptPcs
<1>5. CASE AddSession
  BY <1>0, <1>5 DEF AddSession, AcceptStep, TypeOK, AcceptPcs, AcceptInv
<1>6. CASE CountWorker
  BY <1>0, <1>6 DEF CountWorker, AcceptStep, TypeOK, AcceptPcs
<1>7. CASE StartWorker
  BY <1>0, <1>7 DEF StartWorker, AcceptStep, TypeOK, AcceptPcs, WorkerPcs, Serving
<1> QED
  BY <1>1, <1>2, <1>3, <1>4, <1>5, <1>6, <1>7 DEF AcceptWorker

\* A control worker preserves the types.
LEMMA WorkerType ==
  ASSUME TypeOK, NEW s \in Sessions, ControlWorker(s)
  PROVE  TypeOK'
<1>0. UNCHANGED <<isRunning, listener, mainPc, stopping, acceptPc, accepted, client, sentCount>>
  BY DEF ControlWorker, mainVars, acceptVars, clientVars
<1>1. Leave(s) \in WorkerPcs
  BY DEF Leave, WorkerPcs, Departing
<1> USE DEF WorkerStep, sessionVars, messageVars, broadcastVars
<1>2. CASE WorkerLoop(s)
  BY <1>0, <1>1, <1>2 DEF WorkerLoop, TypeOK, WorkerPcs, Serving
<1>3. CASE ReceiveFails(s)
  BY <1>0, <1>1, <1>3 DEF ReceiveFails, TypeOK
<1>4. CASE Receive(s)
  BY <1>0, <1>4 DEF Receive, TypeOK, WorkerPcs, Serving
<1>5. CASE ProcessRegister(s)
  <2>1. message[s].arg \in Nat
    BY MessageArguments DEF TypeOK
  <2>2. RegisterUdpEndpoint(session[s], message[s].arg) \in ClientSessionType
    BY <2>1, RegisterType DEF TypeOK
  <2> QED
    BY <1>0, <1>5, <2>2 DEF ProcessRegister, TypeOK, WorkerPcs, Serving, Spawning
<1>6. CASE ProcessIgnored(s)
  BY <1>0, <1>6 DEF ProcessIgnored, TypeOK, WorkerPcs, Serving
<1>7. CASE ProcessCommand(s)
  <2>1. Execute(session[s], message[s]) \in ClientSessionType
    BY ExecuteType, MessageArguments DEF TypeOK
  <2> QED
    BY <1>0, <1>1, <1>7, <2>1 DEF ProcessCommand, TypeOK, WorkerPcs, Serving
<1>8. CASE SpawnSnapshot(s)
  BY <1>0, <1>8 DEF SpawnSnapshot, TypeOK, WorkerPcs, Spawning
<1>9. CASE SpawnSelf(s)
  BY <1>0, <1>9, SendType, ServerMessageType DEF SpawnSelf, TypeOK, WorkerPcs, Spawning, Serving
<1>10. ASSUME NEW o \in Sessions, SpawnOther(s, o) \/ Announce(s, o) \/ Despawn(s, o)
       PROVE  TypeOK'
  <2>1. log' \in [Sessions -> Seq(ServerMessages)]
    BY <1>10, SendType, ServerMessageType DEF SpawnOther, Announce, Despawn
  <2>2. CASE SpawnOther(s, o)
    BY <1>0, <2>1, <2>2 DEF SpawnOther, TypeOK, WorkerPcs, Spawning
  <2>3. CASE Announce(s, o)
    BY <1>0, <2>1, <2>3 DEF Announce, TypeOK, WorkerPcs, Spawning, Serving
  <2>4. CASE Despawn(s, o)
    BY <1>0, <2>1, <2>4 DEF Despawn, TypeOK, WorkerPcs, Departing
  <2> QED
    BY <1>10, <2>2, <2>3, <2>4
<1>11. CASE DespawnSnapshot(s)
  BY <1>0, <1>11 DEF DespawnSnapshot, TypeOK, WorkerPcs, Departing
<1>12. CASE RemoveSession(s)
  BY <1>0, <1>12 DEF RemoveSession, TypeOK, WorkerPcs, Departing
<1>13. CASE CloseSession(s)
  <2>1. StopSession(session[s]) \in ClientSessionType
    BY StopSessionType DEF TypeOK
  <2> QED
    BY <1>0, <1>13, <2>1 DEF CloseSession, TypeOK, WorkerPcs, Departing
<1>14. CASE UncountWorker(s)
  BY <1>0, <1>14 DEF UncountWorker, TypeOK, WorkerPcs
<1> QED
  BY <1>2, <1>3, <1>4, <1>5, <1>6, <1>7, <1>8, <1>9, <1>10, <1>11, <1>12, <1>13, <1>14
     DEF ControlWorker, ProcessOneMessage, BroadcastSpawnsForNewSession, LeaveServer

\* A client preserves the types.
LEMMA ClientType ==
  ASSUME TypeOK, NEW s \in Sessions, Client(s)
  PROVE  TypeOK'
<1>0. UNCHANGED <<isRunning, listener, mainPc, stopping, acceptPc, accepted, sessions,
                  activeControlWorkerCount, session, closed, workerPc, message,
                  isUdpEndpointRegistered, snapshot, todo, log>>
  BY DEF Client, mainVars, acceptVars, sessionVars, broadcastVars
<1>1. CASE Connect(s)
  BY <1>0, <1>1 DEF Connect, TypeOK
<1>2. CASE ClientCloses(s)
  BY <1>0, <1>2 DEF ClientCloses, TypeOK
<1>3. ASSUME NEW m \in ClientMessages, ClientSends(s, m) PROVE TypeOK'
  BY <1>0, <1>3 DEF ClientSends, TypeOK
<1> QED
  BY <1>1, <1>2, <1>3 DEF Client

-----------------------------------------------------------------------------
(* The control invariant is inductive *)

\* The server starts in the control invariant, with no worker counted.
LEMMA ControlInit == Init => ControlInv /\ CountInv
<1> SUFFICES ASSUME Init PROVE ControlInv /\ CountInv
  OBVIOUS
<1>1. TypeOK
  <2>1. session \in [Sessions -> ClientSessionType]
    BY NewClientSessionType DEF Init
  <2>2. /\ inbox \in [Sessions -> Seq(ClientMessages)]
        /\ log \in [Sessions -> Seq(ServerMessages)]
        /\ message \in [Sessions -> ClientMessages \union {NoMessage}]
    BY DEF Init
  <2>3. workerPc \in [Sessions -> WorkerPcs]
    BY DEF Init, WorkerPcs
  <2>4. /\ isUdpEndpointRegistered \in [Sessions -> BOOLEAN]
        /\ snapshot \in [Sessions -> SUBSET Sessions]
        /\ todo \in [Sessions -> SUBSET Sessions]
        /\ client \in [Sessions -> {"idle", "open", "closed"}]
        /\ sentCount \in [Sessions -> Nat]
    BY DEF Init
  <2>5. isRunning \in BOOLEAN
    BY Zenon DEF Init
  <2>6. /\ listener \in {"none", "open", "closed"}
        /\ mainPc \in MainPcs /\ acceptPc \in AcceptPcs
        /\ stopping \subseteq Sessions /\ sessions \subseteq Sessions /\ closed \subseteq Sessions
        /\ accepted \in Sessions \union {NoSession}
        /\ activeControlWorkerCount \in Int
    BY DEF Init, MainPcs, AcceptPcs
  <2> QED
    BY <2>1, <2>2, <2>3, <2>4, <2>5, <2>6 DEF TypeOK
<1>2. \A s \in Sessions : session[s].state = "Stopped"
  BY DEF Init, NewClientSession
<1>3. /\ MainInv /\ AcceptInv /\ SessionsMatchWorkers /\ StopUnblocksReceivers
      /\ BacklogInv /\ StoppedInv /\ DepartedIsStopped
  BY SessionsAssumption DEF Init, MainInv, AcceptInv, SessionsMatchWorkers,
     StopUnblocksReceivers, BacklogInv, StoppedInv, DepartedIsStopped
<1>4. RegistrationInv /\ PlayingHasEndpoint
  BY <1>2 DEF Init, RegistrationInv, PlayingHasEndpoint, Spawning
<1>5. CountInv
  <2>1. Counted = {}
    BY DEF Init, Counted
  <2> QED
    BY <2>1, FS_EmptySet DEF Init, CountInv
<1> QED
  BY <1>1, <1>3, <1>4, <1>5 DEF ControlInv

\* The count is zero only when no worker is alive.
LEMMA NoWorkerCounted ==
  ASSUME CountInv, activeControlWorkerCount = 0
  PROVE  \A s \in Sessions : workerPc[s] \in {"none", "done"}
<1>1. IsFiniteSet(Counted)
  BY SessionsAssumption, FS_Subset DEF Counted
<1>2. Counted = {}
  BY <1>1, FS_EmptySet DEF CountInv
<1> QED
  BY <1>2 DEF Counted

\* Start and Stop preserve the control invariant; the wait for the count is what
\* makes it true that no worker is alive once Stop has returned.
LEMMA MainControl == ControlInv /\ CountInv /\ Main => ControlInv'
<1> SUFFICES ASSUME ControlInv, CountInv, Main PROVE ControlInv'
  OBVIOUS
<1>0. UNCHANGED <<accepted, sessions, activeControlWorkerCount, workerPc, message,
                  isUdpEndpointRegistered, inbox, snapshot, todo, log, client, sentCount>>
  BY DEF Main, messageVars, broadcastVars, clientVars
<1>t. TypeOK'
  BY MainType DEF ControlInv
<1> USE <1>0, <1>t DEF ControlInv, MainStep, MainInv, AcceptInv, SessionsMatchWorkers,
    StopUnblocksReceivers, BacklogInv, InBacklog, StoppedInv, DepartedIsStopped,
    RegistrationInv, PlayingHasEndpoint, HasUdpEndpoint
<1>1. CASE Start
  BY <1>1 DEF Start
<1>2. CASE StopBegin
  BY <1>2 DEF StopBegin
<1>3. CASE CloseListener
  BY <1>3 DEF CloseListener
<1>4. CASE StopSnapshot
  BY <1>4 DEF StopSnapshot
<1>5. ASSUME NEW s \in Sessions, StopOneSession(s) PROVE ControlInv'
  <2>1. session' = [session EXCEPT ![s] = StopSession(session[s])]
    BY <1>5 DEF StopOneSession
  <2>2. \A r \in Sessions :
          /\ session'[r].state = (IF r = s THEN "Stopped" ELSE session[r].state)
          /\ session'[r].udpPort = session[r].udpPort
    BY <2>1, StopSessionEffect DEF TypeOK
  <2>3. RegistrationInv' /\ PlayingHasEndpoint'
    BY <2>2
  <2> QED
    BY <1>5, <2>2, <2>3 DEF StopOneSession
<1>6. CASE StopSessionsDone
  BY <1>6 DEF StopSessionsDone
<1>7. CASE JoinAcceptThread
  BY <1>7 DEF JoinAcceptThread
<1>8. CASE WaitWorkers
  BY <1>8, NoWorkerCounted DEF WaitWorkers
<1> QED
  BY <1>1, <1>2, <1>3, <1>4, <1>5, <1>6, <1>7, <1>8 DEF Main

\* The accept thread preserves the control invariant.
LEMMA AcceptControl == ControlInv /\ AcceptWorker => ControlInv'
<1> SUFFICES ASSUME ControlInv, AcceptWorker PROVE ControlInv'
  OBVIOUS
<1>0. UNCHANGED <<isRunning, listener, mainPc, stopping, session, message,
                  isUdpEndpointRegistered, inbox, snapshot, todo, log, client, sentCount>>
  BY DEF AcceptWorker, mainVars, messageVars, broadcastVars, clientVars
<1>t. TypeOK'
  BY AcceptType DEF ControlInv
<1> USE <1>0, <1>t, SessionsAssumption DEF ControlInv, AcceptStep, MainInv, AcceptInv,
    SessionsMatchWorkers, StopUnblocksReceivers, BacklogInv, InBacklog, StoppedInv,
    DepartedIsStopped, RegistrationInv, PlayingHasEndpoint, HasUdpEndpoint, Spawning
<1>1. CASE AcceptLoop
  BY <1>1 DEF AcceptLoop
<1>2. CASE AcceptFails
  BY <1>2 DEF AcceptFails
<1>3. CASE AcceptCheck
  BY <1>3 DEF AcceptCheck
<1>4. ASSUME NEW s \in Sessions, Accept(s) PROVE ControlInv'
  BY <1>4 DEF Accept
<1>5. CASE AddSession
  BY <1>5 DEF AddSession
<1>6. CASE CountWorker
  BY <1>6 DEF CountWorker
<1>7. CASE StartWorker
  BY <1>7 DEF StartWorker, TypeOK
<1> QED
  BY <1>1, <1>2, <1>3, <1>4, <1>5, <1>6, <1>7 DEF AcceptWorker

\* A control worker preserves the control invariant.
LEMMA WorkerControl ==
  ASSUME ControlInv, NEW s \in Sessions, ControlWorker(s)
  PROVE  ControlInv'
<1>0. UNCHANGED <<isRunning, listener, mainPc, stopping, acceptPc, accepted, client, sentCount>>
  BY DEF ControlWorker, mainVars, acceptVars, clientVars
<1>t. TypeOK /\ TypeOK'
  BY WorkerType DEF ControlInv
<1>s. s # accepted
  <2>1. workerPc[s] # "none"
    BY DEF ControlWorker, ProcessOneMessage, BroadcastSpawnsForNewSession, LeaveServer,
       WorkerLoop, ReceiveFails, Receive, ProcessRegister, ProcessIgnored, ProcessCommand,
       SpawnSnapshot, SpawnSelf, SpawnOther, Announce, DespawnSnapshot, Despawn,
       RemoveSession, CloseSession, UncountWorker, WorkerStep
  <2> QED
    BY <2>1 DEF ControlInv, AcceptInv
<1>w. workerPc \in [Sessions -> WorkerPcs]
  BY <1>t DEF TypeOK
<1> USE <1>0, <1>t, <1>s, <1>w DEF ControlInv, WorkerStep, sessionVars, messageVars, broadcastVars,
    MainInv, AcceptInv, SessionsMatchWorkers, StopUnblocksReceivers, BacklogInv, InBacklog,
    StoppedInv, DepartedIsStopped, RegistrationInv, PlayingHasEndpoint, HasUdpEndpoint, Spawning,
    Leave
<1>1. CASE WorkerLoop(s)
  BY <1>1 DEF WorkerLoop
<1>2. CASE ReceiveFails(s)
  BY <1>2 DEF ReceiveFails
<1>3. CASE Receive(s)
  BY <1>3 DEF Receive
<1>6. CASE ProcessIgnored(s)
  BY <1>6 DEF ProcessIgnored
<1>8. CASE SpawnSnapshot(s)
  BY <1>8 DEF SpawnSnapshot
<1>9. CASE SpawnSelf(s)
  BY <1>9 DEF SpawnSelf
<1>10. ASSUME NEW o \in Sessions, SpawnOther(s, o) PROVE ControlInv'
  BY <1>10 DEF SpawnOther
<1>11. ASSUME NEW o \in Sessions, Announce(s, o) PROVE ControlInv'
  BY <1>11 DEF Announce
<1>12. ASSUME NEW o \in Sessions, Despawn(s, o) PROVE ControlInv'
  BY <1>12 DEF Despawn
<1>13. CASE DespawnSnapshot(s)
  BY <1>13 DEF DespawnSnapshot
<1>14. CASE RemoveSession(s)
  BY <1>14 DEF RemoveSession
<1>15. CASE CloseSession(s)
  BY <1>15, StopSessionEffect DEF CloseSession, TypeOK
<1>16. CASE UncountWorker(s)
  BY <1>16 DEF UncountWorker
<1>4. CASE ProcessRegister(s)
  <2> DEFINE port == message[s].arg
  <2>1. port \in Nat
    BY MessageArguments DEF TypeOK
  <2>2. \A r \in Sessions :
          /\ session'[r].state = session[r].state
          /\ r # s \/ port = NoPort => session'[r].udpPort = session[r].udpPort
          /\ r = s /\ port # NoPort => session'[r].udpPort = port
    BY <1>4, <2>1, RegisterEffect DEF ProcessRegister, TypeOK
  <2>a. \A r \in Sessions :
          isUdpEndpointRegistered'[r] = (IF r = s THEN port # NoPort ELSE isUdpEndpointRegistered[r])
    BY <1>4 DEF ProcessRegister, TypeOK
  <2>b. workerPc'[s] = (IF port # NoPort THEN "spawnSnapshot" ELSE "loop")
    BY <1>4 DEF ProcessRegister
  <2>c. \A r \in Sessions : r # s => workerPc'[r] = workerPc[r]
    BY <1>4 DEF ProcessRegister
  <2>3. RegistrationInv' /\ PlayingHasEndpoint'
    <3>1. ASSUME NEW r \in Sessions
          PROVE  /\ isUdpEndpointRegistered'[r] => workerPc'[r] # "none" /\ session'[r].udpPort # NoPort
                 /\ workerPc'[r] \in Spawning \union {"despawnSnapshot", "despawn"}
                      => isUdpEndpointRegistered'[r]
      <4>1. CASE r = s /\ port # NoPort
        BY <4>1, <2>2, <2>a, <2>b
      <4>2. CASE r = s /\ port = NoPort
        BY <4>2, <2>a, <2>b
      <4>3. CASE r # s
        BY <4>3, <2>2, <2>a, <2>c
      <4> QED
        BY <4>1, <4>2, <4>3
    <3>2. ASSUME NEW r \in Sessions PROVE session'[r].state # "Stopped" => session'[r].udpPort # NoPort
      BY <2>2
    <3> QED
      BY <3>1, <3>2
  <2>4. DepartedIsStopped'
    BY <1>4, <2>2 DEF ProcessRegister
  <2> QED
    BY <1>4, <2>3, <2>4 DEF ProcessRegister
<1>7. CASE ProcessCommand(s)
  BY <1>7, ExecuteEffect DEF ProcessCommand, TypeOK
<1> QED
  BY <1>1, <1>2, <1>3, <1>4, <1>6, <1>7, <1>8, <1>9, <1>10, <1>11, <1>12, <1>13, <1>14, <1>15, <1>16
     DEF ControlWorker, ProcessOneMessage, BroadcastSpawnsForNewSession, LeaveServer

\* A client preserves the control invariant.
LEMMA ClientControl ==
  ASSUME ControlInv, NEW s \in Sessions, Client(s)
  PROVE  ControlInv'
<1>0. UNCHANGED <<isRunning, listener, mainPc, stopping, acceptPc, accepted, sessions,
                  activeControlWorkerCount, session, closed, workerPc, message,
                  isUdpEndpointRegistered, snapshot, todo, log>>
  BY DEF Client, mainVars, acceptVars, sessionVars, broadcastVars
<1>t. TypeOK /\ TypeOK'
  BY ClientType DEF ControlInv
<1>b. BacklogInv'
  BY <1>0, <1>t DEF Client, Connect, ClientCloses, ClientSends, ControlInv, BacklogInv, InBacklog,
     TypeOK
<1> QED
  BY <1>0, <1>t, <1>b DEF ControlInv, MainInv, AcceptInv, SessionsMatchWorkers,
     StopUnblocksReceivers, StoppedInv, DepartedIsStopped, RegistrationInv, PlayingHasEndpoint

-----------------------------------------------------------------------------
(* activeControlWorkerCount_ is exact *)

\* Every step keeps activeControlWorkerCount_ equal to the number of workers alive
\* or about to start.
LEMMA CountStep ==
  ASSUME ControlInv, CountInv, Next
  PROVE  CountInv'
<1>f. IsFiniteSet(Counted) /\ Counted \subseteq Sessions
  BY SessionsAssumption, FS_Subset DEF Counted
<1> USE DEF ControlInv, CountInv
<1>1. CASE Main
  <2>1. Counted' = Counted /\ UNCHANGED activeControlWorkerCount
    BY <1>1, SessionsAssumption DEF Main, Counted, Start, StopBegin, CloseListener, StopSnapshot,
       StopOneSession, StopSessionsDone, JoinAcceptThread, WaitWorkers, MainInv, MainStep, AcceptInv
  <2> QED
    BY <2>1
<1>2. CASE AcceptWorker
  <2>1. CASE CountWorker
    <3>1. accepted \in Sessions /\ accepted \notin Counted /\ Counted' = Counted \union {accepted}
      BY <2>1 DEF CountWorker, AcceptStep, AcceptInv, TypeOK, Counted
    <3> QED
      BY <1>f, <2>1, <3>1, FS_AddElement DEF CountWorker
  <2>2. CASE ~CountWorker
    <3>1. Counted' = Counted /\ UNCHANGED activeControlWorkerCount
      BY <1>2, <2>2, SessionsAssumption DEF AcceptWorker, AcceptLoop, AcceptFails, AcceptCheck, Accept,
         AddSession, StartWorker, AcceptStep, AcceptInv, TypeOK, Counted
    <3> QED
      BY <3>1
  <2> QED
    BY <2>1, <2>2
<1>3. ASSUME NEW s \in Sessions, ControlWorker(s) PROVE CountInv'
  <2>0. workerPc \in [Sessions -> WorkerPcs] /\ UNCHANGED <<acceptPc, accepted>>
    BY <1>3 DEF ControlWorker, acceptVars, TypeOK
  <2>1. CASE UncountWorker(s)
    <3>1. s \in Counted /\ Counted' = Counted \ {s}
      BY <2>0, <2>1 DEF UncountWorker, WorkerStep, Counted, AcceptInv
    <3>2. Cardinality(Counted \ {s}) = Cardinality(Counted) - 1
      BY <1>f, <3>1, FS_RemoveElement
    <3> QED
      BY <2>1, <3>1, <3>2 DEF UncountWorker
  <2>2. CASE ~UncountWorker(s)
    <3>1. UNCHANGED activeControlWorkerCount
      BY <1>3, <2>2 DEF ControlWorker, ProcessOneMessage, BroadcastSpawnsForNewSession, LeaveServer,
         WorkerLoop, ReceiveFails, Receive, ProcessRegister, ProcessIgnored, ProcessCommand,
         SpawnSnapshot, SpawnSelf, SpawnOther, Announce, DespawnSnapshot, Despawn,
         RemoveSession, CloseSession, sessionVars
    <3>2. /\ workerPc[s] \notin {"none", "done"}
          /\ \E pc \in WorkerPcs \ {"none", "done"} : workerPc' = [workerPc EXCEPT ![s] = pc]
      BY <1>3, <2>2 DEF ControlWorker, ProcessOneMessage, BroadcastSpawnsForNewSession, LeaveServer,
         WorkerLoop, ReceiveFails, Receive, ProcessRegister, ProcessIgnored, ProcessCommand,
         SpawnSnapshot, SpawnSelf, SpawnOther, Announce, DespawnSnapshot, Despawn,
         RemoveSession, CloseSession, WorkerStep, Leave, WorkerPcs, Serving, Spawning, Departing
    <3>3. Counted' = Counted
      BY <2>0, <3>2 DEF Counted
    <3> QED
      BY <3>1, <3>3
  <2> QED
    BY <2>1, <2>2
<1>4. ASSUME NEW s \in Sessions, Client(s) PROVE CountInv'
  BY <1>4 DEF Client, sessionVars, acceptVars, Counted
<1> QED
  BY <1>1, <1>2, <1>3, <1>4 DEF Next

-----------------------------------------------------------------------------
(* The theorems on the control plane *)

\* The control invariant and the count are inductive together.
LEMMA ControlInductive == ControlInv /\ CountInv /\ [Next]_vars => ControlInv' /\ CountInv'
<1> SUFFICES ASSUME ControlInv, CountInv, [Next]_vars PROVE ControlInv' /\ CountInv'
  OBVIOUS
<1>1. CASE Next
  BY <1>1, MainControl, AcceptControl, WorkerControl, ClientControl, CountStep DEF Next
<1>2. CASE UNCHANGED vars
  BY <1>2 DEF vars, mainVars, acceptVars, sessionVars, messageVars, broadcastVars, clientVars,
     ControlInv, CountInv, Counted, TypeOK, MainInv, AcceptInv, SessionsMatchWorkers,
     StopUnblocksReceivers, BacklogInv, InBacklog, StoppedInv, DepartedIsStopped,
     RegistrationInv, PlayingHasEndpoint
<1> QED
  BY <1>1, <1>2

\* The control invariant and the count hold in every reachable state of the server
\* (TcpControlServer's threads, SessionManager, the sessions).
THEOREM ControlInvariant == Spec => [](ControlInv /\ CountInv)
  BY ControlInit, ControlInductive, PTL DEF Spec

\* All variables keep their types.
THEOREM TypeCorrect == Spec => []TypeOK
<1>1. ControlInv => TypeOK
  BY DEF ControlInv
<1> QED
  BY <1>1, ControlInvariant, PTL

\* TcpControlServer::Stop returns only when no thread and no session is left.
THEOREM StopIsComplete == Spec => []StopLeavesNothing
<1>1. ASSUME ControlInv, mainPc = "stopped"
      PROVE  /\ acceptPc = "done" /\ accepted = NoSession /\ listener = "closed"
             /\ \A s \in Sessions : workerPc[s] \in {"none", "done"}
  BY <1>1 DEF ControlInv, StoppedInv, MainInv, AcceptInv
<1>2. ASSUME ControlInv, mainPc = "stopped"
      PROVE  sessions = {} /\ \A s \in Sessions : client[s] # "idle" => s \in closed
  <2>1. \A s \in Sessions : s \notin sessions
    BY <1>1, <1>2 DEF ControlInv, SessionsMatchWorkers
  <2>2. ASSUME NEW s \in Sessions, client[s] # "idle" PROVE s \in closed
    BY <1>1, <1>2, <2>2, SessionsAssumption DEF ControlInv, BacklogInv, InBacklog, DepartedIsStopped
  <2> QED
    BY <1>2, <2>1, <2>2 DEF ControlInv, TypeOK
<1>3. ControlInv => StopLeavesNothing
  BY <1>1, <1>2 DEF StopLeavesNothing
<1> QED
  BY <1>3, ControlInvariant, PTL

\* After Stop's snapshot no worker waits on a socket that Stop leaves open.
THEOREM NoReceiverLeftBlocked == Spec => []StopUnblocksReceivers
<1>1. ControlInv => StopUnblocksReceivers
  BY DEF ControlInv
<1> QED
  BY <1>1, ControlInvariant, PTL

\* The SessionManager holds exactly the sessions that have a worker, or are about to.
THEOREM RegistryIsExact == Spec => []SessionsMatchWorkers
<1>1. ControlInv => SessionsMatchWorkers
  BY DEF ControlInv
<1> QED
  BY <1>1, ControlInvariant, PTL

\* No command outlives the removal of its session.
THEOREM DepartureIsFinal == Spec => []DepartedIsStopped
<1>1. ControlInv => DepartedIsStopped
  BY DEF ControlInv
<1> QED
  BY <1>1, ControlInvariant, PTL

\* A session streams only to an endpoint it registered.
THEOREM EndpointFirst == Spec => []PlayingHasEndpoint
<1>1. ControlInv => PlayingHasEndpoint
  BY DEF ControlInv
<1> QED
  BY <1>1, ControlInvariant, PTL

-----------------------------------------------------------------------------
(* Logs and connections *)

\* SendAll appends: it forgets nothing, and it delivers to a live connection.
LEMMA SendLog ==
  ASSUME TypeOK, NEW d \in Sessions, NEW m, Send(d, m)
  PROVE  /\ \A x : \A e \in Sessions : InLog(x, e) => InLog(x, e)'
         /\ Reachable(d) => InLog(m, d)'
<1>1. CASE ~Reachable(d)
  BY <1>1 DEF Send, InLog
<1>2. CASE Reachable(d)
  <2>1. log' = [log EXCEPT ![d] = Append(log[d], m)] /\ log \in [Sessions -> Seq(ServerMessages)]
    BY <1>2 DEF Send, TypeOK
  <2>2. /\ log'[d] = Append(log[d], m)
        /\ \A e \in Sessions : e # d => log'[e] = log[e]
    BY <2>1
  <2>3. /\ \A i \in DOMAIN log[d] : i \in DOMAIN log'[d] /\ log'[d][i] = log[d][i]
        /\ Len(log[d]) + 1 \in DOMAIN log'[d]
        /\ log'[d][Len(log[d]) + 1] = m
    BY <2>1, <2>2
  <2> QED
    BY <2>2, <2>3 DEF InLog
<1> QED
  BY <1>1, <1>2

\* No step takes a message out of a log.
LEMMA LogGrows ==
  ASSUME TypeOK, Next
  PROVE  \A x : \A e \in Sessions : InLog(x, e) => InLog(x, e)'
<1>1. CASE UNCHANGED log
  BY <1>1 DEF InLog
<1>2. ASSUME NEW d \in Sessions, NEW m, Send(d, m)
      PROVE  \A x : \A e \in Sessions : InLog(x, e) => InLog(x, e)'
  BY <1>2, SendLog
<1>3. UNCHANGED log \/ \E d \in Sessions : \E m \in ServerMessages : Send(d, m)
  BY ServerMessageType
     DEF Next, Main, AcceptWorker, Client, broadcastVars, ControlWorker, ProcessOneMessage,
         BroadcastSpawnsForNewSession, LeaveServer, WorkerLoop, ReceiveFails, Receive,
         ProcessRegister, ProcessIgnored, ProcessCommand, SpawnSnapshot, SpawnSelf, SpawnOther,
         Announce, DespawnSnapshot, Despawn, RemoveSession, CloseSession, UncountWorker, TypeOK
<1> QED
  BY <1>1, <1>2, <1>3

\* A connection that was made and is gone does not come back.
LEMMA ReachableOnce ==
  ASSUME TypeOK, Next
  PROVE  \A d \in Sessions : client[d] # "idle" /\ Reachable(d)' => Reachable(d)
<1>1. \A d \in Sessions : d \in closed => d \in closed'
  BY DEF Next, Main, Start, StopBegin, CloseListener, StopSnapshot, StopOneSession,
         StopSessionsDone, JoinAcceptThread, WaitWorkers, AcceptWorker, AcceptLoop, AcceptFails,
         AcceptCheck, Accept, AddSession, CountWorker, StartWorker, Client, ControlWorker,
         ProcessOneMessage, BroadcastSpawnsForNewSession, LeaveServer, WorkerLoop, ReceiveFails,
         Receive, ProcessRegister, ProcessIgnored, ProcessCommand, SpawnSnapshot, SpawnSelf,
         SpawnOther, Announce, DespawnSnapshot, Despawn, RemoveSession, CloseSession,
         UncountWorker, sessionVars
<1>2. \A d \in Sessions : client[d] = "closed" => client'[d] = "closed"
  BY DEF Next, Main, AcceptWorker, ControlWorker, clientVars, Client, Connect, ClientSends,
         ClientCloses, TypeOK
<1> QED
  BY <1>1, <1>2 DEF Reachable, TypeOK

-----------------------------------------------------------------------------
(* Who is told of whom *)

\* The server starts with nobody announced to anybody.
LEMMA PresenceInit == Init => PresenceInv
  BY SessionsAssumption
     DEF Init, PresenceInv, ConnectedInv, RegisterOnce, SnapshotMembers, SnapshotInv, SpawnInv,
         DespawnInv, DepartureTold, Snapped, Departed, NoMessage, Message

\* What a step of a worker leaves to every other session.
LEMMA WorkerFrame ==
  ASSUME TypeOK, NEW s \in Sessions, ControlWorker(s)
  PROVE  /\ workerPc[s] # "none" /\ workerPc'[s] # "none"
         /\ \A r \in Sessions : r # s =>
              /\ workerPc'[r] = workerPc[r]
              /\ message'[r] = message[r]
              /\ isUdpEndpointRegistered'[r] = isUdpEndpointRegistered[r]
              /\ inbox'[r] = inbox[r]
              /\ snapshot'[r] = snapshot[r]
              /\ todo'[r] = todo[r]
         /\ UNCHANGED <<client, sentCount, acceptPc, accepted>>
         /\ sessions' \subseteq sessions
<1>1. UNCHANGED <<client, sentCount, acceptPc, accepted>>
  BY DEF ControlWorker, clientVars, acceptVars
<1>2. sessions' \subseteq sessions
  BY DEF ControlWorker, ProcessOneMessage, BroadcastSpawnsForNewSession, LeaveServer, WorkerLoop,
         ReceiveFails, Receive, ProcessRegister, ProcessIgnored, ProcessCommand, SpawnSnapshot,
         SpawnSelf, SpawnOther, Announce, DespawnSnapshot, Despawn, RemoveSession, CloseSession,
         UncountWorker, sessionVars
<1>3. /\ workerPc[s] # "none"
      /\ \E pc \in WorkerPcs \ {"none"} : workerPc' = [workerPc EXCEPT ![s] = pc]
  BY DEF ControlWorker, ProcessOneMessage, BroadcastSpawnsForNewSession, LeaveServer, WorkerLoop,
         ReceiveFails, Receive, ProcessRegister, ProcessIgnored, ProcessCommand, SpawnSnapshot,
         SpawnSelf, SpawnOther, Announce, DespawnSnapshot, Despawn, RemoveSession, CloseSession,
         UncountWorker, WorkerStep, Leave, WorkerPcs, Serving, Spawning, Departing
<1>4. \A r \in Sessions : r # s =>
         /\ message'[r] = message[r]
         /\ isUdpEndpointRegistered'[r] = isUdpEndpointRegistered[r]
         /\ inbox'[r] = inbox[r]
  BY DEF ControlWorker, ProcessOneMessage, BroadcastSpawnsForNewSession, LeaveServer, WorkerLoop,
         ReceiveFails, Receive, ProcessRegister, ProcessIgnored, ProcessCommand, SpawnSnapshot,
         SpawnSelf, SpawnOther, Announce, DespawnSnapshot, Despawn, RemoveSession, CloseSession,
         UncountWorker, messageVars, TypeOK
<1>5. \A r \in Sessions : r # s => snapshot'[r] = snapshot[r] /\ todo'[r] = todo[r]
  BY DEF ControlWorker, ProcessOneMessage, BroadcastSpawnsForNewSession, LeaveServer, WorkerLoop,
         ReceiveFails, Receive, ProcessRegister, ProcessIgnored, ProcessCommand, SpawnSnapshot,
         SpawnSelf, SpawnOther, Announce, DespawnSnapshot, Despawn, RemoveSession, CloseSession,
         UncountWorker, broadcastVars, TypeOK
<1> QED
  BY <1>1, <1>2, <1>3, <1>4, <1>5 DEF TypeOK

\* Only a connection that a client made is ever accepted or served.
LEMMA ConnectedStep == ControlInv /\ ConnectedInv /\ Next => ConnectedInv'
<1> SUFFICES ASSUME ControlInv, ConnectedInv, Next PROVE ConnectedInv'
  OBVIOUS
<1> USE DEF ConnectedInv
<1>1. CASE Main
  BY <1>1 DEF Main, clientVars
<1>2. CASE AcceptWorker
  BY <1>2, SessionsAssumption DEF AcceptWorker, clientVars, AcceptLoop, AcceptFails, AcceptCheck, Accept,
     AddSession, CountWorker, StartWorker, InBacklog, ControlInv, TypeOK
<1>3. ASSUME NEW s \in Sessions, ControlWorker(s) PROVE ConnectedInv'
  BY <1>3, WorkerFrame DEF ControlInv
<1>4. ASSUME NEW s \in Sessions, Client(s) PROVE ConnectedInv'
  BY <1>4 DEF Client, acceptVars, Connect, ClientSends, ClientCloses, ControlInv, TypeOK
<1> QED
  BY <1>1, <1>2, <1>3, <1>4 DEF Next

\* A client's RegisterUdpPort stays its first message and is processed once.
LEMMA RegisterOnceStep == ControlInv /\ RegisterOnce /\ Next => RegisterOnce'
<1> SUFFICES ASSUME ControlInv, RegisterOnce, Next PROVE RegisterOnce'
  OBVIOUS
<1>t. TypeOK
  BY DEF ControlInv
<1>1. CASE Main
  BY <1>1 DEF Main, clientVars, messageVars, RegisterOnce
<1>2. CASE AcceptWorker
  <2>1. UNCHANGED <<message, isUdpEndpointRegistered, inbox, client, sentCount>>
    BY <1>2 DEF AcceptWorker, clientVars, messageVars
  <2>2. \A s \in Sessions : workerPc'[s] = "process" => workerPc[s] = "process"
    BY <1>2, <1>t DEF AcceptWorker, AcceptLoop, AcceptFails, AcceptCheck, Accept,
       AddSession, CountWorker, StartWorker, TypeOK
  <2> QED
    BY <2>1, <2>2 DEF RegisterOnce
<1>3. ASSUME NEW s \in Sessions, ControlWorker(s) PROVE RegisterOnce'
  <2>1. CASE Receive(s)
    <3>1. /\ message'[s] = Head(inbox[s]) /\ inbox'[s] = Tail(inbox[s])
          /\ inbox[s] \in Seq(ClientMessages) /\ inbox[s] # <<>>
          /\ UNCHANGED <<isUdpEndpointRegistered, sentCount>>
      BY <2>1, <1>3, <1>t DEF Receive, TypeOK, ControlWorker, clientVars
    <3>2. /\ Head(inbox[s]) = inbox[s][1] /\ 1 \in DOMAIN inbox[s]
          /\ \A i \in DOMAIN Tail(inbox[s]) :
               i \in Nat /\ i + 1 \in DOMAIN inbox[s] /\ i + 1 # 1 /\ Tail(inbox[s])[i] = inbox[s][i + 1]
      BY <3>1
    <3>3. /\ sentCount[s] # 0
          /\ Head(inbox[s]).type = "RegisterUdpPort" => ~isUdpEndpointRegistered[s]
          /\ \A i \in DOMAIN Tail(inbox[s]) : Tail(inbox[s])[i].type # "RegisterUdpPort"
      BY <3>1, <3>2 DEF RegisterOnce
    <3>4. /\ sentCount'[s] # 0
          /\ \A i \in DOMAIN inbox'[s] : inbox'[s][i].type # "RegisterUdpPort"
          /\ message'[s].type = "RegisterUdpPort" => ~isUdpEndpointRegistered'[s]
      BY <3>1, <3>3
    <3>5. \A r \in Sessions : r # s =>
            /\ workerPc'[r] = workerPc[r] /\ message'[r] = message[r] /\ inbox'[r] = inbox[r]
            /\ isUdpEndpointRegistered'[r] = isUdpEndpointRegistered[r]
            /\ sentCount'[r] = sentCount[r]
      BY <1>3, <1>t, WorkerFrame
    <3> QED
      BY <3>4, <3>5 DEF RegisterOnce
  <2>2. CASE ProcessRegister(s)
    <3>1. /\ workerPc[s] = "process" /\ workerPc'[s] # "process"
          /\ message[s].type = "RegisterUdpPort" /\ message'[s] = message[s] /\ inbox'[s] = inbox[s]
      BY <2>2, <1>t DEF ProcessRegister, WorkerStep, TypeOK
    <3>2. message[s] # NoMessage
      BY <3>1 DEF NoMessage, Message
    <3> QED
      BY <1>3, <1>t, <3>1, <3>2, WorkerFrame DEF RegisterOnce
  <2>3. CASE ~Receive(s) /\ ~ProcessRegister(s)
    <3>1. /\ message'[s] = message[s] /\ inbox'[s] = inbox[s]
          /\ isUdpEndpointRegistered'[s] = isUdpEndpointRegistered[s]
          /\ workerPc'[s] # "process"
      BY <1>3, <1>t, <2>3 DEF ControlWorker, ProcessOneMessage, BroadcastSpawnsForNewSession,
         LeaveServer, WorkerLoop, ReceiveFails, ProcessIgnored, ProcessCommand, SpawnSnapshot,
         SpawnSelf, SpawnOther, Announce, DespawnSnapshot, Despawn, RemoveSession, CloseSession,
         UncountWorker, WorkerStep, Leave, messageVars, TypeOK
    <3> QED
      BY <1>3, <1>t, <3>1, WorkerFrame DEF RegisterOnce
  <2> QED
    BY <2>1, <2>2, <2>3
<1>4. ASSUME NEW s \in Sessions, Client(s) PROVE RegisterOnce'
  <2>0. UNCHANGED <<workerPc, message, isUdpEndpointRegistered>>
    BY <1>4 DEF Client
  <2>1. CASE Connect(s) \/ ClientCloses(s)
    BY <2>0, <2>1 DEF Connect, ClientCloses, RegisterOnce
  <2>2. ASSUME NEW m \in ClientMessages, ClientSends(s, m) PROVE RegisterOnce'
    <3>1. /\ inbox'[s] = Append(inbox[s], m) /\ inbox[s] \in Seq(ClientMessages)
          /\ sentCount'[s] = sentCount[s] + 1 /\ sentCount[s] \in Nat
          /\ \A r \in Sessions : r # s => inbox'[r] = inbox[r] /\ sentCount'[r] = sentCount[r]
      BY <1>t, <2>2 DEF ClientSends, TypeOK
    <3>2. ASSUME NEW i \in DOMAIN inbox'[s], inbox'[s][i].type = "RegisterUdpPort"
          PROVE  i = 1 /\ message[s] = NoMessage /\ ~isUdpEndpointRegistered[s]
      <4>1. CASE i \in DOMAIN inbox[s]
        BY <3>1, <3>2, <4>1 DEF RegisterOnce
      <4>2. CASE i \notin DOMAIN inbox[s]
        <5>1. i = Len(inbox[s]) + 1 /\ inbox'[s][i] = m
          BY <3>1, <4>2
        <5>2. sentCount[s] = 0
          BY <2>2, <3>2, <5>1, InputAssumption DEF ClientSends
        <5> QED
          BY <5>1, <5>2 DEF RegisterOnce
      <4> QED
        BY <4>1, <4>2
    <3>3. sentCount'[s] # 0 /\ ~(workerPc'[s] = "process" /\ message'[s].type = "RegisterUdpPort"
            /\ isUdpEndpointRegistered'[s])
      BY <2>0, <3>1 DEF RegisterOnce
    <3> QED
      BY <2>0, <3>1, <3>2, <3>3 DEF RegisterOnce
  <2> QED
    BY <1>4, <2>1, <2>2 DEF Client
<1> QED
  BY <1>1, <1>2, <1>3, <1>4 DEF Next

\* Membership in the SessionManager implies that the session was added.
LEMMA SessionsAdded ==
  ASSUME ControlInv
  PROVE  \A s \in sessions : s \in Sessions /\ Added(s)
  BY DEF ControlInv, SessionsMatchWorkers, TypeOK, Added

\* Once added, for ever added.
LEMMA AddedStays ==
  ASSUME ControlInv, Next
  PROVE  \A b \in Sessions : Added(b) => Added(b)'
<1>t. TypeOK /\ AcceptInv
  BY DEF ControlInv
<1>1. CASE Main
  BY <1>1 DEF Main, Start, StopBegin, CloseListener, StopSnapshot, StopOneSession,
     StopSessionsDone, JoinAcceptThread, WaitWorkers, Added, ControlInv, MainInv, MainStep
<1>2. CASE AcceptWorker
  BY <1>2, <1>t DEF AcceptWorker, AcceptLoop, AcceptFails, AcceptCheck, Accept,
     AddSession, CountWorker, StartWorker, AcceptStep, TypeOK, Added
<1>3. ASSUME NEW s \in Sessions, ControlWorker(s) PROVE \A b \in Sessions : Added(b) => Added(b)'
  BY <1>3, <1>t, WorkerFrame DEF Added
<1>4. ASSUME NEW s \in Sessions, Client(s) PROVE \A b \in Sessions : Added(b) => Added(b)'
  BY <1>4 DEF Client, acceptVars, Added
<1> QED
  BY <1>1, <1>2, <1>3, <1>4 DEF Next

\* A Spawn snapshot holds other, already added sessions, at every step.
LEMMA SnapshotMembersStep == ControlInv /\ RegisterOnce /\ SnapshotMembers /\ Next => SnapshotMembers'
<1> SUFFICES ASSUME ControlInv, RegisterOnce, SnapshotMembers, Next PROVE SnapshotMembers'
  OBVIOUS
<1>t. TypeOK
  BY DEF ControlInv
<1>a. \A b \in Sessions : Added(b) => Added(b)'
  BY AddedStays
<1>b. \A a \in Sessions : \A b \in snapshot[a] : b \in Sessions /\ b # a /\ Added(b)
  BY <1>t DEF SnapshotMembers, TypeOK
<1>1. CASE UNCHANGED <<snapshot, isUdpEndpointRegistered>>
  BY <1>1, <1>a, <1>b DEF SnapshotMembers
<1>2. ASSUME NEW s \in Sessions, ControlWorker(s) PROVE SnapshotMembers'
  <2>1. CASE SpawnSnapshot(s)
    <3>1. snapshot'[s] = sessions \ {s} /\ isUdpEndpointRegistered'[s]
      BY <2>1, <1>t DEF SpawnSnapshot, WorkerStep, ControlInv, RegistrationInv, Spawning, messageVars, TypeOK
    <3>2. \A b \in sessions : b \in Sessions /\ Added(b)
      BY SessionsAdded
    <3> QED
      BY <1>2, <1>t, <1>a, <1>b, <3>1, <3>2, WorkerFrame DEF SnapshotMembers
  <2>2. CASE ProcessRegister(s)
    <3>1. snapshot'[s] = snapshot[s] /\ snapshot[s] = {}
      BY <2>2 DEF ProcessRegister, WorkerStep, RegisterOnce, SnapshotMembers, broadcastVars
    <3> QED
      BY <1>2, <1>t, <1>a, <1>b, <3>1, WorkerFrame DEF SnapshotMembers
  <2>3. CASE ~SpawnSnapshot(s) /\ ~ProcessRegister(s)
    <3>1. UNCHANGED <<snapshot, isUdpEndpointRegistered>>
      BY <1>2, <2>3 DEF ControlWorker, ProcessOneMessage, BroadcastSpawnsForNewSession,
         LeaveServer, WorkerLoop, ReceiveFails, Receive, ProcessIgnored, ProcessCommand,
         SpawnSelf, SpawnOther, Announce, DespawnSnapshot, Despawn, RemoveSession, CloseSession,
         UncountWorker, messageVars, broadcastVars
    <3> QED
      BY <1>1, <3>1
  <2> QED
    BY <2>1, <2>2, <2>3
<1>3. CASE Main \/ AcceptWorker \/ \E s \in Sessions : Client(s)
  BY <1>1, <1>3 DEF Main, AcceptWorker, Client, messageVars, broadcastVars
<1> QED
  BY <1>2, <1>3 DEF Next

\* At every step, of two sessions with a snapshot one is in the other's: AddSession
\* precedes the snapshot, and SessionManager's lock orders the two snapshots.
LEMMA SnapshotStep == ControlInv /\ SnapshotInv /\ Next => SnapshotInv'
<1> SUFFICES ASSUME ControlInv, SnapshotInv, Next PROVE SnapshotInv'
  OBVIOUS
<1>t. TypeOK
  BY DEF ControlInv
<1>1. CASE Main
  BY <1>1 DEF Main, messageVars, broadcastVars, SnapshotInv, Snapped
<1>2. CASE AcceptWorker
  <2>0. UNCHANGED <<isUdpEndpointRegistered, snapshot>>
    BY <1>2 DEF AcceptWorker, messageVars, broadcastVars
  <2>1. \A s \in Sessions : Snapped(s)' => Snapped(s) /\ (s \in sessions' => s \in sessions)
    BY <1>2, <2>0, <1>t DEF AcceptWorker, AcceptLoop, AcceptFails, AcceptCheck, Accept, AddSession,
       CountWorker, StartWorker, AcceptStep, TypeOK, Snapped, ControlInv, AcceptInv, RegistrationInv
  <2>2. sessions' \subseteq Sessions
    BY <1>2, AcceptType DEF ControlInv, TypeOK
  <2> QED
    BY <2>0, <2>1, <2>2 DEF SnapshotInv
<1>3. ASSUME NEW s \in Sessions, ControlWorker(s) PROVE SnapshotInv'
  <2>1. CASE SpawnSnapshot(s)
    <3>1. snapshot'[s] = sessions \ {s} /\ sessions' = sessions
      BY <2>1, <1>t DEF SpawnSnapshot, sessionVars, TypeOK
    <3>2. \A r \in Sessions : r # s => snapshot'[r] = snapshot[r] /\ Snapped(r)' = Snapped(r)
      BY <1>3, <1>t, WorkerFrame DEF Snapped
    <3> QED
      BY <1>t, <3>1, <3>2 DEF SnapshotInv, TypeOK
  <2>2. CASE ~SpawnSnapshot(s)
    <3>1. snapshot'[s] = snapshot[s] /\ (Snapped(s)' => Snapped(s))
      BY <1>3, <2>2, <1>t DEF ControlWorker, ProcessOneMessage, BroadcastSpawnsForNewSession,
         LeaveServer, WorkerLoop, ReceiveFails, Receive, ProcessRegister, ProcessIgnored, ProcessCommand,
         SpawnSelf, SpawnOther, Announce, DespawnSnapshot, Despawn, RemoveSession, CloseSession,
         UncountWorker, WorkerStep, messageVars, broadcastVars, Snapped, TypeOK
    <3>2. \A r \in Sessions : r # s => snapshot'[r] = snapshot[r] /\ Snapped(r)' = Snapped(r)
      BY <1>3, <1>t, WorkerFrame DEF Snapped
    <3>3. sessions' \subseteq sessions
      BY <1>3, <1>t, WorkerFrame
    <3> QED
      BY <1>t, <3>1, <3>2, <3>3 DEF SnapshotInv, TypeOK
  <2> QED
    BY <2>1, <2>2
<1>4. ASSUME NEW s \in Sessions, Client(s) PROVE SnapshotInv'
  BY <1>4 DEF Client, sessionVars, broadcastVars, SnapshotInv, Snapped
<1> QED
  BY <1>1, <1>2, <1>3, <1>4 DEF Next

\* Facts that every step of the proofs below uses: what can only grow or shrink.
LEMMA Monotone ==
  ASSUME ControlInv, ConnectedInv, SnapshotMembers, Next
  PROVE  /\ \A x : \A e \in Sessions : InLog(x, e) => InLog(x, e)'
         /\ \A a \in Sessions : workerPc[a] # "none" /\ Reachable(a)' => Reachable(a)
         /\ \A a \in Sessions : \A b \in snapshot[a] : Reachable(b)' => Reachable(b)
<1>t. TypeOK
  BY DEF ControlInv
<1>1. \A d \in Sessions : Added(d) => client[d] # "idle"
  BY <1>t, SessionsAssumption DEF Added, ConnectedInv, ControlInv, AcceptInv
<1>2. \A a \in Sessions : \A b \in snapshot[a] : b \in Sessions /\ Added(b)
  BY <1>t DEF SnapshotMembers, TypeOK
<1>3. \A a \in Sessions : workerPc[a] # "none" => Added(a)
  BY DEF Added
<1> QED
  BY <1>t, <1>1, <1>2, <1>3, LogGrows, ReachableOnce

\* A pair of sessions in SpawnInv.
SpawnPair(a, b) == Snapped(a) /\ b \in snapshot[a] => ToldAboutOther(a, b) /\ AnnouncedTo(a, b)

\* A step that moves nothing in a's broadcast keeps the pair.
LEMMA SpawnFrame ==
  ASSUME ControlInv, ConnectedInv, SnapshotMembers, Next,
         NEW a \in Sessions, NEW b \in Sessions, SpawnPair(a, b),
         Snapped(a)' => Snapped(a), snapshot'[a] = snapshot[a],
         \/ workerPc'[a] = workerPc[a] /\ todo'[a] = todo[a]
         \/ workerPc[a] \notin {"spawnSelf", "spawnOthers", "announce"}
  PROVE  SpawnPair(a, b)'
<1> SUFFICES ASSUME Snapped(a)', b \in snapshot'[a]
             PROVE  ToldAboutOther(a, b)' /\ AnnouncedTo(a, b)'
  BY DEF SpawnPair
<1>1. ToldAboutOther(a, b) /\ AnnouncedTo(a, b) /\ b \in snapshot[a] /\ workerPc[a] # "none"
  BY DEF SpawnPair, Snapped
<1>2. /\ InLog(EntitySpawn(b), a) => InLog(EntitySpawn(b), a)'
      /\ InLog(EntitySpawn(a), b) => InLog(EntitySpawn(a), b)'
      /\ Reachable(a)' => Reachable(a)
      /\ Reachable(b)' => Reachable(b)
  BY <1>1, Monotone
<1> QED
  BY <1>1, <1>2 DEF ToldAboutOther, AnnouncedTo, EntitySpawn

\* At every step a worker has sent, or still has in its loop, each Spawn that its
\* snapshot calls for.
LEMMA SpawnStep ==
  ASSUME ControlInv, ConnectedInv, SnapshotMembers, SpawnInv, Next
  PROVE  SpawnInv'
<1>t. TypeOK
  BY DEF ControlInv
<1>p. \A a, b \in Sessions : SpawnPair(a, b)
  BY DEF SpawnInv, SpawnPair
<1> SUFFICES ASSUME NEW a \in Sessions, NEW b \in Sessions PROVE SpawnPair(a, b)'
  BY DEF SpawnInv, SpawnPair
<1>1. CASE Main \/ \E s \in Sessions : Client(s)
  <2>1. UNCHANGED <<workerPc, isUdpEndpointRegistered, snapshot, todo>>
    BY <1>1 DEF Main, Client, messageVars, broadcastVars
  <2> QED
    BY <1>p, <2>1, SpawnFrame DEF Snapped
<1>2. CASE AcceptWorker
  <2>1. UNCHANGED <<isUdpEndpointRegistered, snapshot, todo>>
    BY <1>2 DEF AcceptWorker, messageVars, broadcastVars
  <2>2. workerPc'[a] = workerPc[a] \/ workerPc[a] = "none"
    BY <1>2, <1>t DEF AcceptWorker, AcceptLoop, AcceptFails, AcceptCheck, Accept,
       AddSession, CountWorker, StartWorker, AcceptStep, TypeOK, ControlInv, AcceptInv
  <2>3. Snapped(a)' => Snapped(a)
    BY <2>1, <2>2 DEF Snapped, ControlInv, RegistrationInv
  <2> QED
    BY <1>p, <2>1, <2>2, <2>3, SpawnFrame
<1>3. ASSUME NEW s \in Sessions, ControlWorker(s) PROVE SpawnPair(a, b)'
  <2>1. CASE a # s
    <3>1. workerPc'[a] = workerPc[a] /\ todo'[a] = todo[a] /\ snapshot'[a] = snapshot[a]
          /\ isUdpEndpointRegistered'[a] = isUdpEndpointRegistered[a]
      BY <1>3, <1>t, <2>1, WorkerFrame
    <3> QED
      BY <1>p, <3>1, SpawnFrame DEF Snapped
  <2>2. CASE a = s
    <3>g. /\ workerPc[a] # "none"
          /\ b \in snapshot[a] => (Reachable(b)' => Reachable(b))
          /\ Reachable(a)' => Reachable(a)
          /\ \A x : InLog(x, a) => InLog(x, a)'
          /\ \A x : InLog(x, b) => InLog(x, b)'
      BY <1>3, <1>t, <2>2, WorkerFrame, Monotone
    <3>1. CASE SpawnSnapshot(s)
      BY <1>t, <2>2, <3>1 DEF SpawnSnapshot, WorkerStep, SpawnPair, ToldAboutOther, AnnouncedTo, TypeOK
    <3>2. CASE SpawnSelf(s)
      BY <1>t, <2>2, <3>2 DEF SpawnSelf, WorkerStep, SpawnPair, ToldAboutOther, AnnouncedTo, TypeOK
    <3>3. ASSUME NEW o \in Sessions, SpawnOther(s, o) PROVE SpawnPair(a, b)'
      <4>1. Reachable(a) => InLog(EntitySpawn(o), a)'
        BY <1>t, <2>2, <3>3, SendLog DEF SpawnOther
      <4>2. /\ workerPc[a] = "spawnOthers" /\ o \in todo[a] /\ UNCHANGED <<snapshot, isUdpEndpointRegistered>>
            /\ workerPc'[a] = (IF todo[a] = {o} THEN "announce" ELSE "spawnOthers")
            /\ todo'[a] = (IF todo[a] = {o} THEN snapshot[a] ELSE todo[a] \ {o})
        BY <1>t, <2>2, <3>3 DEF SpawnOther, WorkerStep, messageVars, TypeOK
      <4>3. CASE ~(Snapped(a)' /\ b \in snapshot'[a])
        BY <4>3 DEF SpawnPair
      <4>4. CASE Snapped(a)' /\ b \in snapshot'[a]
        <5>1. Snapped(a) /\ b \in snapshot[a]
          BY <4>2, <4>4 DEF Snapped
        <5>2. (b \in todo[a]) \/ ~Reachable(a) \/ InLog(EntitySpawn(b), a)
          BY <1>p, <4>2, <5>1 DEF SpawnPair, ToldAboutOther
        <5>3. (b # o /\ b \in todo[a]) \/ ~Reachable(a)' \/ InLog(EntitySpawn(b), a)'
          <6>1. InLog(EntitySpawn(b), a) => InLog(EntitySpawn(b), a)'
            BY <3>g DEF EntitySpawn
          <6> QED
            BY <3>g, <4>1, <5>2, <6>1
        <5>4. ToldAboutOther(a, b)'
          BY <4>2, <5>3 DEF ToldAboutOther
        <5>5. AnnouncedTo(a, b)'
          BY <4>2, <5>1 DEF AnnouncedTo
        <5> QED
          BY <5>4, <5>5 DEF SpawnPair
      <4> QED
        BY <4>3, <4>4
    <3>4. ASSUME NEW o \in Sessions, Announce(s, o) PROVE SpawnPair(a, b)'
      <4>1. Reachable(o) => InLog(EntitySpawn(a), o)'
        BY <1>t, <2>2, <3>4, SendLog DEF Announce
      <4>2. /\ workerPc[a] = "announce" /\ o \in todo[a] /\ UNCHANGED <<snapshot, isUdpEndpointRegistered>>
            /\ workerPc'[a] = (IF todo[a] = {o} THEN "loop" ELSE "announce")
            /\ todo'[a] = todo[a] \ {o}
        BY <1>t, <2>2, <3>4 DEF Announce, WorkerStep, messageVars, TypeOK
      <4>3. CASE ~(Snapped(a)' /\ b \in snapshot'[a])
        BY <4>3 DEF SpawnPair
      <4>4. CASE Snapped(a)' /\ b \in snapshot'[a]
        <5>1. Snapped(a) /\ b \in snapshot[a]
          BY <4>2, <4>4 DEF Snapped
        <5>2. /\ (b \in todo[a]) \/ ~Reachable(b) \/ InLog(EntitySpawn(a), b)
              /\ ~Reachable(a) \/ InLog(EntitySpawn(b), a)
          BY <1>p, <4>2, <5>1 DEF SpawnPair, ToldAboutOther, AnnouncedTo
        <5>3. (b # o /\ b \in todo[a]) \/ ~Reachable(b)' \/ InLog(EntitySpawn(a), b)'
          <6>1. InLog(EntitySpawn(a), b) => InLog(EntitySpawn(a), b)'
            BY <3>g DEF EntitySpawn
          <6> QED
            BY <3>g, <4>1, <5>1, <5>2, <6>1
        <5>4. ToldAboutOther(a, b)'
          <6>1. InLog(EntitySpawn(b), a) => InLog(EntitySpawn(b), a)'
            BY <3>g DEF EntitySpawn
          <6> QED
            BY <3>g, <5>2, <6>1 DEF ToldAboutOther
        <5>5. AnnouncedTo(a, b)'
          BY <4>2, <5>3 DEF AnnouncedTo
        <5> QED
          BY <5>4, <5>5 DEF SpawnPair
      <4> QED
        BY <4>3, <4>4
    <3>5. CASE /\ ~SpawnSnapshot(s) /\ ~SpawnSelf(s)
               /\ \A o \in Sessions : ~SpawnOther(s, o) /\ ~Announce(s, o)
      <4>1. /\ workerPc[a] \notin {"spawnSelf", "spawnOthers", "announce"}
            /\ snapshot'[a] = snapshot[a]
            /\ Snapped(a)' => Snapped(a)
        BY <1>3, <1>t, <2>2, <3>5 DEF ControlWorker, ProcessOneMessage, BroadcastSpawnsForNewSession,
           LeaveServer, WorkerLoop, ReceiveFails, Receive, ProcessRegister, ProcessIgnored, ProcessCommand,
           DespawnSnapshot, Despawn, RemoveSession, CloseSession, UncountWorker, WorkerStep,
           messageVars, broadcastVars, Snapped, TypeOK
      <4> QED
        BY <1>p, <4>1, SpawnFrame
    <3> QED
      BY <3>1, <3>2, <3>3, <3>4, <3>5
  <2> QED
    BY <2>1, <2>2
<1> QED
  BY <1>1, <1>2, <1>3 DEF Next

\* A pair of sessions in DespawnInv and DepartureTold.
DeparturePair(a, b) ==
  b \in sessions /\ b \in snapshot[a] /\ Reachable(b) =>
    /\ workerPc[a] = "despawn" => b \in todo[a] \/ InLog(EntityDespawn(a), b)
    /\ workerPc[a] \in Departed => InLog(EntityDespawn(a), b)

\* A session that is in a snapshot is never added again.
LEMMA NotAddedAgain ==
  ASSUME ControlInv, SnapshotMembers, Next
  PROVE  \A a \in Sessions : \A b \in snapshot[a] : b \in sessions' => b \in sessions
<1>t. TypeOK
  BY DEF ControlInv
<1>1. CASE Main \/ \E s \in Sessions : Client(s)
  BY <1>1 DEF Main, Client, sessionVars
<1>2. CASE AcceptWorker
  BY <1>2 DEF AcceptWorker, AcceptLoop, AcceptFails, AcceptCheck, Accept, AddSession,
     CountWorker, StartWorker, AcceptStep, ControlInv, AcceptInv, TypeOK, SnapshotMembers, Added
<1>3. ASSUME NEW s \in Sessions, ControlWorker(s) PROVE sessions' \subseteq sessions
  BY <1>3, <1>t, WorkerFrame
<1> QED
  BY <1>1, <1>2, <1>3 DEF Next

\* A step that does not advance the Despawn loop of a keeps what a owes b.
LEMMA DepartureFrame ==
  ASSUME ControlInv, ConnectedInv, SnapshotMembers, Next,
         NEW a \in Sessions, NEW b \in Sessions, DeparturePair(a, b), snapshot'[a] = snapshot[a],
         \/ workerPc'[a] \notin Departed \union {"despawn"}
         \/ workerPc'[a] = workerPc[a] /\ todo'[a] = todo[a]
         \/ workerPc[a] \in Departed /\ workerPc'[a] \in Departed
  PROVE  DeparturePair(a, b)'
<1> SUFFICES ASSUME b \in sessions', b \in snapshot[a], Reachable(b)'
             PROVE  /\ workerPc'[a] = "despawn" => b \in todo'[a] \/ InLog(EntityDespawn(a), b)'
                    /\ workerPc'[a] \in Departed => InLog(EntityDespawn(a), b)'
  BY DEF DeparturePair, EntityDespawn
<1>1. b \in sessions /\ Reachable(b) /\ (InLog(EntityDespawn(a), b) => InLog(EntityDespawn(a), b)')
  BY Monotone, NotAddedAgain
<1> QED
  BY <1>1 DEF DeparturePair, Departed

\* At every step a departing session has sent, or still has in its loop, the
\* Despawn for every session it announced itself to.
LEMMA DepartureStep ==
  ASSUME ControlInv, ConnectedInv, SnapshotMembers, DespawnInv, DepartureTold, Next
  PROVE  DespawnInv' /\ DepartureTold'
<1>t. TypeOK
  BY DEF ControlInv
<1>p. \A a, b \in Sessions : DeparturePair(a, b)
  BY <1>t DEF DespawnInv, DepartureTold, DeparturePair, TypeOK
<1>s. sessions' \subseteq Sessions
  BY MainType, AcceptType, WorkerType, ClientType DEF Next, ControlInv, TypeOK
<1> SUFFICES ASSUME NEW a \in Sessions, NEW b \in Sessions PROVE DeparturePair(a, b)'
  BY <1>s DEF DespawnInv, DepartureTold, DeparturePair
<1>1. CASE Main \/ \E s \in Sessions : Client(s)
  <2>1. UNCHANGED <<workerPc, snapshot, todo>>
    BY <1>1 DEF Main, Client, broadcastVars
  <2> QED
    BY <1>p, <2>1, DepartureFrame
<1>2. CASE AcceptWorker
  <2>1. UNCHANGED <<snapshot, todo>>
    BY <1>2 DEF AcceptWorker, broadcastVars
  <2>2. workerPc'[a] = workerPc[a] \/ workerPc'[a] = "loop"
    BY <1>2, <1>t DEF AcceptWorker, AcceptLoop, AcceptFails, AcceptCheck, Accept,
       AddSession, CountWorker, StartWorker, TypeOK
  <2> QED
    BY <1>p, <2>1, <2>2, DepartureFrame DEF Departed
<1>3. ASSUME NEW s \in Sessions, ControlWorker(s) PROVE DeparturePair(a, b)'
  <2>1. CASE a # s
    <3>1. workerPc'[a] = workerPc[a] /\ todo'[a] = todo[a] /\ snapshot'[a] = snapshot[a]
      BY <1>3, <1>t, <2>1, WorkerFrame
    <3> QED
      BY <1>p, <3>1, DepartureFrame
  <2>2. CASE a = s
    <3>g. /\ b \in snapshot[a] => (Reachable(b)' => Reachable(b))
          /\ b \in snapshot[a] => (b \in sessions' => b \in sessions) /\ b # a
          /\ \A x : InLog(x, b) => InLog(x, b)'
      BY Monotone, NotAddedAgain DEF SnapshotMembers
    <3>1. CASE SpawnSnapshot(s)
      BY <1>t, <2>2, <3>1 DEF SpawnSnapshot, WorkerStep, DeparturePair, Departed, TypeOK
    <3>2. CASE DespawnSnapshot(s)
      <4>1. /\ snapshot'[a] = snapshot[a] /\ todo'[a] = sessions \ {a}
            /\ workerPc'[a] = (IF sessions \ {a} = {} THEN "removeSession" ELSE "despawn")
        BY <1>t, <2>2, <3>2 DEF DespawnSnapshot, WorkerStep, TypeOK
      <4> QED
        BY <3>g, <4>1 DEF DeparturePair, Departed
    <3>3. ASSUME NEW o \in Sessions, Despawn(s, o) PROVE DeparturePair(a, b)'
      <4>1. Reachable(o) => InLog(EntityDespawn(a), o)'
        BY <1>t, <2>2, <3>3, SendLog DEF Despawn
      <4>2. /\ workerPc[a] = "despawn" /\ o \in todo[a] /\ snapshot'[a] = snapshot[a]
            /\ workerPc'[a] = (IF todo[a] = {o} THEN "removeSession" ELSE "despawn")
            /\ todo'[a] = todo[a] \ {o}
        BY <1>t, <2>2, <3>3 DEF Despawn, WorkerStep, TypeOK
      <4> SUFFICES ASSUME b \in sessions', b \in snapshot[a], Reachable(b)'
                   PROVE  (b # o /\ b \in todo[a]) \/ InLog(EntityDespawn(a), b)'
        BY <4>2 DEF DeparturePair, Departed, EntityDespawn
      <4>3. b \in todo[a] \/ InLog(EntityDespawn(a), b)
        BY <1>p, <3>g, <4>2 DEF DeparturePair
      <4> QED
        BY <3>g, <4>1, <4>3
    <3>4. CASE ~SpawnSnapshot(s) /\ ~DespawnSnapshot(s) /\ \A o \in Sessions : ~Despawn(s, o)
      <4>1. snapshot'[a] = snapshot[a]
        BY <1>3, <1>t, <2>2, <3>4 DEF ControlWorker, ProcessOneMessage, BroadcastSpawnsForNewSession,
           LeaveServer, WorkerLoop, ReceiveFails, Receive, ProcessRegister, ProcessIgnored, ProcessCommand,
           SpawnSelf, SpawnOther, Announce, RemoveSession, CloseSession, UncountWorker, broadcastVars
      <4>2. \/ workerPc'[a] \notin Departed \union {"despawn"}
            \/ workerPc[a] \in Departed /\ workerPc'[a] \in Departed
            \/ workerPc'[a] = Leave(a)
        BY <1>3, <1>t, <2>2, <3>4 DEF ControlWorker, ProcessOneMessage, BroadcastSpawnsForNewSession,
           LeaveServer, WorkerLoop, ReceiveFails, Receive, ProcessRegister, ProcessIgnored, ProcessCommand,
           SpawnSelf, SpawnOther, Announce, RemoveSession, CloseSession, UncountWorker, WorkerStep,
           Departed, TypeOK
      <4>3. CASE workerPc'[a] = Leave(a) /\ ~isUdpEndpointRegistered[a]
        BY <4>1, <4>3 DEF SnapshotMembers, DeparturePair
      <4>4. CASE ~(workerPc'[a] = Leave(a) /\ ~isUdpEndpointRegistered[a])
        BY <1>p, <4>1, <4>2, <4>4, DepartureFrame DEF Leave, Departed
      <4> QED
        BY <4>3, <4>4
    <3> QED
      BY <3>1, <3>2, <3>3, <3>4
  <2> QED
    BY <2>1, <2>2
<1> QED
  BY <1>1, <1>2, <1>3 DEF Next

\* The presence invariant is inductive relative to the control invariant.
LEMMA PresenceInductive ==
  ControlInv /\ PresenceInv /\ [Next]_vars => PresenceInv'
<1> SUFFICES ASSUME ControlInv, PresenceInv, [Next]_vars PROVE PresenceInv'
  OBVIOUS
<1>1. CASE Next
  BY <1>1, ConnectedStep, RegisterOnceStep, SnapshotMembersStep, SnapshotStep, SpawnStep,
     DepartureStep DEF PresenceInv
<1>2. CASE UNCHANGED vars
  BY <1>2 DEF vars, mainVars, acceptVars, sessionVars, messageVars, broadcastVars, clientVars,
     PresenceInv, ConnectedInv, RegisterOnce, SnapshotMembers, Added, SnapshotInv, Snapped,
     SpawnInv, ToldAboutOther, AnnouncedTo, Reachable, InLog, DespawnInv, DepartureTold
<1> QED
  BY <1>1, <1>2

\* The presence invariant holds in every reachable state of the server.
THEOREM PresenceInvariant == Spec => []PresenceInv
  BY PresenceInit, PresenceInductive, ControlInvariant, PTL DEF Spec

\* Whatever the interleaving of registrations, two registered clients see each other.
THEOREM RegisteredSeeEachOther == Spec => []MutualVisibility
<1>1. ControlInv /\ PresenceInv => MutualVisibility
  <2> SUFFICES ASSUME ControlInv, PresenceInv, NEW a \in sessions, NEW b \in sessions, a # b,
                      isUdpEndpointRegistered[a], workerPc[a] \in Serving,
                      isUdpEndpointRegistered[b], workerPc[b] \in Serving,
                      Reachable(a), Reachable(b)
               PROVE  InLog(EntitySpawn(a), b) /\ InLog(EntitySpawn(b), a)
    BY DEF MutualVisibility
  <2>0. a \in Sessions /\ b \in Sessions
    BY DEF ControlInv, TypeOK
  <2>1. Snapped(a) /\ Snapped(b)
    BY DEF Snapped, Serving
  <2>2. b \in snapshot[a] \/ a \in snapshot[b]
    BY <2>1 DEF PresenceInv, SnapshotInv
  <2>3. /\ b \in snapshot[a] => ToldAboutOther(a, b) /\ AnnouncedTo(a, b)
        /\ a \in snapshot[b] => ToldAboutOther(b, a) /\ AnnouncedTo(b, a)
    BY <2>0, <2>1 DEF PresenceInv, SpawnInv
  <2> QED
    BY <2>2, <2>3 DEF ToldAboutOther, AnnouncedTo, Serving
<1> QED
  BY <1>1, ControlInvariant, PresenceInvariant, PTL

\* A departed session has told every client it was announced to.
THEOREM DepartureIsTold == Spec => []DepartureTold
<1>1. PresenceInv => DepartureTold
  BY DEF PresenceInv
<1> QED
  BY <1>1, PresenceInvariant, PTL

-----------------------------------------------------------------------------
(* Progress: what StopTerminates and LostClientIsRemoved rest on besides the   *)
(* scheduler.  Who is waited for has a step, by the guards of its actions, and *)
(* every step takes it further along a course of finitely many positions.      *)

Live(s) == workerPc[s] \notin {"none", "done"}

MainCanStep ==
  /\ mainPc \notin {"running", "stopped"}
  /\ mainPc = "join" => acceptPc = "done"
  /\ mainPc = "waitWorkers" => activeControlWorkerCount = 0

AcceptCanStep ==
  /\ acceptPc \notin {"none", "done"}
  /\ acceptPc = "accept" =>
       listener = "closed" \/ (listener = "open" /\ \E s \in Sessions : InBacklog(s))

\* A worker waits for a message or for its socket to be closed, and for nothing else.
WorkerCanStep(s) ==
  /\ Live(s)
  /\ workerPc[s] = "receive" => s \in closed \/ client[s] = "closed" \/ inbox[s] # <<>>
  /\ workerPc[s] \in {"spawnOthers", "announce", "despawn"} => todo[s] # {}

\* While Stop runs either it has a step itself, or the accept thread it joins has one,
\* or the workers it waits for are there and every one of them has one: no socket read,
\* no broadcast to sessions that are gone and no late connection holds Stop up.
NobodyBlocksStop ==
  mainPc \notin {"start", "running", "stopped"} =>
    \/ MainCanStep
    \/ mainPc = "join" /\ AcceptCanStep
    \/ /\ mainPc = "waitWorkers"
       /\ \E s \in Sessions : Live(s)
       /\ \A s \in Sessions : Live(s) => WorkerCanStep(s)

\* The session of a client that is gone always has a thread that can take it further,
\* whatever the other clients and their workers do.
LostClientCanLeave ==
  \A s \in sessions :
    client[s] = "closed" => WorkerCanStep(s) \/ (s = accepted /\ AcceptCanStep)

\* What lies ahead of a thread, from where it is to its end.
MainAhead ==
  [start |-> 7, running |-> 6, closeListener |-> 5, snapshot |-> 4, stopSessions |-> 3,
   join |-> 2, waitWorkers |-> 1, stopped |-> 0]

AcceptAhead ==
  [none |-> 7, accept |-> 6, check |-> 5, addSession |-> 4, countWorker |-> 3,
   startWorker |-> 2, loop |-> 1, done |-> 0]

WorkerAhead ==
  [none |-> 14, process |-> 12, spawnSnapshot |-> 11, spawnSelf |-> 10, spawnOthers |-> 9,
   announce |-> 8, loop |-> 7, receive |-> 6, despawnSnapshot |-> 5, despawn |-> 4,
   removeSession |-> 3, stopSession |-> 2, uncount |-> 1, done |-> 0]

\* Once isRunning_ is false no worker comes back to the receive.
AheadAtStop(pc) == IF pc = "receive" THEN 13 ELSE WorkerAhead[pc]

\* A thread moves on: it is nearer to its end, or its list of sessions is shorter.
MainOn ==
  \/ MainAhead[mainPc'] < MainAhead[mainPc]
  \/ mainPc' = mainPc /\ stopping' \subseteq stopping

AcceptOn == acceptPc' = acceptPc \/ AcceptAhead[acceptPc'] < AcceptAhead[acceptPc]

StopWorkerOn(s) ==
  \/ AheadAtStop(workerPc'[s]) < AheadAtStop(workerPc[s])
  \/ workerPc'[s] = workerPc[s] /\ todo'[s] \subseteq todo[s]

WorkerOn(s) ==
  \/ WorkerAhead[workerPc'[s]] < WorkerAhead[workerPc[s]]
  \/ workerPc'[s] = workerPc[s] /\ todo'[s] \subseteq todo[s]

StoppingStep ==
  /\ MainOn /\ AcceptOn
  /\ \A s \in Sessions : StopWorkerOn(s)
  /\ UNCHANGED <<mainPc, stopping, acceptPc, workerPc, todo>> => \E s \in Sessions : Client(s)

\* From the moment isRunning_ is false nobody turns back: every step of the main thread,
\* the accept thread or a worker takes that thread nearer to its end, or shortens the
\* list it works through, and takes no other thread further from its own.
NobodyTurnsBack == [][mainPc \notin {"start", "running"} => StoppingStep]_vars

\* The worker of a lost client uses up what the client had sent and then only leaves.
LostClientRunsOut ==
  [][\A s \in Sessions :
       client[s] = "closed" =>
         Len(inbox'[s]) < Len(inbox[s]) \/ (inbox'[s] = inbox[s] /\ WorkerOn(s))]_vars

\* A worker in one of its loops has sessions left to send to, those of its snapshot as
\* long as it announces itself, and Stop has gone through its snapshot before it waits.
LoopInv ==
  /\ \A s \in Sessions :
       /\ workerPc[s] \in {"spawnOthers", "announce", "despawn"} => todo[s] # {}
       /\ workerPc[s] = "spawnOthers" => snapshot[s] # {}
       /\ workerPc[s] \in {"spawnOthers", "announce"} => todo[s] \subseteq snapshot[s]
  /\ mainPc \in {"join", "waitWorkers", "stopped"} => stopping = {}

\* The course of a worker, position by position.
LEMMA WorkerCourse ==
  /\ WorkerAhead["process"] = 12 /\ WorkerAhead["spawnSnapshot"] = 11
  /\ WorkerAhead["spawnSelf"] = 10 /\ WorkerAhead["spawnOthers"] = 9
  /\ WorkerAhead["announce"] = 8 /\ WorkerAhead["loop"] = 7 /\ WorkerAhead["receive"] = 6
  /\ WorkerAhead["despawnSnapshot"] = 5 /\ WorkerAhead["despawn"] = 4
  /\ WorkerAhead["removeSession"] = 3 /\ WorkerAhead["stopSession"] = 2
  /\ WorkerAhead["uncount"] = 1 /\ WorkerAhead["done"] = 0
  BY DEF WorkerAhead

\* What a step of the worker s does to its position and to the lists it works through.
LEMMA WorkerAdvances ==
  ASSUME TypeOK, NEW s \in Sessions, ControlWorker(s)
  PROVE  \/ /\ workerPc[s] = "loop" /\ workerPc'[s] = "receive" /\ isRunning
            /\ UNCHANGED <<todo, snapshot, inbox>>
         \/ /\ workerPc[s] \in Serving
            /\ workerPc'[s] \in {"despawnSnapshot", "removeSession"}
            /\ UNCHANGED <<todo, snapshot, inbox>>
         \/ /\ workerPc[s] = "receive" /\ workerPc'[s] = "process"
            /\ inbox[s] # <<>> /\ inbox'[s] = Tail(inbox[s])
            /\ UNCHANGED <<todo, snapshot>>
         \/ /\ workerPc[s] = "process" /\ workerPc'[s] \in {"spawnSnapshot", "loop"}
            /\ UNCHANGED <<todo, snapshot, inbox>>
         \/ /\ workerPc[s] = "spawnSnapshot" /\ workerPc'[s] = "spawnSelf"
            /\ UNCHANGED <<todo, inbox>>
         \/ /\ workerPc[s] = "spawnSelf"
            /\ workerPc'[s] = (IF snapshot[s] = {} THEN "loop" ELSE "spawnOthers")
            /\ todo'[s] = snapshot[s] /\ UNCHANGED <<snapshot, inbox>>
         \/ /\ workerPc[s] \in {"spawnOthers", "announce", "despawn"} /\ workerPc'[s] = workerPc[s]
            /\ todo'[s] \subseteq todo[s] /\ todo'[s] \notin {{}, todo[s]}
            /\ UNCHANGED <<snapshot, inbox>>
         \/ /\ workerPc[s] = "spawnOthers" /\ workerPc'[s] = "announce"
            /\ todo'[s] = snapshot[s] /\ UNCHANGED <<snapshot, inbox>>
         \/ /\ workerPc[s] = "announce" /\ workerPc'[s] = "loop"
            /\ UNCHANGED <<snapshot, inbox>>
         \/ /\ workerPc[s] = "despawn" /\ workerPc'[s] = "removeSession"
            /\ UNCHANGED <<snapshot, inbox>>
         \/ /\ workerPc[s] = "despawnSnapshot" /\ todo'[s] = sessions \ {s}
            /\ workerPc'[s] = (IF sessions \ {s} = {} THEN "removeSession" ELSE "despawn")
            /\ UNCHANGED <<snapshot, inbox>>
         \/ /\ workerPc[s] = "removeSession" /\ workerPc'[s] \in {"stopSession", "uncount"}
            /\ UNCHANGED <<todo, snapshot, inbox>>
         \/ /\ workerPc[s] = "stopSession" /\ workerPc'[s] = "uncount"
            /\ UNCHANGED <<todo, snapshot, inbox>>
         \/ /\ workerPc[s] = "uncount" /\ workerPc'[s] = "done"
            /\ UNCHANGED <<todo, snapshot, inbox>>
<1> USE DEF WorkerStep, Leave, Serving, messageVars, broadcastVars, TypeOK
<1>1. CASE WorkerLoop(s)
  BY <1>1 DEF WorkerLoop
<1>2. CASE ReceiveFails(s)
  BY <1>2 DEF ReceiveFails
<1>3. CASE Receive(s)
  BY <1>3 DEF Receive
<1>4. CASE ProcessRegister(s)
  BY <1>4 DEF ProcessRegister
<1>5. CASE ProcessIgnored(s) \/ ProcessCommand(s)
  BY <1>5 DEF ProcessIgnored, ProcessCommand
<1>6. CASE SpawnSnapshot(s)
  BY <1>6 DEF SpawnSnapshot
<1>7. CASE SpawnSelf(s)
  BY <1>7 DEF SpawnSelf
<1>8. ASSUME NEW o \in Sessions, SpawnOther(s, o)
      PROVE  /\ workerPc[s] = "spawnOthers" /\ UNCHANGED <<snapshot, inbox>>
             /\ \/ /\ workerPc'[s] = workerPc[s] /\ todo'[s] \subseteq todo[s]
                   /\ todo'[s] \notin {{}, todo[s]}
                \/ workerPc'[s] = "announce" /\ todo'[s] = snapshot[s]
  BY <1>8 DEF SpawnOther
<1>9. ASSUME NEW o \in Sessions, Announce(s, o)
      PROVE  /\ workerPc[s] = "announce" /\ UNCHANGED <<snapshot, inbox>>
             /\ \/ /\ workerPc'[s] = workerPc[s] /\ todo'[s] \subseteq todo[s]
                   /\ todo'[s] \notin {{}, todo[s]}
                \/ workerPc'[s] = "loop"
  BY <1>9 DEF Announce
<1>10. ASSUME NEW o \in Sessions, Despawn(s, o)
       PROVE  /\ workerPc[s] = "despawn" /\ UNCHANGED <<snapshot, inbox>>
              /\ \/ /\ workerPc'[s] = workerPc[s] /\ todo'[s] \subseteq todo[s]
                    /\ todo'[s] \notin {{}, todo[s]}
                 \/ workerPc'[s] = "removeSession"
  BY <1>10 DEF Despawn
<1>11. CASE DespawnSnapshot(s)
  BY <1>11 DEF DespawnSnapshot
<1>12. CASE RemoveSession(s) \/ CloseSession(s) \/ UncountWorker(s)
  BY <1>12 DEF RemoveSession, CloseSession, UncountWorker
<1> HIDE DEF WorkerStep, Leave, Serving, messageVars, broadcastVars, TypeOK
<1> QED
  BY <1>1, <1>2, <1>3, <1>4, <1>5, <1>6, <1>7, <1>8, <1>9, <1>10, <1>11, <1>12
     DEF ControlWorker, ProcessOneMessage, BroadcastSpawnsForNewSession, LeaveServer

\* A worker goes on along its course, except that a received message takes it back.
LEMMA WorkerGoesOn ==
  ASSUME TypeOK, NEW s \in Sessions, ControlWorker(s)
  PROVE  WorkerOn(s) \/ (workerPc[s] = "receive" /\ workerPc'[s] = "process")
<1>1. CASE ~(workerPc[s] = "receive" /\ workerPc'[s] = "process")
  BY <1>1, WorkerAdvances, WorkerCourse DEF WorkerOn, Serving
<1> QED
  BY <1>1

\* Start and Stop begin no loop of a worker.
LEMMA LoopInductive == ControlInv /\ LoopInv /\ [Next]_vars => LoopInv'
<1> SUFFICES ASSUME ControlInv, LoopInv, [Next]_vars PROVE LoopInv'
  OBVIOUS
<1>t. TypeOK
  BY DEF ControlInv
<1>1. CASE Main
  <2>1. UNCHANGED <<workerPc, todo, snapshot>>
    BY <1>1 DEF Main, broadcastVars
  <2>2. mainPc' \in {"join", "waitWorkers", "stopped"} => stopping' = {}
    BY <1>1 DEF Main, MainStep, Start, StopBegin, CloseListener, StopSnapshot, StopOneSession,
       StopSessionsDone, JoinAcceptThread, WaitWorkers, LoopInv
  <2> QED
    BY <2>1, <2>2 DEF LoopInv
<1>2. CASE AcceptWorker
  <2>1. UNCHANGED <<mainPc, stopping, todo, snapshot>>
    BY <1>2 DEF AcceptWorker, mainVars, broadcastVars
  <2>2. \A s \in Sessions : workerPc'[s] \in {workerPc[s], "loop"}
    BY <1>2, <1>t DEF AcceptWorker, AcceptLoop, AcceptFails, AcceptCheck, Accept, AddSession,
       CountWorker, StartWorker, TypeOK
  <2> QED
    BY <2>1, <2>2 DEF LoopInv
<1>3. ASSUME NEW s \in Sessions, ControlWorker(s) PROVE LoopInv'
  <2>1. UNCHANGED <<mainPc, stopping>>
    BY <1>3 DEF ControlWorker, mainVars
  <2>2. \A r \in Sessions : r # s =>
          workerPc'[r] = workerPc[r] /\ todo'[r] = todo[r] /\ snapshot'[r] = snapshot[r]
    BY <1>3, <1>t, WorkerFrame
  <2>3. /\ workerPc'[s] \in {"spawnOthers", "announce", "despawn"} => todo'[s] # {}
        /\ workerPc'[s] = "spawnOthers" => snapshot'[s] # {}
        /\ workerPc'[s] \in {"spawnOthers", "announce"} => todo'[s] \subseteq snapshot'[s]
    BY <1>3, <1>t, WorkerAdvances DEF LoopInv
  <2> QED
    BY <2>1, <2>2, <2>3 DEF LoopInv
<1>4. ASSUME NEW s \in Sessions, Client(s) PROVE LoopInv'
  BY <1>4 DEF Client, mainVars, broadcastVars, LoopInv
<1>5. CASE UNCHANGED vars
  BY <1>5 DEF vars, mainVars, broadcastVars, LoopInv
<1> QED
  BY <1>1, <1>2, <1>3, <1>4, <1>5 DEF Next

\* No loop over sessions is ever entered with none, in any reachable state.
THEOREM LoopInvariant == Spec => []LoopInv
<1>1. Init => LoopInv
  BY DEF Init, LoopInv
<1> QED
  BY <1>1, LoopInductive, ControlInvariant, PTL DEF Spec

\* TcpControlServer::Stop never waits for a thread that waits itself: its join and its
\* wait for activeControlWorkerCount_ are for threads that have a step.
THEOREM StopIsNeverBlocked == Spec => []NobodyBlocksStop
<1>1. ASSUME ControlInv, CountInv, LoopInv PROVE NobodyBlocksStop
  <2> SUFFICES ASSUME mainPc \notin {"start", "running", "stopped"}, ~MainCanStep
               PROVE  \/ mainPc = "join" /\ AcceptCanStep
                      \/ /\ mainPc = "waitWorkers"
                         /\ \E s \in Sessions : Live(s)
                         /\ \A s \in Sessions : Live(s) => WorkerCanStep(s)
    BY DEF NobodyBlocksStop
  <2>t. TypeOK /\ MainInv
    BY <1>1 DEF ControlInv
  <2>1. CASE mainPc = "join"
    BY <2>1, <2>t DEF MainCanStep, AcceptCanStep, MainInv
  <2>2. CASE mainPc = "waitWorkers"
    <3>1. \E s \in Sessions : Live(s)
      <4>1. activeControlWorkerCount # 0
        BY <2>2 DEF MainCanStep
      <4>2. Counted # {}
        BY <1>1, <4>1, FS_EmptySet DEF CountInv
      <4>3. acceptPc # "startWorker"
        BY <2>2, <2>t DEF MainInv
      <4> QED
        BY <4>2, <4>3 DEF Counted, Live
    <3>2. \A s \in Sessions : Live(s) => WorkerCanStep(s)
      BY <1>1, <2>2 DEF ControlInv, StopUnblocksReceivers, LoopInv, WorkerCanStep
    <3> QED
      BY <2>2, <3>1, <3>2
  <2>3. mainPc \in {"join", "waitWorkers"}
    BY DEF MainCanStep
  <2> QED
    BY <2>1, <2>2, <2>3
<1> QED
  BY <1>1, ControlInvariant, LoopInvariant, PTL

\* With isRunning_ false every step of a server thread is one less that is left.
THEOREM StopRunsDown == Spec => NobodyTurnsBack
<1>1. ASSUME ControlInv, Next, mainPc \notin {"start", "running"} PROVE StoppingStep
  <2>t. TypeOK /\ ~isRunning
    BY <1>1 DEF ControlInv, MainInv
  <2>1. CASE Main
    <3>1. UNCHANGED <<workerPc, todo>>
      BY <2>1 DEF Main, broadcastVars
    <3>2. MainOn /\ UNCHANGED acceptPc /\ (mainPc' # mainPc \/ stopping' # stopping)
      BY <1>1, <2>1 DEF Main, MainStep, MainOn, MainAhead, Start, StopBegin, CloseListener,
         StopSnapshot, StopOneSession, StopSessionsDone, JoinAcceptThread, WaitWorkers
    <3> QED
      BY <3>1, <3>2 DEF StoppingStep, AcceptOn, StopWorkerOn
  <2>2. CASE AcceptWorker
    <3>1. UNCHANGED <<mainPc, stopping, todo>>
      BY <2>2 DEF AcceptWorker, mainVars, broadcastVars
    <3>2. AcceptOn /\ acceptPc' # acceptPc
      BY <2>2, <2>t DEF AcceptWorker, AcceptStep, AcceptOn, AcceptAhead, AcceptLoop, AcceptFails,
         AcceptCheck, Accept, AddSession, CountWorker, StartWorker
    <3>3. \A s \in Sessions : StopWorkerOn(s)
      <4>1. CASE StartWorker
        <5>1. accepted \in Sessions /\ workerPc[accepted] = "none"
          BY <1>1, <4>1, <2>t DEF StartWorker, AcceptStep, ControlInv, AcceptInv, TypeOK
        <5>2. workerPc' = [workerPc EXCEPT ![accepted] = "loop"]
          BY <4>1 DEF StartWorker
        <5> QED
          BY <2>t, <3>1, <5>1, <5>2 DEF StopWorkerOn, AheadAtStop, WorkerAhead, TypeOK
      <4>2. CASE UNCHANGED workerPc
        BY <3>1, <4>2 DEF StopWorkerOn
      <4> QED
        BY <2>2, <4>1, <4>2 DEF AcceptWorker, AcceptLoop, AcceptFails, AcceptCheck, Accept,
           AddSession, CountWorker
    <3> QED
      BY <3>1, <3>2, <3>3 DEF StoppingStep, MainOn
  <2>3. ASSUME NEW s \in Sessions, ControlWorker(s) PROVE StoppingStep
    <3>1. UNCHANGED <<mainPc, stopping, acceptPc>>
      BY <2>3 DEF ControlWorker, mainVars, acceptVars
    <3>2. \A r \in Sessions : r # s => workerPc'[r] = workerPc[r] /\ todo'[r] = todo[r]
      BY <2>3, <2>t, WorkerFrame
    <3>3. StopWorkerOn(s) /\ (workerPc'[s] # workerPc[s] \/ todo'[s] # todo[s])
      <4>1. workerPc'[s] # workerPc[s] \/ todo'[s] # todo[s]
        BY <2>3, <2>t, WorkerAdvances DEF Serving
      <4>2. CASE workerPc[s] = "receive"
        <5>1. workerPc'[s] \in {"process", "despawnSnapshot", "removeSession"}
          BY <2>3, <2>t, <4>2, WorkerAdvances
        <5> QED
          BY <4>1, <4>2, <5>1, WorkerCourse DEF StopWorkerOn, AheadAtStop
      <4>3. CASE workerPc[s] # "receive"
        <5>1. workerPc'[s] # "receive"
          BY <2>3, <2>t, <4>3, WorkerAdvances
        <5>2. WorkerOn(s)
          BY <2>3, <2>t, <4>3, WorkerGoesOn
        <5> QED
          BY <4>1, <4>3, <5>1, <5>2 DEF StopWorkerOn, WorkerOn, AheadAtStop
      <4> QED
        BY <4>2, <4>3
    <3>4. \A r \in Sessions : StopWorkerOn(r)
      BY <3>2, <3>3 DEF StopWorkerOn
    <3>5. MainOn /\ AcceptOn /\ (workerPc' # workerPc \/ todo' # todo)
      BY <3>1, <3>3 DEF MainOn, AcceptOn
    <3> QED
      BY <3>4, <3>5 DEF StoppingStep
  <2>4. ASSUME NEW s \in Sessions, Client(s) PROVE StoppingStep
    BY <2>4 DEF Client, mainVars, acceptVars, broadcastVars, StoppingStep, MainOn, AcceptOn,
       StopWorkerOn
  <2> QED
    BY <1>1, <2>1, <2>2, <2>3, <2>4 DEF Next
<1>2. ControlInv /\ [Next]_vars => [mainPc \notin {"start", "running"} => StoppingStep]_vars
  BY <1>1
<1> QED
  BY <1>2, ControlInvariant, PTL DEF Spec, NobodyTurnsBack

\* The session of a lost client leaves: its worker has a step until it has ended, and
\* has only finitely many, for nothing more comes in (ProcessOneMessage's false return).
THEOREM LostClientLeaves == Spec => []LostClientCanLeave /\ LostClientRunsOut
<1>1. ControlInv /\ LoopInv => LostClientCanLeave
  BY DEF ControlInv, TypeOK, SessionsMatchWorkers, LoopInv, LostClientCanLeave, WorkerCanStep,
     AcceptCanStep, Live
<1> DEFINE On(s) ==
             Len(inbox'[s]) < Len(inbox[s]) \/ (inbox'[s] = inbox[s] /\ WorkerOn(s))
           Step == \A s \in Sessions : client[s] = "closed" => On(s)
<1>2. ASSUME ControlInv, Next PROVE Step
  <2> SUFFICES ASSUME NEW a \in Sessions, client[a] = "closed" PROVE On(a)
    OBVIOUS
  <2>t. TypeOK
    BY <1>2 DEF ControlInv
  <2>1. CASE Main
    BY <2>1 DEF Main, messageVars, broadcastVars, WorkerOn
  <2>2. CASE AcceptWorker
    <3>1. UNCHANGED <<inbox, todo>>
      BY <2>2 DEF AcceptWorker, messageVars, broadcastVars
    <3>2. workerPc'[a] = workerPc[a] \/ (workerPc[a] = "none" /\ workerPc'[a] = "loop")
      BY <1>2, <2>t, <2>2 DEF AcceptWorker, AcceptLoop, AcceptFails, AcceptCheck, Accept,
         AddSession, CountWorker, StartWorker, AcceptStep, ControlInv, AcceptInv, TypeOK
    <3> QED
      BY <3>1, <3>2 DEF WorkerOn, WorkerAhead
  <2>3. ASSUME NEW s \in Sessions, ControlWorker(s) PROVE On(a)
    <3>1. CASE a = s
      <4>1. CASE workerPc[s] = "receive" /\ workerPc'[s] = "process"
        <5>1. inbox[s] # <<>> /\ inbox'[s] = Tail(inbox[s])
          BY <2>3, <2>t, <4>1, WorkerAdvances
        <5>2. inbox[s] \in Seq(ClientMessages)
          BY <2>t DEF TypeOK
        <5> QED
          BY <3>1, <5>1, <5>2
      <4>2. CASE ~(workerPc[s] = "receive" /\ workerPc'[s] = "process")
        <5>1. inbox'[s] = inbox[s]
          BY <2>3, <2>t, <4>2, WorkerAdvances
        <5>2. WorkerOn(s)
          BY <2>3, <2>t, <4>2, WorkerGoesOn
        <5> QED
          BY <3>1, <5>1, <5>2
      <4> QED
        BY <4>1, <4>2
    <3>2. CASE a # s
      BY <2>3, <2>t, <3>2, WorkerFrame DEF WorkerOn
    <3> QED
      BY <3>1, <3>2
  <2>4. ASSUME NEW s \in Sessions, Client(s) PROVE On(a)
    BY <2>4, <2>t DEF Client, broadcastVars, Connect, ClientSends, ClientCloses, TypeOK, WorkerOn
  <2> QED
    BY <1>2, <2>1, <2>2, <2>3, <2>4 DEF Next
<1>3. ControlInv /\ [Next]_vars => [Step]_vars
  BY <1>2
<1> QED
  BY <1>1, <1>3, ControlInvariant, LoopInvariant, PTL DEF Spec, LostClientRunsOut

-----------------------------------------------------------------------------
(* The refinement of Membership *)

\* How far a session has got follows from the SessionManager, its worker and its flag.
LEMMA SameStages ==
  ASSUME UNCHANGED <<sessions, workerPc, isUdpEndpointRegistered>>
  PROVE  UNCHANGED StageOf
  BY DEF StageOf, Stage

\* A session that nobody has added is absent, one whose worker has a position is not.
LEMMA StagesOfSessions ==
  ASSUME ControlInv, NEW s \in Sessions
  PROVE  /\ StageOf[s] = Stage(s)
         /\ Added(s) => Stage(s) # "absent"
         /\ workerPc[s] = "none" => Stage(s) = (IF s \in sessions THEN "joined" ELSE "absent")
         /\ workerPc[s] \in Serving => 
              Stage(s) = (IF isUdpEndpointRegistered[s] THEN "visible" ELSE "joined")
         /\ workerPc[s] \in Spawning => Stage(s) = "registered"
         /\ workerPc[s] \in {"despawnSnapshot", "despawn", "removeSession"} => Stage(s) = "leaving"
         /\ workerPc[s] = "stopSession" => Stage(s) = "removed"
         /\ workerPc[s] \in {"uncount", "done"} => Stage(s) = "gone"
         /\ s \in sessions <=> Stage(s) \in {"joined", "registered", "visible", "leaving"}
         /\ Stage(s) = "visible" =>
              s \in sessions /\ isUdpEndpointRegistered[s] /\ workerPc[s] \in Serving
<1>1. StageOf[s] = Stage(s)
  BY DEF StageOf
<1>2. /\ s \in sessions <=>
           \/ s = accepted /\ acceptPc \in {"countWorker", "startWorker"}
           \/ workerPc[s] \notin {"none", "stopSession", "uncount", "done"}
      /\ workerPc[s] \in WorkerPcs
      /\ isUdpEndpointRegistered[s] => workerPc[s] # "none"
      /\ workerPc[s] \in Spawning \union {"despawnSnapshot", "despawn"} => isUdpEndpointRegistered[s]
      /\ s = accepted => workerPc[s] = "none"
  BY DEF ControlInv, SessionsMatchWorkers, TypeOK, RegistrationInv, AcceptInv
<1> QED
  BY <1>1, <1>2 DEF Stage, Added, WorkerPcs, Serving, Spawning, Departing

\* The members of the registry are the sessions of the SessionManager.
LEMMA MembersAreSessions == ControlInv => Registry!Members = sessions
  BY StagesOfSessions DEF Registry!Members, ControlInv, TypeOK

\* A step that touches the membership, the position and the flag of s alone moves the
\* stage of s alone.
LEMMA OneStage ==
  ASSUME NEW s \in Sessions,
         \A r \in Sessions : r # s =>
           /\ r \in sessions' <=> r \in sessions
           /\ workerPc'[r] = workerPc[r]
           /\ isUdpEndpointRegistered'[r] = isUdpEndpointRegistered[r]
  PROVE  /\ StageOf' = [StageOf EXCEPT ![s] = StageOf'[s]]
         /\ StageOf'[s] = StageOf[s] => UNCHANGED StageOf
<1>1. \A r \in Sessions : r # s => StageOf'[r] = StageOf[r]
  BY DEF StageOf, Stage
<1>2. /\ StageOf = [r \in Sessions |-> StageOf[r]]
      /\ StageOf' = [r \in Sessions |-> StageOf'[r]]
  BY DEF StageOf, Stage
<1> QED
  BY <1>1, <1>2

\* What SendAll delivers is what a client has been told.
LEMMA SendTold ==
  ASSUME TypeOK, NEW d \in Sessions, NEW o \in Sessions
  PROVE  /\ Send(d, EntitySpawn(o)) =>
              /\ UNCHANGED ToldGone
              /\ \/ UNCHANGED Told
                 \/ d \in Listening /\ Told' = [Told EXCEPT ![d] = @ \union {o}]
         /\ Send(d, EntityDespawn(o)) =>
              /\ UNCHANGED Told
              /\ \/ UNCHANGED ToldGone
                 \/ d \in Listening /\ ToldGone' = [ToldGone EXCEPT ![d] = @ \union {o}]
<1>1. ASSUME NEW m \in ServerMessages, Send(d, m)
      PROVE  \/ UNCHANGED log
             \/ /\ d \in Listening
                /\ \A e \in Sessions, x \in ServerMessages :
                     InLog(x, e)' <=> InLog(x, e) \/ (e = d /\ x = m)
  <2>1. CASE ~Reachable(d)
    BY <1>1, <2>1 DEF Send
  <2>2. CASE Reachable(d)
    <3>1. log' = [log EXCEPT ![d] = Append(log[d], m)]
      BY <1>1, <2>2 DEF Send
    <3>2. ASSUME NEW e \in Sessions, NEW x \in ServerMessages
          PROVE  InLog(x, e)' <=> InLog(x, e) \/ (e = d /\ x = m)
      <4>1. CASE e # d
        BY <3>1, <4>1 DEF InLog, TypeOK
      <4>2. CASE e = d
        <5>1. log[d] \in Seq(ServerMessages) /\ log'[d] = Append(log[d], m)
          BY <3>1 DEF TypeOK
        <5>2. /\ DOMAIN log[d] = 1 .. Len(log[d]) /\ Len(log[d]) \in Nat
              /\ DOMAIN log'[d] = 1 .. Len(log[d]) + 1
              /\ \A i \in 1 .. Len(log[d]) : log'[d][i] = log[d][i]
              /\ log'[d][Len(log[d]) + 1] = m
          BY <5>1
        <5> QED
          BY <4>2, <5>2 DEF InLog
      <4> QED
        BY <4>1, <4>2
    <3> QED
      BY <2>2, <3>2 DEF Listening
  <2> QED
    BY <2>1, <2>2
<1>2. /\ EntitySpawn(o) \in ServerMessages /\ EntityDespawn(o) \in ServerMessages
      /\ \A x \in Sessions : EntitySpawn(x) \in ServerMessages /\ EntityDespawn(x) \in ServerMessages
      /\ \A x, y \in Sessions : EntitySpawn(x) # EntityDespawn(y)
      /\ \A x, y \in Sessions : EntitySpawn(x) = EntitySpawn(y) => x = y
      /\ \A x, y \in Sessions : EntityDespawn(x) = EntityDespawn(y) => x = y
  BY ServerMessageType DEF EntitySpawn, EntityDespawn
<1>3. UNCHANGED log => UNCHANGED Told /\ UNCHANGED ToldGone
  BY DEF Told, ToldGone, InLog
<1>4. ASSUME Send(d, EntitySpawn(o))
      PROVE  /\ UNCHANGED ToldGone
             /\ \/ UNCHANGED Told
                \/ d \in Listening /\ Told' = [Told EXCEPT ![d] = @ \union {o}]
  <2>1. CASE UNCHANGED log
    BY <2>1, <1>3
  <2>2. CASE ~UNCHANGED log
    <3>1. /\ d \in Listening
          /\ \A e \in Sessions, x \in ServerMessages :
               InLog(x, e)' <=> InLog(x, e) \/ (e = d /\ x = EntitySpawn(o))
      BY <1>1, <1>2, <1>4, <2>2
    <3>2. \A e, x \in Sessions : InLog(EntityDespawn(x), e)' <=> InLog(EntityDespawn(x), e)
      BY <1>2, <3>1
    <3>3. \A e, x \in Sessions :
            InLog(EntitySpawn(x), e)' <=> InLog(EntitySpawn(x), e) \/ (e = d /\ x = o)
      BY <1>2, <3>1
    <3>4. UNCHANGED ToldGone
      BY <3>2 DEF ToldGone
    <3>5. ASSUME NEW e \in Sessions
          PROVE  {x \in Sessions : InLog(EntitySpawn(x), e)'}
                   = [Told EXCEPT ![d] = @ \union {o}][e]
      BY <3>3 DEF Told
    <3>6. Told' = [Told EXCEPT ![d] = @ \union {o}]
      BY <3>5 DEF Told
    <3> QED
      BY <3>1, <3>4, <3>6
  <2> QED
    BY <2>1, <2>2
<1>5. ASSUME Send(d, EntityDespawn(o))
      PROVE  /\ UNCHANGED Told
             /\ \/ UNCHANGED ToldGone
                \/ d \in Listening /\ ToldGone' = [ToldGone EXCEPT ![d] = @ \union {o}]
  <2>1. CASE UNCHANGED log
    BY <2>1, <1>3
  <2>2. CASE ~UNCHANGED log
    <3>1. /\ d \in Listening
          /\ \A e \in Sessions, x \in ServerMessages :
               InLog(x, e)' <=> InLog(x, e) \/ (e = d /\ x = EntityDespawn(o))
      BY <1>1, <1>2, <1>5, <2>2
    <3>2. \A e, x \in Sessions : InLog(EntitySpawn(x), e)' <=> InLog(EntitySpawn(x), e)
      BY <1>2, <3>1
    <3>3. \A e, x \in Sessions :
            InLog(EntityDespawn(x), e)' <=> InLog(EntityDespawn(x), e) \/ (e = d /\ x = o)
      BY <1>2, <3>1
    <3>4. UNCHANGED Told
      BY <3>2 DEF Told
    <3>5. ASSUME NEW e \in Sessions
          PROVE  {x \in Sessions : InLog(EntityDespawn(x), e)'}
                   = [ToldGone EXCEPT ![d] = @ \union {o}][e]
      BY <3>3 DEF ToldGone
    <3>6. ToldGone' = [ToldGone EXCEPT ![d] = @ \union {o}]
      BY <3>5 DEF ToldGone
    <3> QED
      BY <3>1, <3>4, <3>6
  <2> QED
    BY <2>1, <2>2
<1> QED
  BY <1>4, <1>5

\* What the registry shows of the server changes only with what it is made of.
LEMMA SameView ==
  /\ UNCHANGED mainPc => UNCHANGED Phase
  /\ UNCHANGED session => UNCHANGED Streaming
  /\ UNCHANGED <<closed, client>> => UNCHANGED Listening
  /\ UNCHANGED client /\ closed \subseteq closed' => Listening' \subseteq Listening
  /\ UNCHANGED log => UNCHANGED <<Told, ToldGone>>
  BY DEF Phase, Streaming, Listening, Reachable, Told, ToldGone, InLog

\* A session that is stopped streams no longer and its client hears no more of it.
LEMMA StoppedView ==
  ASSUME ControlInv, NEW s \in Sessions, UNCHANGED client,
         session' = [session EXCEPT ![s] = StopSession(@)],
         closed' = closed \union {s}
  PROVE  /\ Streaming' = Streaming \ {s}
         /\ Listening' = Listening \ {s}
<1>1. session \in [Sessions -> ClientSessionType]
  BY DEF ControlInv, TypeOK
<1>2. session'[s].state = "Stopped"
  BY <1>1, StopSessionEffect
<1>3. \A r \in Sessions : r # s => session'[r] = session[r]
  BY <1>1
<1>4. Streaming' = Streaming \ {s}
  BY <1>2, <1>3 DEF Streaming
<1>5. Listening' = Listening \ {s}
  BY DEF Listening, Reachable
<1> QED
  BY <1>4, <1>5

\* The main thread opens the registry, halts the sessions, and closes it when all are gone.
LEMMA MainRefines ==
  ControlInv /\ ControlInv' /\ Main => [Registry!Next]_Registry!vars
<1> SUFFICES ASSUME ControlInv, ControlInv', Main PROVE [Registry!Next]_Registry!vars
  OBVIOUS
<1>1. /\ UNCHANGED StageOf
      /\ UNCHANGED <<snapshot, Told, ToldGone, client>>
  BY SameStages, SameView DEF Main, messageVars, broadcastVars, clientVars
<1>2. CASE Start
  <2>1. Phase = "off" /\ Phase' = "up"
    BY <1>2 DEF Start, MainStep, Phase
  <2>2. UNCHANGED <<Streaming, Listening>>
    BY <1>1, <1>2, SameView DEF Start
  <2>3. Registry!Open
    BY <1>1, <2>1, <2>2 DEF Registry!Open, Registry!Phase
  <2> QED
    BY <2>3 DEF Registry!Next
<1>3. CASE StopBegin
  <2>1. Phase = "up" /\ Phase' = "stopping"
    BY <1>3 DEF StopBegin, MainStep, Phase
  <2>2. UNCHANGED <<Streaming, Listening>>
    BY <1>1, <1>3, SameView DEF StopBegin
  <2>3. Registry!StopBegins
    BY <1>1, <2>1, <2>2 DEF Registry!StopBegins, Registry!Phase
  <2> QED
    BY <2>3 DEF Registry!Next
<1>4. CASE CloseListener
  <2>1. UNCHANGED Phase
    BY <1>4 DEF CloseListener, MainStep, Phase
  <2>2. UNCHANGED Streaming /\ Listening' \subseteq Listening
    BY <1>1, <1>4, SameView DEF CloseListener
  <2>3. Registry!HangUp
    BY <1>1, <2>1, <2>2 DEF Registry!HangUp
  <2> QED
    BY <2>3 DEF Registry!Next
<1>5. CASE StopSnapshot \/ StopSessionsDone \/ JoinAcceptThread
  <2>1. UNCHANGED Phase
    BY <1>5 DEF StopSnapshot, StopSessionsDone, JoinAcceptThread, MainStep, Phase
  <2>2. UNCHANGED <<Streaming, Listening>>
    BY <1>1, <1>5, SameView DEF StopSnapshot, StopSessionsDone, JoinAcceptThread
  <2> QED
    BY <1>1, <2>1, <2>2 DEF Registry!vars
<1>6. ASSUME NEW s \in Sessions, StopOneSession(s) PROVE [Registry!Next]_Registry!vars
  <2>1. UNCHANGED Phase
    BY <1>6, SameView DEF StopOneSession, MainStep
  <2>2. Streaming' = Streaming \ {s} /\ Listening' = Listening \ {s}
    BY <1>1, <1>6, StoppedView DEF StopOneSession
  <2>3. Registry!Halt(s)
    BY <1>1, <2>1, <2>2 DEF Registry!Halt
  <2> QED
    BY <2>3 DEF Registry!Next
<1>7. CASE WaitWorkers
  <2>1. Phase = "stopping" /\ Phase' = "stopped"
    BY <1>7 DEF WaitWorkers, MainStep, Phase
  <2>2. UNCHANGED <<Streaming, Listening>>
    BY <1>1, <1>7, SameView DEF WaitWorkers
  <2>3. \A s \in Sessions : workerPc'[s] \in {"none", "done"}
    BY <1>7 DEF ControlInv, StoppedInv, WaitWorkers, MainStep
  <2>4. acceptPc' = "done"
    BY <1>7 DEF ControlInv, MainInv, WaitWorkers, MainStep
  <2>5. \A s \in Sessions : s \notin sessions'
    BY <2>3, <2>4 DEF ControlInv, SessionsMatchWorkers
  <2>6. \A s \in Sessions : StageOf'[s] \in {"absent", "gone"}
    BY <2>3, <2>5 DEF StageOf, Stage
  <2>7. Registry!StopEnds
    BY <1>1, <2>1, <2>2, <2>6 DEF Registry!StopEnds, Registry!Phase
  <2> QED
    BY <2>7 DEF Registry!Next
<1> QED
  BY <1>2, <1>3, <1>4, <1>5, <1>6, <1>7 DEF Main

\* The accept thread adds a member or drops a connection; the rest of it is not seen.
LEMMA AcceptRefines ==
  ControlInv /\ ControlInv' /\ AcceptWorker => [Registry!Next]_Registry!vars
<1> SUFFICES ASSUME ControlInv, ControlInv', AcceptWorker PROVE [Registry!Next]_Registry!vars
  OBVIOUS
<1>1. /\ UNCHANGED <<mainPc, session, log, client, isUdpEndpointRegistered, snapshot>>
      /\ UNCHANGED <<Phase, Streaming, Told, ToldGone>>
  BY SameView DEF AcceptWorker, mainVars, messageVars, broadcastVars, clientVars
<1>2. CASE AcceptFails \/ AcceptCheck
  <2>1. UNCHANGED StageOf
    BY <1>1, <1>2, SameStages DEF AcceptFails, AcceptCheck
  <2>2. Listening' \subseteq Listening
    BY <1>1, <1>2, SameView DEF AcceptFails, AcceptCheck
  <2>3. Registry!HangUp
    BY <1>1, <2>1, <2>2 DEF Registry!HangUp
  <2> QED
    BY <2>3 DEF Registry!Next
<1>3. CASE AcceptLoop \/ CountWorker \/ \E s \in Sessions : Accept(s)
  <2>1. UNCHANGED StageOf
    BY <1>1, <1>3, SameStages DEF AcceptLoop, CountWorker, Accept
  <2>2. UNCHANGED Listening
    BY <1>1, <1>3, SameView DEF AcceptLoop, CountWorker, Accept
  <2> QED
    BY <1>1, <2>1, <2>2 DEF Registry!vars
<1>4. CASE AddSession
  <2>1. accepted \in Sessions /\ workerPc[accepted] = "none" /\ accepted \notin sessions
    BY <1>4 DEF AddSession, AcceptStep, ControlInv, TypeOK, AcceptInv, SessionsMatchWorkers
  <2>2. ~isUdpEndpointRegistered[accepted]
    BY <2>1 DEF ControlInv, RegistrationInv
  <2>3. Phase \in {"up", "stopping"}
    BY <1>4 DEF AddSession, AcceptStep, ControlInv, MainInv, Phase
  <2>4. StageOf[accepted] = "absent"
    BY <2>1 DEF StageOf, Stage
  <2>5. StageOf'[accepted] = "joined"
    BY <1>1, <1>4, <2>1, <2>2 DEF AddSession, StageOf, Stage, Departing
  <2>6. \A r \in Sessions : r # accepted => (r \in sessions' <=> r \in sessions)
    BY <1>4 DEF AddSession
  <2>7. StageOf' = [StageOf EXCEPT ![accepted] = "joined"]
    BY <1>1, <1>4, <2>1, <2>5, <2>6, OneStage DEF AddSession
  <2>8. UNCHANGED Listening
    BY <1>1, <1>4, SameView DEF AddSession
  <2>9. Registry!Join(accepted)
    BY <1>1, <2>1, <2>3, <2>4, <2>7, <2>8 DEF Registry!Join, Registry!Stage
  <2> QED
    BY <2>1, <2>9 DEF Registry!Next
<1>5. CASE StartWorker
  <2>1. /\ accepted \in Sessions /\ workerPc[accepted] = "none"
        /\ ~isUdpEndpointRegistered[accepted]
        /\ workerPc' = [workerPc EXCEPT ![accepted] = "loop"] /\ UNCHANGED <<sessions, closed>>
    BY <1>5 DEF StartWorker, AcceptStep, ControlInv, TypeOK, AcceptInv, RegistrationInv
  <2>2. StageOf'[accepted] = StageOf[accepted]
    BY <1>1, <2>1 DEF StageOf, Stage, Departing, ControlInv, TypeOK
  <2>3. \A r \in Sessions : r # accepted => workerPc'[r] = workerPc[r]
    BY <2>1 DEF ControlInv, TypeOK
  <2>4. UNCHANGED StageOf
    BY <1>1, <2>1, <2>2, <2>3, OneStage
  <2>5. UNCHANGED Listening
    BY <1>1, <2>1, SameView
  <2> QED
    BY <1>1, <2>4, <2>5 DEF Registry!vars
<1> QED
  BY <1>2, <1>3, <1>4, <1>5 DEF AcceptWorker

\* The other ends connect and hang up; what they send is not seen until it is handled.
LEMMA ClientRefines ==
  ASSUME ControlInv, ConnectedInv, NEW s \in Sessions, Client(s)
  PROVE  [Registry!Next]_Registry!vars
<1>1. /\ UNCHANGED <<mainPc, session, log, closed, snapshot>>
      /\ UNCHANGED <<Phase, StageOf, Streaming, Told, ToldGone>>
  BY SameView, SameStages DEF Client, mainVars, sessionVars, broadcastVars
<1>2. client \in [Sessions -> {"idle", "open", "closed"}]
  BY DEF ControlInv, TypeOK
<1>3. CASE Connect(s)
  <2>1. workerPc[s] = "none" /\ s # accepted
    BY <1>3 DEF Connect, ConnectedInv
  <2>2. Stage(s) = "absent"
    BY <2>1 DEF ControlInv, SessionsMatchWorkers, Stage
  <2>3. CASE s \in closed
    <3>1. UNCHANGED Listening
      BY <1>1, <1>2, <1>3, <2>3 DEF Connect, Listening, Reachable
    <3> QED
      BY <1>1, <3>1 DEF Registry!vars
  <2>4. CASE s \notin closed
    <3>1. Listening' = Listening \union {s}
      BY <1>1, <1>2, <1>3, <2>4 DEF Connect, Listening, Reachable
    <3>2. Registry!Connect(s)
      BY <1>1, <2>2, <3>1 DEF Registry!Connect, StageOf
    <3> QED
      BY <3>2 DEF Registry!Next
  <2> QED
    BY <2>3, <2>4
<1>4. CASE ClientCloses(s)
  <2>1. Listening' \subseteq Listening
    BY <1>1, <1>2, <1>4 DEF ClientCloses, Listening, Reachable
  <2>2. Registry!HangUp
    BY <1>1, <2>1 DEF Registry!HangUp
  <2> QED
    BY <2>2 DEF Registry!Next
<1>5. CASE \E m \in ClientMessages : ClientSends(s, m)
  <2>1. UNCHANGED Listening
    BY <1>1, <1>5, SameView DEF ClientSends
  <2> QED
    BY <1>1, <2>1 DEF Registry!vars
<1> QED
  BY <1>3, <1>4, <1>5 DEF Client

\* What a step of the worker s can show of the registry: the stage of s, and what it does
\* to the session, the socket and the connections it writes to.
LEMMA WorkerView ==
  ASSUME ControlInv, NEW s \in Sessions, ControlWorker(s)
  PROVE  /\ UNCHANGED <<Phase, client>>
         /\ StageOf' = [StageOf EXCEPT ![s] = StageOf'[s]]
         /\ StageOf'[s] = StageOf[s] => UNCHANGED StageOf
<1>1. UNCHANGED <<mainPc, client>>
  BY DEF ControlWorker, mainVars, clientVars
<1>2. \A r \in Sessions : r # s => (r \in sessions' <=> r \in sessions)
  BY DEF ControlWorker, ProcessOneMessage, BroadcastSpawnsForNewSession, LeaveServer, WorkerLoop,
         ReceiveFails, Receive, ProcessRegister, ProcessIgnored, ProcessCommand, SpawnSnapshot,
         SpawnSelf, SpawnOther, Announce, DespawnSnapshot, Despawn, RemoveSession, CloseSession,
         UncountWorker, sessionVars
<1>3. TypeOK
  BY DEF ControlInv
<1> QED
  BY <1>1, <1>2, <1>3, SameView, WorkerFrame, OneStage

\* A worker in its loop goes on, or leaves.
LEMMA LoopRefines ==
  ASSUME ControlInv, NEW s \in Sessions, ControlWorker(s), WorkerLoop(s) \/ ReceiveFails(s)
  PROVE  [Registry!Next]_Registry!vars
<1>1. UNCHANGED <<session, closed, client, log, snapshot, sessions, isUdpEndpointRegistered>>
  BY DEF WorkerLoop, ReceiveFails, sessionVars, messageVars, broadcastVars, ControlWorker, clientVars
<1>2. UNCHANGED <<Phase, Streaming, Listening, Told, ToldGone>>
  BY <1>1, WorkerView, SameView
<1>3. /\ workerPc[s] \in {"loop", "receive"} /\ s \in sessions
      /\ workerPc'[s] \in {"receive", "despawnSnapshot", "removeSession"}
  BY DEF WorkerLoop, ReceiveFails, WorkerStep, Leave, ControlInv, TypeOK, SessionsMatchWorkers
<1>4. StageOf[s] \in {"joined", "visible"}
  BY <1>3 DEF StageOf, Stage, Departing, Spawning
<1>5. CASE workerPc'[s] = "receive"
  <2>1. StageOf'[s] = StageOf[s]
    BY <1>1, <1>3, <1>5 DEF StageOf, Stage, Departing, Spawning
  <2> QED
    BY <1>1, <1>2, <2>1, WorkerView DEF Registry!vars
<1>6. CASE workerPc'[s] # "receive"
  <2>1. StageOf'[s] = "leaving"
    BY <1>1, <1>3, <1>6 DEF StageOf, Stage, Departing
  <2>2. Registry!Leave(s)
    BY <1>1, <1>2, <1>4, <2>1, WorkerView DEF Registry!Leave, Registry!Stage
  <2> QED
    BY <2>2 DEF Registry!Next
<1> QED
  BY <1>5, <1>6

\* A worker that registers its session, or fails to.
LEMMA RegisterRefines ==
  ASSUME ControlInv, RegisterOnce, NEW s \in Sessions, ControlWorker(s), ProcessRegister(s)
  PROVE  [Registry!Next]_Registry!vars
<1> DEFINE port == message[s].arg
<1>1. UNCHANGED <<closed, client, log, snapshot, sessions>>
  BY DEF ProcessRegister, broadcastVars, ControlWorker, clientVars
<1>2. UNCHANGED <<Phase, Listening, Told, ToldGone>>
  BY <1>1, WorkerView, SameView
<1>3. /\ workerPc[s] = "process" /\ s \in sessions /\ ~isUdpEndpointRegistered[s]
      /\ workerPc'[s] = (IF port # NoPort THEN "spawnSnapshot" ELSE "loop")
      /\ isUdpEndpointRegistered'[s] = (port # NoPort)
  BY DEF ProcessRegister, WorkerStep, ControlInv, TypeOK, SessionsMatchWorkers, RegisterOnce
<1>4. StageOf[s] = "joined"
  BY <1>3 DEF StageOf, Stage, Departing
<1>5. UNCHANGED Streaming
  <2>1. session \in [Sessions -> ClientSessionType] /\ port \in Nat
    BY MessageArguments DEF ControlInv, TypeOK
  <2>2. session' = [session EXCEPT ![s] = IF port # NoPort THEN RegisterUdpEndpoint(@, port) ELSE @]
    BY DEF ProcessRegister
  <2>3. session'[s].state = session[s].state
    BY <2>1, <2>2, RegisterEffect
  <2>4. \A r \in Sessions : r # s => session'[r] = session[r]
    BY <2>1, <2>2
  <2> QED
    BY <2>3, <2>4 DEF Streaming
<1>6. CASE port = NoPort
  <2>1. StageOf'[s] = "joined"
    BY <1>1, <1>3, <1>6 DEF StageOf, Stage, Departing
  <2> QED
    BY <1>1, <1>2, <1>4, <1>5, <2>1, WorkerView DEF Registry!vars
<1>7. CASE port # NoPort
  <2>1. StageOf'[s] = "registered"
    BY <1>1, <1>3, <1>7 DEF StageOf, Stage, Departing, Spawning
  <2>2. Registry!Register(s)
    BY <1>1, <1>2, <1>4, <1>5, <2>1, WorkerView DEF Registry!Register, Registry!Stage
  <2> QED
    BY <2>2 DEF Registry!Next
<1> QED
  BY <1>6, <1>7

\* A worker that carries out a command: its session streams, halts, or leaves.
LEMMA CommandRefines ==
  ASSUME ControlInv, NEW s \in Sessions, ControlWorker(s), ProcessCommand(s)
  PROVE  [Registry!Next]_Registry!vars
<1>1. UNCHANGED <<closed, client, log, snapshot, sessions, isUdpEndpointRegistered>>
  BY DEF ProcessCommand, messageVars, broadcastVars, ControlWorker, clientVars
<1>2. UNCHANGED <<Phase, Listening, Told, ToldGone>>
  BY <1>1, WorkerView, SameView
<1>3. /\ workerPc[s] = "process" /\ s \in sessions /\ isUdpEndpointRegistered[s]
      /\ workerPc'[s] = (IF message[s].type = "Other" THEN "despawnSnapshot" ELSE "loop")
      /\ session' = [session EXCEPT ![s] = Execute(@, message[s])]
      /\ session \in [Sessions -> ClientSessionType]
  BY DEF ProcessCommand, WorkerStep, Leave, ControlInv, TypeOK, SessionsMatchWorkers
<1>4. StageOf[s] = "visible"
  BY <1>3 DEF StageOf, Stage, Departing, Spawning
<1>5. CASE message[s].type = "Other"
  <2>1. Execute(session[s], message[s]) = session[s]
    BY <1>5 DEF Execute
  <2>2. UNCHANGED session
    BY <1>3, <2>1
  <2>3. StageOf'[s] = "leaving"
    BY <1>1, <1>3, <1>5 DEF StageOf, Stage, Departing
  <2>4. Registry!Leave(s)
    BY <1>1, <1>2, <1>4, <2>2, <2>3, WorkerView, SameView DEF Registry!Leave, Registry!Stage
  <2> QED
    BY <2>4 DEF Registry!Next
<1>6. CASE message[s].type # "Other"
  <2>1. StageOf'[s] = StageOf[s]
    BY <1>1, <1>3, <1>4, <1>6 DEF StageOf, Stage, Departing, Spawning
  <2>2. \A r \in Sessions : r # s => session'[r] = session[r]
    BY <1>3
  <2>3. CASE session'[s].state = "Stopped"
    <3>1. Streaming' = Streaming \ {s}
      BY <2>2, <2>3 DEF Streaming
    <3>2. Registry!Halt(s)
      BY <1>1, <1>2, <2>1, <3>1, WorkerView DEF Registry!Halt
    <3> QED
      BY <3>2 DEF Registry!Next
  <2>4. CASE session'[s].state # "Stopped"
    <3>1. Streaming' = Streaming \union {s}
      BY <2>2, <2>4 DEF Streaming
    <3>2. Registry!Stream(s)
      BY <1>1, <1>2, <1>4, <2>1, <3>1, WorkerView DEF Registry!Stream
    <3> QED
      BY <3>2 DEF Registry!Next
  <2> QED
    BY <2>3, <2>4
<1> QED
  BY <1>5, <1>6

\* The worker of s sends d the Spawn of o, one of the two being s.
Introduces(s, d, o) ==
  /\ workerPc[s] \in Spawning /\ workerPc'[s] \in Spawning \union {"loop"}
  /\ UNCHANGED <<sessionVars, messageVars, snapshot>>
  /\ \/ s = d /\ (o = s \/ o \in snapshot[s])
     \/ s = o /\ d \in snapshot[s]
  /\ Send(d, EntitySpawn(o))

\* One delivery of BroadcastSpawnsForNewSession lets two sessions know of each other; the
\* last one makes the new session visible, and MutualVisibility says to whom.
LEMMA MeetRefines ==
  ASSUME ControlInv, SnapshotMembers, MutualVisibility', NEW s \in Sessions, ControlWorker(s),
         NEW d \in Sessions, NEW o \in Sessions, Introduces(s, d, o)
  PROVE  Registry!Meet(s)
<1>0. /\ workerPc[s] \in Spawning /\ workerPc'[s] \in Spawning \union {"loop"}
      /\ UNCHANGED <<sessionVars, messageVars, snapshot>>
      /\ \/ s = d /\ (o = s \/ o \in snapshot[s])
         \/ s = o /\ d \in snapshot[s]
      /\ Send(d, EntitySpawn(o))
  BY DEF Introduces
<1>1. UNCHANGED <<session, closed, client, sessions, isUdpEndpointRegistered, snapshot>>
  BY <1>0, WorkerView DEF sessionVars, messageVars
<1>2. /\ UNCHANGED <<Phase, Streaming, Listening, ToldGone>>
      /\ UNCHANGED Told \/ (d \in Listening /\ Told' = [Told EXCEPT ![d] = @ \union {o}])
  BY <1>0, <1>1, WorkerView, SameView, SendTold DEF ControlInv
<1>3. StageOf[s] = "registered" /\ s \in sessions /\ isUdpEndpointRegistered[s]
  BY <1>0, StagesOfSessions DEF ControlInv, SessionsMatchWorkers, RegistrationInv, Spawning
<1>4. \A x \in snapshot[s] \intersect Sessions : StageOf[x] # "absent"
  BY StagesOfSessions DEF SnapshotMembers
<1>5. s \in {d, o} /\ StageOf[d] # "absent" /\ StageOf[o] # "absent"
  BY <1>0, <1>3, <1>4
<1>6. CASE workerPc'[s] \in Spawning
  <2>1. StageOf'[s] = StageOf[s]
    BY <1>1, <1>3, <1>6 DEF StageOf, Stage, Spawning, Departing
  <2> QED
    BY <1>1, <1>2, <1>3, <1>5, <2>1, WorkerView DEF Registry!Meet
<1>7. CASE workerPc'[s] = "loop"
  <2>1. StageOf'[s] = "visible"
    BY <1>1, <1>3, <1>7 DEF StageOf, Stage, Spawning, Departing
  <2>2. StageOf' = [StageOf EXCEPT ![s] = "visible"]
    BY <2>1, WorkerView
  <2>3. ASSUME NEW v \in Listening, StageOf[v] = "visible", s \in Listening
        PROVE  s \in Told'[v] /\ v \in Told'[s]
    <3>1. /\ v \in Sessions /\ v # s /\ v \in sessions
          /\ isUdpEndpointRegistered[v] /\ workerPc[v] \in Serving
      BY <1>3, <2>3, StagesOfSessions DEF Listening
    <3>2. /\ v \in sessions' /\ isUdpEndpointRegistered'[v] /\ workerPc'[v] \in Serving
          /\ s \in sessions' /\ isUdpEndpointRegistered'[s] /\ workerPc'[s] \in Serving
      BY <1>1, <1>3, <1>7, <3>1, WorkerFrame DEF ControlInv, Serving
    <3>3. Reachable(v)' /\ Reachable(s)'
      BY <1>1, <2>3 DEF Listening, Reachable
    <3>4. InLog(EntitySpawn(s), v)' /\ InLog(EntitySpawn(v), s)'
      BY <3>1, <3>2, <3>3 DEF MutualVisibility
    <3> QED
      BY <3>1, <3>4 DEF Told
  <2> QED
    BY <1>1, <1>2, <1>3, <1>5, <2>2, <2>3 DEF Registry!Meet
<1> QED
  BY <1>0, <1>6, <1>7

\* BroadcastSpawnsForNewSession gathers the members and meets them one by one.
LEMMA SpawnRefines ==
  ASSUME ControlInv, SnapshotMembers, LoopInv, MutualVisibility',
         NEW s \in Sessions, ControlWorker(s), BroadcastSpawnsForNewSession(s)
  PROVE  [Registry!Next]_Registry!vars
<1>1. CASE SpawnSnapshot(s)
  <2>1. /\ UNCHANGED <<session, closed, client, log, sessions, isUdpEndpointRegistered>>
        /\ snapshot' = [snapshot EXCEPT ![s] = sessions \ {s}]
        /\ workerPc[s] = "spawnSnapshot" /\ workerPc'[s] = "spawnSelf"
    BY <1>1, WorkerView
       DEF SpawnSnapshot, WorkerStep, sessionVars, messageVars, ControlInv, TypeOK
  <2>2. UNCHANGED <<Phase, Streaming, Listening, Told, ToldGone>>
    BY <2>1, WorkerView, SameView
  <2>3. StageOf[s] = "registered" /\ StageOf'[s] = "registered"
    BY <2>1 DEF StageOf, Stage, Spawning, Departing, ControlInv, SessionsMatchWorkers, RegistrationInv
  <2>4. Registry!Gather(s)
    BY <2>1, <2>2, <2>3, WorkerView, MembersAreSessions DEF Registry!Gather
  <2> QED
    BY <2>4 DEF Registry!Next
<1>2. CASE SpawnSelf(s)
  <2>1. Introduces(s, s, s)
    BY <1>2 DEF SpawnSelf, WorkerStep, Introduces, Spawning, ControlInv, TypeOK
  <2>2. Registry!Meet(s)
    BY <2>1, MeetRefines
  <2> QED
    BY <2>2 DEF Registry!Next
<1>3. ASSUME NEW o \in Sessions, SpawnOther(s, o) PROVE [Registry!Next]_Registry!vars
  <2>1. Introduces(s, s, o)
    BY <1>3 DEF SpawnOther, WorkerStep, Introduces, Spawning, ControlInv, TypeOK, LoopInv
  <2>2. Registry!Meet(s)
    BY <2>1, MeetRefines
  <2> QED
    BY <2>2 DEF Registry!Next
<1>4. ASSUME NEW d \in Sessions, Announce(s, d) PROVE [Registry!Next]_Registry!vars
  <2>1. Introduces(s, d, s)
    BY <1>4 DEF Announce, WorkerStep, Introduces, Spawning, ControlInv, TypeOK, LoopInv
  <2>2. Registry!Meet(s)
    BY <2>1, MeetRefines
  <2> QED
    BY <2>2 DEF Registry!Next
<1> QED
  BY <1>1, <1>2, <1>3, <1>4 DEF BroadcastSpawnsForNewSession

\* The end of ControlWorker tells of the departure, then removes and finishes the session.
LEMMA LeaveRefines ==
  ASSUME ControlInv, DepartureTold, NEW s \in Sessions, ControlWorker(s), LeaveServer(s)
  PROVE  [Registry!Next]_Registry!vars
<1>1. CASE DespawnSnapshot(s)
  <2>1. /\ UNCHANGED <<session, closed, client, log, snapshot, sessions, isUdpEndpointRegistered>>
        /\ workerPc[s] = "despawnSnapshot" /\ workerPc'[s] \in {"despawn", "removeSession"}
    BY <1>1, WorkerView
       DEF DespawnSnapshot, WorkerStep, sessionVars, messageVars, ControlInv, TypeOK
  <2>2. UNCHANGED <<Phase, Streaming, Listening, Told, ToldGone>>
    BY <2>1, WorkerView, SameView
  <2>3. StageOf'[s] = StageOf[s]
    BY <2>1 DEF StageOf, Stage, Departing, ControlInv, SessionsMatchWorkers
  <2> QED
    BY <2>1, <2>2, <2>3, WorkerView DEF Registry!vars
<1>2. ASSUME NEW d \in Sessions, Despawn(s, d) PROVE [Registry!Next]_Registry!vars
  <2>1. /\ UNCHANGED <<session, closed, client, snapshot, sessions, isUdpEndpointRegistered>>
        /\ workerPc[s] = "despawn" /\ workerPc'[s] \in {"despawn", "removeSession"}
        /\ Send(d, EntityDespawn(s))
    BY <1>2, WorkerView DEF Despawn, WorkerStep, sessionVars, messageVars, ControlInv, TypeOK
  <2>2. /\ UNCHANGED <<Phase, Streaming, Listening, Told>>
        /\ UNCHANGED ToldGone
             \/ (d \in Listening /\ ToldGone' = [ToldGone EXCEPT ![d] = @ \union {s}])
    BY <2>1, WorkerView, SameView, SendTold DEF ControlInv
  <2>3. StageOf[s] = "leaving" /\ StageOf'[s] = "leaving"
    BY <2>1 DEF StageOf, Stage, Departing, ControlInv, SessionsMatchWorkers
  <2>4. CASE UNCHANGED ToldGone
    BY <2>1, <2>2, <2>3, <2>4, WorkerView DEF Registry!vars
  <2>5. CASE d \in Listening /\ ToldGone' = [ToldGone EXCEPT ![d] = @ \union {s}]
    <3>1. Registry!TellDeparture(s)
      BY <2>1, <2>2, <2>3, <2>5, WorkerView DEF Registry!TellDeparture
    <3> QED
      BY <3>1 DEF Registry!Next
  <2> QED
    BY <2>2, <2>4, <2>5
<1>3. CASE RemoveSession(s)
  <2>1. /\ UNCHANGED <<session, closed, client, log, snapshot, isUdpEndpointRegistered>>
        /\ workerPc[s] = "removeSession" /\ s \in sessions
        /\ workerPc'[s] = "stopSession" /\ sessions' = sessions \ {s}
    BY <1>3, WorkerView DEF RemoveSession, WorkerStep, messageVars, broadcastVars, ControlInv,
       TypeOK, SessionsMatchWorkers
  <2>2. UNCHANGED <<Phase, Streaming, Listening, Told, ToldGone>>
    BY <2>1, WorkerView, SameView
  <2>3. StageOf[s] = "leaving" /\ StageOf'[s] = "removed"
    BY <2>1 DEF StageOf, Stage, Departing
  <2>4. ASSUME NEW d \in snapshot[s] \intersect sessions \intersect Listening
        PROVE  s \in ToldGone[d]
    <3>1. d \in Sessions /\ Reachable(d)
      BY DEF Listening
    <3>2. InLog(EntityDespawn(s), d)
      BY <2>1, <3>1 DEF DepartureTold, Departed
    <3> QED
      BY <3>1, <3>2 DEF ToldGone
  <2>5. Registry!Remove(s)
    BY <2>1, <2>2, <2>3, <2>4, WorkerView, MembersAreSessions DEF Registry!Remove, Registry!Stage
  <2> QED
    BY <2>5 DEF Registry!Next
<1>4. CASE CloseSession(s)
  <2>1. /\ UNCHANGED <<client, log, snapshot, sessions>>
        /\ session' = [session EXCEPT ![s] = StopSession(@)] /\ closed' = closed \union {s}
        /\ workerPc[s] = "stopSession" /\ workerPc'[s] = "uncount"
    BY <1>4, WorkerView DEF CloseSession, WorkerStep, broadcastVars, ControlInv, TypeOK
  <2>2. UNCHANGED <<Phase, Told, ToldGone>>
    BY <2>1, WorkerView, SameView
  <2>3. Streaming' = Streaming \ {s} /\ Listening' = Listening \ {s}
    BY <2>1, StoppedView
  <2>4. StageOf[s] = "removed" /\ StageOf'[s] = "gone"
    BY <2>1 DEF StageOf, Stage, ControlInv, SessionsMatchWorkers, AcceptInv
  <2>5. Registry!Finish(s)
    BY <2>1, <2>2, <2>3, <2>4, WorkerView DEF Registry!Finish, Registry!Stage
  <2> QED
    BY <2>5 DEF Registry!Next
<1>5. CASE UncountWorker(s)
  <2>1. /\ UNCHANGED <<session, closed, client, log, snapshot, sessions>>
        /\ workerPc[s] = "uncount" /\ workerPc'[s] = "done"
    BY <1>5, WorkerView DEF UncountWorker, WorkerStep, broadcastVars, ControlInv, TypeOK
  <2>2. UNCHANGED <<Phase, Streaming, Listening, Told, ToldGone>>
    BY <2>1, WorkerView, SameView
  <2>3. StageOf'[s] = StageOf[s]
    BY <2>1 DEF StageOf, Stage, ControlInv, SessionsMatchWorkers, AcceptInv
  <2> QED
    BY <2>1, <2>2, <2>3, WorkerView DEF Registry!vars
<1> QED
  BY <1>1, <1>2, <1>3, <1>4, <1>5 DEF LeaveServer

\* The threads of the server, whatever their interleaving, keep to what Membership says:
\* every behaviour of ControlServer is one of Membership under the mapping of Registry.
THEOREM MembershipRefined == Spec => KeepsMembership
<1> DEFINE Inv == ControlInv /\ PresenceInv /\ LoopInv /\ MutualVisibility
<1>1. Init => Registry!Init
  <2> SUFFICES ASSUME Init PROVE Registry!Init
    OBVIOUS
  <2>1. Phase = "off" /\ StageOf = [s \in Sessions |-> "absent"]
    BY DEF Init, Phase, StageOf, Stage
  <2>2. Streaming = {} /\ Listening = {}
    BY DEF Init, Streaming, Listening, Reachable, NewClientSession
  <2>3. Told = [s \in Sessions |-> {}] /\ ToldGone = [s \in Sessions |-> {}]
    BY DEF Init, Told, ToldGone, InLog
  <2>4. snapshot = [s \in Sessions |-> {}]
    BY DEF Init
  <2> QED
    BY <2>1, <2>2, <2>3, <2>4 DEF Registry!Init
<1>2. Inv /\ Inv' /\ [Next]_vars => [Registry!Next]_Registry!vars
  <2> SUFFICES ASSUME Inv, Inv', [Next]_vars PROVE [Registry!Next]_Registry!vars
    OBVIOUS
  <2>1. CASE UNCHANGED vars
    BY <2>1, SameView, SameStages DEF vars, Registry!vars, mainVars, acceptVars, sessionVars,
       messageVars, broadcastVars, clientVars
  <2>2. CASE Main
    BY <2>2, MainRefines
  <2>3. CASE AcceptWorker
    BY <2>3, AcceptRefines
  <2>4. ASSUME NEW s \in Sessions, ControlWorker(s) PROVE [Registry!Next]_Registry!vars
    <3>1. CASE WorkerLoop(s) \/ ReceiveFails(s)
      BY <2>4, <3>1, LoopRefines
    <3>2. CASE Receive(s) \/ ProcessIgnored(s)
      <4>1. /\ UNCHANGED <<session, closed, client, log, snapshot, sessions>>
            /\ UNCHANGED isUdpEndpointRegistered
            /\ workerPc[s] \in Serving /\ workerPc'[s] \in Serving
        BY <2>4, <3>2, WorkerView DEF Receive, ProcessIgnored, WorkerStep, Serving, sessionVars,
           messageVars, broadcastVars, ControlInv, TypeOK
      <4>2. StageOf'[s] = StageOf[s]
        BY <4>1 DEF StageOf, Stage, Serving, Departing, Spawning
      <4> QED
        BY <2>4, <4>1, <4>2, WorkerView, SameView DEF Registry!vars
    <3>3. CASE ProcessRegister(s)
      BY <2>4, <3>3, RegisterRefines DEF PresenceInv
    <3>4. CASE ProcessCommand(s)
      BY <2>4, <3>4, CommandRefines
    <3>5. CASE BroadcastSpawnsForNewSession(s)
      BY <2>4, <3>5, SpawnRefines DEF PresenceInv
    <3>6. CASE LeaveServer(s)
      BY <2>4, <3>6, LeaveRefines DEF PresenceInv
    <3> QED
      BY <2>4, <3>1, <3>2, <3>3, <3>4, <3>5, <3>6 DEF ControlWorker, ProcessOneMessage
  <2>5. ASSUME NEW s \in Sessions, Client(s) PROVE [Registry!Next]_Registry!vars
    BY <2>5, ClientRefines DEF PresenceInv
  <2> QED
    BY <2>1, <2>2, <2>3, <2>4, <2>5 DEF Next
<1> QED
  BY <1>1, <1>2, ControlInvariant, PresenceInvariant, LoopInvariant, RegisteredSeeEachOther, PTL
     DEF Spec, KeepsMembership, Registry!Spec

=============================================================================
