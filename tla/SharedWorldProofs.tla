------------------------- MODULE SharedWorldProofs -------------------------
(***************************************************************************)
(* Proofs about SharedWorld, for every number of connections, every set of *)
(* ports and commands, whatever packets arrive and however late: the       *)
(* composition implements the control plane, and what a client knows is    *)
(* what it was told or what a state that was sent to it says.              *)
(***************************************************************************)
EXTENDS SharedWorld, ControlServerProofs

-----------------------------------------------------------------------------
(* The inductive invariant, part by part *)

\* Among the first n messages of l there is m, and no m2 behind it.
LastSaid(l, n, m, m2) == \E i \in 1 .. n : l[i] = m /\ \A j \in i + 1 .. n : l[j] # m2

\* After the first n messages of the viewer's connection, the last of s was its Spawn.
StillTold(s, n) == LastSaid(log[Viewer], n, EntitySpawn(s), EntityDespawn(s))

\* The viewer's connection has s's Despawn, and no Spawn of s behind it.
Gone(s) == LastSaid(log[Viewer], Len(log[Viewer]), EntityDespawn(s), EntitySpawn(s))

\* The client knows whom it was told of, and whom else it knows a packet names.
KnownInv ==
  /\ \A s \in Sessions : StillTold(s, taken) => s \in world.entities
  /\ \A s \in world.entities : StillTold(s, taken) \/ \E b \in network : s \in b

\* The worker has left its loop for good.
HasLeft(s) == workerPc[s] \in Departing \union {"done"}

\* Only a session that leaves is despawned.
ServingInv == \A s \in Sessions : InLog(EntityDespawn(s), Viewer) => HasLeft(s)

\* The viewer is told of itself before it is told of anybody else by its own worker.
OwnSpawnInv ==
  Snapped(Viewer) /\ workerPc[Viewer] # "spawnSelf" /\ Reachable(Viewer) =>
    InLog(EntitySpawn(Viewer), Viewer)

\* The viewer is present, or has been.
HasJoined ==
  isUdpEndpointRegistered[Viewer] /\ workerPc[Viewer] \notin Spawning \union {"none"}

\* Whoever left without leaving early left a viewer that had joined.
EarlyInv == \A s \in Sessions : HasLeft(s) /\ s \notin leftEarly => HasJoined

\* Whoever leaves a viewer that has joined tells it so, as the last about itself.
GoneInv ==
  Present(Viewer) /\ Reachable(Viewer) =>
    \A s \in Sessions \ {Viewer} :
      s \notin leftEarly /\ isUdpEndpointRegistered[s] /\ HasLeft(s) =>
        \/ workerPc[s] = "despawnSnapshot"
        \/ workerPc[s] = "despawn" /\ Viewer \in todo[s]
        \/ Gone(s)

WorldInv ==
  ViewerTypeOK /\ KnownInv /\ ServingInv /\ OwnSpawnInv /\ EarlyInv /\ GoneInv

-----------------------------------------------------------------------------
(* What is said on a connection *)

\* What is written later does not change what was said before.
LEMMA SaidBefore ==
  ASSUME NEW S, NEW l \in Seq(S), NEW x \in S, NEW n \in 0 .. Len(l), NEW m, NEW m2
  PROVE  LastSaid(Append(l, x), n, m, m2) <=> LastSaid(l, n, m, m2)
<1>1. \A i \in 1 .. n : Append(l, x)[i] = l[i]
  OBVIOUS
<1>2. \A i \in 1 .. n : \A j \in i + 1 .. n : Append(l, x)[j] = l[j]
  OBVIOUS
<1> HIDE DEF LastSaid
<1> QED
  BY <1>1, <1>2, Zenon DEF LastSaid

\* The next message says m, or takes it back, or leaves it as it was.
LEMMA SaidNext ==
  ASSUME NEW S, NEW l \in Seq(S), NEW n \in Nat, NEW m, NEW m2, m # m2
  PROVE  /\ l[n + 1] = m => LastSaid(l, n + 1, m, m2)
         /\ l[n + 1] = m2 => ~LastSaid(l, n + 1, m, m2)
         /\ l[n + 1] \notin {m, m2} => (LastSaid(l, n + 1, m, m2) <=> LastSaid(l, n, m, m2))
<1>1. ASSUME l[n + 1] = m PROVE LastSaid(l, n + 1, m, m2)
  <2>1. n + 1 \in 1 .. n + 1 /\ \A j \in (n + 1) + 1 .. n + 1 : l[j] # m2
    OBVIOUS
  <2> QED
    BY <1>1, <2>1 DEF LastSaid
<1>2. ASSUME l[n + 1] = m2, LastSaid(l, n + 1, m, m2) PROVE FALSE
  <2>1. PICK i \in 1 .. n + 1 : l[i] = m /\ \A j \in i + 1 .. n + 1 : l[j] # m2
    BY <1>2 DEF LastSaid
  <2>2. i = n + 1 \/ n + 1 \in i + 1 .. n + 1
    OBVIOUS
  <2> QED
    BY <1>2, <2>1, <2>2
<1>3. ASSUME l[n + 1] \notin {m, m2}, LastSaid(l, n + 1, m, m2) PROVE LastSaid(l, n, m, m2)
  <2>1. PICK i \in 1 .. n + 1 : l[i] = m /\ \A j \in i + 1 .. n + 1 : l[j] # m2
    BY <1>3 DEF LastSaid
  <2>2. i # n + 1
    BY <1>3, <2>1
  <2>3. i \in 1 .. n /\ \A j \in i + 1 .. n : l[j] # m2
    BY <2>1, <2>2
  <2> QED
    BY <2>1, <2>3 DEF LastSaid
<1>4. ASSUME l[n + 1] \notin {m, m2}, LastSaid(l, n, m, m2) PROVE LastSaid(l, n + 1, m, m2)
  <2>1. PICK i \in 1 .. n : l[i] = m /\ \A j \in i + 1 .. n : l[j] # m2
    BY <1>4 DEF LastSaid
  <2>2. i \in 1 .. n + 1 /\ \A j \in i + 1 .. n + 1 : j \in i + 1 .. n \/ j = n + 1
    OBVIOUS
  <2> QED
    BY <1>4, <2>1, <2>2 DEF LastSaid
<1> QED
  BY <1>1, <1>2, <1>3, <1>4

\* A Spawn is no Despawn, and the messages of two sessions differ.
LEMMA MessagesDiffer ==
  /\ \A s, r : EntitySpawn(s) # EntityDespawn(r)
  /\ \A s, r : EntitySpawn(s) = EntitySpawn(r) => s = r
  /\ \A s, r : EntityDespawn(s) = EntityDespawn(r) => s = r
<1>1. \A s, r : EntitySpawn(s).type # EntityDespawn(r).type
  BY DEF EntitySpawn, EntityDespawn
<1>2. \A s : EntitySpawn(s).id = s /\ EntityDespawn(s).id = s
  BY DEF EntitySpawn, EntityDespawn
<1>3. ASSUME NEW s, NEW r, EntitySpawn(s) = EntitySpawn(r) PROVE s = r
  BY <1>2, <1>3
<1>4. ASSUME NEW s, NEW r, EntityDespawn(s) = EntityDespawn(r) PROVE s = r
  BY <1>2, <1>4
<1> QED
  BY <1>1, <1>3, <1>4

\* Every server message is the Spawn or the Despawn of a session.
LEMMA MessageForms ==
  \A m \in ServerMessages :
    /\ m.id \in Sessions
    /\ m.type = "EntitySpawn" <=> m = EntitySpawn(m.id)
    /\ m.type = "EntityDespawn" <=> m = EntityDespawn(m.id)
    /\ m = EntitySpawn(m.id) \/ m = EntityDespawn(m.id)
  BY DEF ServerMessages, EntitySpawn, EntityDespawn

-----------------------------------------------------------------------------
(* Steps of the control plane *)

\* Every step of the composition is a step of the control plane, or none of it.
LEMMA StepOfControl == WorldNext => [Next]_vars
<1>1. CASE ServerAndOthers \/ ViewerClient
  BY <1>1, ViewerAssumption DEF ServerAndOthers, ViewerClient, Next
<1>2. CASE StreamingTick \/ ReceiveMessage \/ ReceiveBatch \/ Poll
  BY <1>2 DEF StreamingTick, ReceiveMessage, ReceiveBatch, Poll
<1> QED
  BY <1>1, <1>2 DEF WorldNext

\* How one worker moves through its life.
LEMMA WorkerMoves ==
  ASSUME ControlInv, RegisterOnce, Next, NEW a \in Sessions
  PROVE  /\ HasLeft(a) => HasLeft(a)' /\ (isUdpEndpointRegistered'[a] <=> isUdpEndpointRegistered[a])
         /\ ~HasLeft(a) /\ HasLeft(a)' =>
              /\ workerPc'[a] = Leave(a)
              /\ isUdpEndpointRegistered'[a] <=> isUdpEndpointRegistered[a]
         /\ workerPc'[a] = "done" => HasLeft(a)
         /\ ~Snapped(a) /\ Snapped(a)' => workerPc'[a] = "spawnSelf"
         /\ isUdpEndpointRegistered[a] /\ workerPc[a] \notin Spawning \union {"none"} =>
              isUdpEndpointRegistered'[a] /\ workerPc'[a] \notin Spawning \union {"none"}
         /\ workerPc[a] = "spawnSelf" => workerPc'[a] = "spawnSelf" \/ SpawnSelf(a)
         /\ workerPc[a] = "despawnSnapshot" => workerPc'[a] = "despawnSnapshot" \/ DespawnSnapshot(a)
         /\ workerPc[a] = "despawn" =>
              \/ workerPc'[a] = "despawn" /\ todo'[a] = todo[a]
              \/ \E o \in Sessions : Despawn(a, o)
<1>t. TypeOK
  BY DEF ControlInv
<1> USE DEF HasLeft, Snapped, Departing, Spawning
<1>1. CASE Main \/ \E s \in Sessions : Client(s)
  <2>1. UNCHANGED <<workerPc, isUdpEndpointRegistered, todo>>
    BY <1>1 DEF Main, Client, messageVars, broadcastVars
  <2> QED
    BY <2>1
<1>2. CASE AcceptWorker
  <2>1. UNCHANGED <<isUdpEndpointRegistered, todo>>
    BY <1>2 DEF AcceptWorker, messageVars, broadcastVars
  <2>2. workerPc'[a] = workerPc[a] \/ (workerPc[a] = "none" /\ workerPc'[a] = "loop")
    BY <1>2, <1>t DEF AcceptWorker, AcceptLoop, AcceptFails, AcceptCheck, Accept,
       AddSession, CountWorker, StartWorker, AcceptStep, TypeOK, ControlInv, AcceptInv
  <2> QED
    BY <2>1, <2>2 DEF ControlInv, RegistrationInv
<1>3. ASSUME NEW s \in Sessions, s # a, ControlWorker(s) PROVE
        /\ workerPc'[a] = workerPc[a] /\ todo'[a] = todo[a]
        /\ isUdpEndpointRegistered'[a] = isUdpEndpointRegistered[a]
  BY <1>3, <1>t, WorkerFrame
<1>4. CASE ControlWorker(a)
  <2>1. CASE ProcessRegister(a)
    <3>1. /\ workerPc[a] = "process" /\ ~isUdpEndpointRegistered[a]
          /\ workerPc'[a] \in {"spawnSnapshot", "loop"}
          /\ workerPc'[a] = "loop" => ~isUdpEndpointRegistered'[a]
      BY <2>1, <1>t DEF ProcessRegister, WorkerStep, TypeOK, RegisterOnce
    <3> QED
      BY <3>1
  <2>2. CASE ~ProcessRegister(a)
    <3>1. isUdpEndpointRegistered' = isUdpEndpointRegistered
      BY <1>4, <2>2 DEF ControlWorker, ProcessOneMessage, BroadcastSpawnsForNewSession,
         LeaveServer, WorkerLoop, ReceiveFails, Receive, ProcessIgnored, ProcessCommand, SpawnSnapshot,
         SpawnSelf, SpawnOther, Announce, DespawnSnapshot, Despawn, RemoveSession, CloseSession,
         UncountWorker, messageVars
    <3>2. /\ workerPc[a] \notin {"none", "done"} /\ workerPc[a] \in WorkerPcs
          /\ workerPc[a] \in Departing => workerPc'[a] \in Departing \union {"done"}
          /\ workerPc[a] \in Spawning => workerPc'[a] \in Serving \union (Spawning \ {"spawnSnapshot"})
          /\ workerPc[a] \in Serving => workerPc'[a] \in Serving \union {Leave(a)}
      BY <1>4, <1>t, <2>2 DEF ControlWorker, ProcessOneMessage, BroadcastSpawnsForNewSession,
         LeaveServer, WorkerLoop, ReceiveFails, Receive, ProcessIgnored, ProcessCommand, SpawnSnapshot,
         SpawnSelf, SpawnOther, Announce, DespawnSnapshot, Despawn, RemoveSession, CloseSession,
         UncountWorker, WorkerStep, Serving, WorkerPcs, TypeOK
    <3>3. workerPc[a] = "spawnSnapshot" => workerPc'[a] = "spawnSelf"
      BY <1>4, <1>t, <2>2 DEF ControlWorker, ProcessOneMessage, BroadcastSpawnsForNewSession,
         LeaveServer, WorkerLoop, ReceiveFails, Receive, ProcessIgnored, ProcessCommand, SpawnSnapshot,
         SpawnSelf, SpawnOther, Announce, DespawnSnapshot, Despawn, RemoveSession, CloseSession,
         UncountWorker, WorkerStep, TypeOK
    <3>4. /\ workerPc[a] = "spawnSelf" => SpawnSelf(a)
          /\ workerPc[a] = "despawnSnapshot" => DespawnSnapshot(a)
          /\ workerPc[a] = "despawn" => \E o \in Sessions : Despawn(a, o)
      BY <1>4, <2>2 DEF ControlWorker, ProcessOneMessage, BroadcastSpawnsForNewSession,
         LeaveServer, WorkerLoop, ReceiveFails, Receive, ProcessIgnored, ProcessCommand, SpawnSnapshot,
         SpawnSelf, SpawnOther, Announce, DespawnSnapshot, Despawn, RemoveSession, CloseSession,
         UncountWorker, WorkerStep
    <3>5. Leave(a) \in Departing
      BY DEF Leave
    <3> QED
      BY <3>1, <3>2, <3>3, <3>4, <3>5 DEF Serving, WorkerPcs
  <2> QED
    BY <2>1, <2>2
<1> QED
  BY <1>1, <1>2, <1>3, <1>4 DEF Next

\* What a step may write to the viewer, and from where in which worker.
LEMMA ViewerLog ==
  ASSUME TypeOK, Next
  PROVE  \/ log'[Viewer] = log[Viewer]
         \/ \E m \in ServerMessages :
              /\ log'[Viewer] = Append(log[Viewer], m)
              /\ \/ m = EntitySpawn(m.id) /\ workerPc[Viewer] \in {"spawnSelf", "spawnOthers"}
                 \/ m = EntitySpawn(m.id) /\ workerPc[m.id] = "announce"
                 \/ m = EntityDespawn(m.id) /\ workerPc[m.id] = "despawn"
<1> DEFINE Goal ==
             \/ log'[Viewer] = log[Viewer]
             \/ \E m \in ServerMessages :
                  /\ log'[Viewer] = Append(log[Viewer], m)
                  /\ \/ m = EntitySpawn(m.id) /\ workerPc[Viewer] \in {"spawnSelf", "spawnOthers"}
                     \/ m = EntitySpawn(m.id) /\ workerPc[m.id] = "announce"
                     \/ m = EntityDespawn(m.id) /\ workerPc[m.id] = "despawn"
<1>v. Viewer \in Sessions
  BY ViewerAssumption
<1>1. ASSUME NEW d \in Sessions, NEW m \in ServerMessages, Send(d, m)
      PROVE  log'[Viewer] = log[Viewer] \/ (d = Viewer /\ log'[Viewer] = Append(log[Viewer], m))
  BY <1>1, <1>v DEF Send, TypeOK
<1>i. \A s : EntitySpawn(s).id = s /\ EntityDespawn(s).id = s
  BY DEF EntitySpawn, EntityDespawn
<1>2. ASSUME NEW s \in Sessions, SpawnSelf(s) PROVE Goal
  <2>1. Send(s, EntitySpawn(s)) /\ workerPc[s] = "spawnSelf" /\ EntitySpawn(s) \in ServerMessages
    BY <1>2, ServerMessageType DEF SpawnSelf, WorkerStep
  <2> QED
    BY <1>1, <1>i, <2>1
<1>3. ASSUME NEW s \in Sessions, NEW o \in Sessions, SpawnOther(s, o) PROVE Goal
  <2>1. Send(s, EntitySpawn(o)) /\ workerPc[s] = "spawnOthers" /\ EntitySpawn(o) \in ServerMessages
    BY <1>3, ServerMessageType DEF SpawnOther, WorkerStep
  <2> QED
    BY <1>1, <1>i, <2>1
<1>4. ASSUME NEW s \in Sessions, NEW o \in Sessions, Announce(s, o) PROVE Goal
  <2>1. Send(o, EntitySpawn(s)) /\ workerPc[s] = "announce" /\ EntitySpawn(s) \in ServerMessages
    BY <1>4, ServerMessageType DEF Announce, WorkerStep
  <2> QED
    BY <1>1, <1>i, <2>1
<1>5. ASSUME NEW s \in Sessions, NEW o \in Sessions, Despawn(s, o) PROVE Goal
  <2>1. Send(o, EntityDespawn(s)) /\ workerPc[s] = "despawn" /\ EntityDespawn(s) \in ServerMessages
    BY <1>5, ServerMessageType DEF Despawn, WorkerStep
  <2> QED
    BY <1>1, <1>i, <2>1
<1>6. ASSUME \A s \in Sessions : ~SpawnSelf(s),
             \A s, o \in Sessions : ~SpawnOther(s, o) /\ ~Announce(s, o) /\ ~Despawn(s, o)
      PROVE  Goal
  <2>1. log' = log
    BY <1>6 DEF Next, Main, AcceptWorker, Client, broadcastVars, ControlWorker, ProcessOneMessage,
       BroadcastSpawnsForNewSession, LeaveServer, WorkerLoop, ReceiveFails, Receive,
       ProcessRegister, ProcessIgnored, ProcessCommand, SpawnSnapshot,
       DespawnSnapshot, RemoveSession, CloseSession, UncountWorker
  <2> QED
    BY <2>1
<1> HIDE DEF Goal
<1>7. Goal
  BY <1>2, <1>3, <1>4, <1>5, <1>6
<1> QED
  BY <1>7 DEF Goal

-----------------------------------------------------------------------------
(* What the client knows *)

\* The client starts with nothing known and nothing told.
LEMMA WorldStart == WorldInit => WorldInv
<1> SUFFICES ASSUME WorldInit PROVE WorldInv
  OBVIOUS
<1>1. Init /\ log[Viewer] = <<>> /\ workerPc[Viewer] = "none"
  BY ViewerAssumption DEF WorldInit, Init
<1>2. \A s \in Sessions : workerPc[s] = "none" /\ ~isUdpEndpointRegistered[s]
  BY <1>1 DEF Init
<1>3. world.entities = {} /\ ViewerTypeOK
  <2>1. world = [entities |-> {}, myEntityId |-> NoSession]
    BY DEF WorldInit, W!EmptyWorld
  <2>2. isActive \in BOOLEAN
    BY Zenon DEF WorldInit
  <2>3. taken \in 0 .. Len(log[Viewer])
    BY <1>1 DEF WorldInit
  <2> QED
    BY <2>1, <2>2, <2>3 DEF WorldInit, ViewerTypeOK
<1>4. \A s : ~StillTold(s, taken)
  BY DEF StillTold, LastSaid, WorldInit
<1>5. KnownInv
  BY <1>3, <1>4 DEF KnownInv
<1>6. ServingInv /\ OwnSpawnInv
  BY <1>1, <1>2 DEF ServingInv, OwnSpawnInv, InLog, Snapped
<1>7. EarlyInv /\ GoneInv
  BY <1>1, <1>2 DEF EarlyInv, GoneInv, HasLeft, Departing, Present, Serving
<1> QED
  BY <1>3, <1>5, <1>6, <1>7 DEF WorldInv

\* What a step of the control plane leaves to the client's side, and to what it was told.
LEMMA ToldBefore ==
  ASSUME ViewerTypeOK, TypeOK, Next
  PROVE  /\ taken \in 0 .. Len(log'[Viewer])
         /\ \A s : LastSaid(log'[Viewer], taken, EntitySpawn(s), EntityDespawn(s)) <=> StillTold(s, taken)
<1>1. log[Viewer] \in Seq(ServerMessages) /\ taken \in 0 .. Len(log[Viewer])
  BY ViewerAssumption DEF TypeOK, ViewerTypeOK
<1>2. CASE log'[Viewer] = log[Viewer]
  BY <1>1, <1>2 DEF StillTold
<1>3. ASSUME NEW m \in ServerMessages, log'[Viewer] = Append(log[Viewer], m)
      PROVE  /\ taken \in 0 .. Len(log'[Viewer])
             /\ \A s : LastSaid(log'[Viewer], taken, EntitySpawn(s), EntityDespawn(s)) <=> StillTold(s, taken)
  <2>1. \A s : LastSaid(Append(log[Viewer], m), taken, EntitySpawn(s), EntityDespawn(s)) <=>
               LastSaid(log[Viewer], taken, EntitySpawn(s), EntityDespawn(s))
    BY <1>1, SaidBefore
  <2>2. taken \in 0 .. Len(Append(log[Viewer], m))
    BY <1>1
  <2> QED
    BY <1>3, <2>1, <2>2 DEF StillTold
<1> QED
  BY <1>2, <1>3, ViewerLog

\* Every step keeps the types of the client's side.
LEMMA ViewerTypeStep == ViewerTypeOK /\ TypeOK /\ WorldNext => ViewerTypeOK'
<1> SUFFICES ASSUME ViewerTypeOK, TypeOK, WorldNext PROVE ViewerTypeOK'
  OBVIOUS
<1>1. CASE ServerAndOthers
  <2>1. Next
    BY <1>1 DEF ServerAndOthers, Next
  <2> QED
    BY <1>1, <2>1, ToldBefore DEF ServerAndOthers, clientSideVars, ViewerTypeOK
<1>2. CASE ViewerClient
  <2>1. Next
    BY <1>2, ViewerAssumption DEF ViewerClient, Next
  <2>2. isActive' \in BOOLEAN
    BY <1>2 DEF ViewerClient, ViewerTypeOK
  <2> QED
    BY <1>2, <2>1, <2>2, ToldBefore DEF ViewerClient, ViewerTypeOK
<1>3. CASE StreamingTick
  BY <1>3 DEF StreamingTick, vars, broadcastVars, clientSideVars, ViewerTypeOK, TypeOK
<1>4. CASE ReceiveMessage
  <2>1. log[Viewer] \in Seq(ServerMessages) /\ log'[Viewer] = log[Viewer]
    BY <1>4, ViewerAssumption DEF ReceiveMessage, vars, broadcastVars, TypeOK
  <2>2. taken < Len(log[Viewer]) /\ taken' = taken + 1
    BY <1>4 DEF ReceiveMessage
  <2>3. log[Viewer][taken + 1] \in ServerMessages /\ taken' \in 0 .. Len(log[Viewer])
    BY <2>1, <2>2 DEF ViewerTypeOK
  <2>4. world' \in [entities : SUBSET Sessions, myEntityId : Sessions \union {NoSession}]
    BY <1>4, <2>3, MessageForms DEF ReceiveMessage, W!OnSpawn, W!OnDespawn, ViewerTypeOK
  <2> QED
    BY <1>4, <2>1, <2>3, <2>4 DEF ReceiveMessage, ViewerTypeOK
<1>5. CASE ReceiveBatch \/ Poll
  BY <1>5 DEF ReceiveBatch, Poll, W!OnState, vars, broadcastVars, ViewerTypeOK
<1> QED
  BY <1>1, <1>2, <1>3, <1>4, <1>5 DEF WorldNext

\* At every step the client knows whom it was told of, and whom else a packet names.
LEMMA KnownStep == ViewerTypeOK /\ KnownInv /\ TypeOK /\ WorldNext => KnownInv'
<1> SUFFICES ASSUME ViewerTypeOK, KnownInv, TypeOK, WorldNext PROVE KnownInv'
  OBVIOUS
<1>t. /\ log[Viewer] \in Seq(ServerMessages) /\ taken \in 0 .. Len(log[Viewer])
      /\ world.entities \subseteq Sessions
  BY ViewerAssumption DEF TypeOK, ViewerTypeOK
<1>1. CASE ServerAndOthers \/ ViewerClient
  <2>1. Next /\ UNCHANGED <<network, taken, world>>
    BY <1>1, ViewerAssumption DEF ServerAndOthers, ViewerClient, Next, clientSideVars
  <2>2. \A s : LastSaid(log'[Viewer], taken', EntitySpawn(s), EntityDespawn(s)) <=> StillTold(s, taken)
    BY <2>1, ToldBefore
  <2> QED
    BY <2>1, <2>2 DEF KnownInv, StillTold, EntitySpawn, EntityDespawn
<1>2. CASE StreamingTick \/ ReceiveBatch \/ Poll
  <2>1. log' = log /\ taken' = taken
    BY <1>2 DEF StreamingTick, ReceiveBatch, Poll, vars, broadcastVars, clientSideVars
  <2>2. \A s : LastSaid(log'[Viewer], taken', EntitySpawn(s), EntityDespawn(s)) <=> StillTold(s, taken)
    BY <2>1 DEF StillTold
  <2>3. /\ network \subseteq network' /\ world.entities \subseteq world'.entities
        /\ \A s \in world'.entities : s \in world.entities \/ \E b \in network : s \in b
    BY <1>2 DEF StreamingTick, ReceiveBatch, Poll, W!OnState, clientSideVars, ViewerTypeOK
  <2> QED
    BY <2>2, <2>3 DEF KnownInv, StillTold, EntitySpawn, EntityDespawn
<1>3. CASE ReceiveMessage
  <2> DEFINE m == log[Viewer][taken + 1]
  <2>1. /\ log' = log /\ network' = network /\ taken' = taken + 1
        /\ taken < Len(log[Viewer]) /\ taken \in Nat
    BY <1>3, <1>t DEF ReceiveMessage, vars, broadcastVars
  <2>2. m \in ServerMessages
    BY <1>t, <2>1
  <2>3. /\ m = EntitySpawn(m.id) => world'.entities = world.entities \union {m.id}
        /\ m = EntityDespawn(m.id) => world'.entities = world.entities \ {m.id}
    BY <1>3, <2>2, MessageForms DEF ReceiveMessage, W!OnSpawn, W!OnDespawn, EntitySpawn,
       EntityDespawn, ViewerTypeOK
  <2>4. \A s :
          /\ m = EntitySpawn(s) => StillTold(s, taken + 1)
          /\ m = EntityDespawn(s) => ~StillTold(s, taken + 1)
          /\ m \notin {EntitySpawn(s), EntityDespawn(s)} => (StillTold(s, taken + 1) <=> StillTold(s, taken))
    BY <1>t, <2>1, SaidNext, MessagesDiffer DEF StillTold
  <2>5. \A s : (StillTold(s, taken))' <=> StillTold(s, taken + 1)
    BY <2>1 DEF StillTold, EntitySpawn, EntityDespawn
  <2>6. \A s \in Sessions :
          (StillTold(s, taken + 1) => s \in world'.entities)
          /\ (s \in world'.entities => StillTold(s, taken + 1) \/ \E b \in network : s \in b)
    <3> HIDE DEF m
    <3> TAKE s \in Sessions
    <3>1. CASE m = EntitySpawn(s)
      BY <2>3, <2>4, <3>1, MessagesDiffer, MessageForms, <2>2
    <3>2. CASE m = EntityDespawn(s)
      BY <2>3, <2>4, <3>2, MessagesDiffer, MessageForms, <2>2
    <3>3. CASE m \notin {EntitySpawn(s), EntityDespawn(s)}
      <4>1. m.id # s /\ (s \in world'.entities <=> s \in world.entities)
        BY <2>2, <2>3, <3>3, MessageForms
      <4> QED
        BY <2>4, <3>3, <4>1 DEF KnownInv
    <3> QED
      BY <3>1, <3>2, <3>3
  <2>7. world'.entities \subseteq Sessions
    BY <1>t, <2>2, <2>3, MessageForms
  <2> QED
    BY <2>1, <2>5, <2>6, <2>7 DEF KnownInv
<1> QED
  BY <1>1, <1>2, <1>3 DEF WorldNext

-----------------------------------------------------------------------------
(* What the viewer is told *)

\* At every step of the server only a session that leaves has been despawned.
LEMMA ServingStep ==
  ASSUME ControlInv, RegisterOnce, ServingInv, Next
  PROVE  ServingInv'
<1>t. TypeOK
  BY DEF ControlInv
<1>1. \A s \in Sessions : HasLeft(s) => HasLeft(s)'
  BY WorkerMoves
<1> SUFFICES ASSUME NEW s \in Sessions, InLog(EntityDespawn(s), Viewer)' PROVE HasLeft(s)
  BY <1>1 DEF ServingInv
<1>2. PICK i \in DOMAIN log'[Viewer] : log'[Viewer][i] = EntityDespawn(s)
  BY DEF InLog, EntityDespawn
<1>3. CASE \E j \in DOMAIN log[Viewer] : log[Viewer][j] = EntityDespawn(s)
  BY <1>3 DEF ServingInv, InLog
<1>4. CASE log'[Viewer] = log[Viewer]
  BY <1>2, <1>3, <1>4
<1>5. ASSUME NEW m \in ServerMessages, log'[Viewer] = Append(log[Viewer], m),
             \/ m = EntitySpawn(m.id)
             \/ m = EntityDespawn(m.id) /\ workerPc[m.id] = "despawn"
      PROVE  HasLeft(s)
  <2>1. log[Viewer] \in Seq(ServerMessages)
    BY <1>t, ViewerAssumption DEF TypeOK
  <2>2. (i \in DOMAIN log[Viewer] /\ log[Viewer][i] = EntityDespawn(s)) \/ m = EntityDespawn(s)
    BY <1>2, <1>5, <2>1
  <2>3. m = EntityDespawn(s) => workerPc[s] = "despawn"
    BY <1>5, MessagesDiffer
  <2> QED
    BY <1>3, <2>2, <2>3 DEF HasLeft, Departing
<1> QED
  BY <1>t, <1>4, <1>5, ViewerLog

\* At every step of the server the viewer's first Spawn from its own worker is its own.
LEMMA OwnSpawnStep ==
  ASSUME ControlInv, ConnectedInv, RegisterOnce, OwnSpawnInv, Next
  PROVE  OwnSpawnInv'
<1> SUFFICES ASSUME Snapped(Viewer)', workerPc'[Viewer] # "spawnSelf", Reachable(Viewer)'
             PROVE  InLog(EntitySpawn(Viewer), Viewer)'
  BY DEF OwnSpawnInv
<1>t. TypeOK /\ Viewer \in Sessions
  BY ViewerAssumption DEF ControlInv
<1>1. Snapped(Viewer)
  BY <1>t, WorkerMoves
<1>2. Reachable(Viewer)
  BY <1>t, <1>1, ReachableOnce DEF ConnectedInv, Snapped
<1>3. CASE workerPc[Viewer] = "spawnSelf"
  <2>1. SpawnSelf(Viewer)
    BY <1>t, <1>3, WorkerMoves
  <2>2. Reachable(Viewer) => InLog(EntitySpawn(Viewer), Viewer)'
    BY <1>t, <2>1, SendLog DEF SpawnSelf
  <2> QED
    BY <1>2, <2>2
<1>4. CASE workerPc[Viewer] # "spawnSelf"
  <2>1. InLog(EntitySpawn(Viewer), Viewer)
    BY <1>1, <1>2, <1>4 DEF OwnSpawnInv
  <2> QED
    BY <1>t, <2>1, LogGrows DEF EntitySpawn
<1> QED
  BY <1>3, <1>4

\* A viewer that has joined and is not there any more has left.
LEMMA JoinedOrLeft ==
  ASSUME ControlInv
  PROVE  /\ Present(Viewer) => HasJoined
         /\ HasJoined /\ ~Present(Viewer) => HasLeft(Viewer)
<1>1. workerPc[Viewer] \in WorkerPcs /\ Viewer \in Sessions
  BY ViewerAssumption DEF ControlInv, TypeOK
<1>2. workerPc[Viewer] \in Serving => Viewer \in sessions
  BY <1>1 DEF ControlInv, SessionsMatchWorkers, Serving
<1> QED
  BY <1>1, <1>2 DEF Present, HasJoined, HasLeft, Serving, Spawning, Departing, WorkerPcs

\* A step of the server, or of the viewer's client, as far as leftEarly is concerned.
LEMMA EarlyFrame ==
  ASSUME ControlInv, ServerAndOthers \/ ViewerClient
  PROVE  /\ Next /\ leftEarly \subseteq leftEarly'
         /\ Present(Viewer) => leftEarly' = leftEarly
         /\ \/ {s \in Sessions : workerPc'[s] \in Departing} \subseteq leftEarly'
            \/ Present(Viewer)
            \/ UNCHANGED <<workerPc, isUdpEndpointRegistered, sessions>>
<1>1. CASE ServerAndOthers
  BY <1>1 DEF ServerAndOthers, Next
<1>2. CASE ViewerClient
  BY <1>2, ViewerAssumption DEF ViewerClient, Next, Client, sessionVars
<1> QED
  BY <1>1, <1>2

\* At every step of the server who left without leaving early left a viewer that had joined.
LEMMA EarlyStep ==
  ASSUME ControlInv, RegisterOnce, EarlyInv, ServerAndOthers \/ ViewerClient
  PROVE  EarlyInv'
<1>1. Next /\ leftEarly \subseteq leftEarly'
  BY EarlyFrame
<1>2. HasJoined => HasJoined'
  BY <1>1, ViewerAssumption, WorkerMoves DEF HasJoined
<1> SUFFICES ASSUME NEW s \in Sessions, HasLeft(s)', s \notin leftEarly', ~HasJoined
             PROVE  FALSE
  BY <1>2 DEF EarlyInv
<1>3. ~HasLeft(s)
  BY <1>1 DEF EarlyInv
<1>4. workerPc'[s] \in Departing /\ workerPc'[s] # workerPc[s]
  <2>1. workerPc'[s] = Leave(s)
    BY <1>1, <1>3, WorkerMoves
  <2> QED
    BY <1>3, <2>1 DEF Leave, Departing, HasLeft
<1>5. ~Present(Viewer)
  BY JoinedOrLeft
<1> QED
  BY <1>4, <1>5, EarlyFrame

\* At every step of the server whoever leaves a viewer that has joined tells it so.
LEMMA GoneStep ==
  ASSUME ControlInv, ConnectedInv, RegisterOnce, EarlyInv, GoneInv,
         ServerAndOthers \/ ViewerClient
  PROVE  GoneInv'
<1>1. Next /\ leftEarly \subseteq leftEarly' /\ TypeOK /\ Viewer \in Sessions
  BY EarlyFrame, ViewerAssumption DEF ControlInv
<1> SUFFICES ASSUME Present(Viewer)', Reachable(Viewer)', NEW s \in Sessions \ {Viewer},
                    s \notin leftEarly', isUdpEndpointRegistered'[s], HasLeft(s)'
             PROVE  \/ workerPc'[s] = "despawnSnapshot"
                    \/ workerPc'[s] = "despawn" /\ Viewer \in todo'[s]
                    \/ Gone(s)'
  BY DEF GoneInv
<1>2. Present(Viewer)
  <2> SUFFICES ASSUME ~Present(Viewer) PROVE FALSE
    OBVIOUS
  <2>1. ~HasLeft(Viewer)'
    BY DEF Present, HasLeft, Serving, Departing
  <2>2. ~HasLeft(Viewer) /\ ~HasJoined
    BY <1>1, <2>1, WorkerMoves, JoinedOrLeft
  <2>3. workerPc'[s] \notin Departing
    <3>1. CASE UNCHANGED <<workerPc, isUdpEndpointRegistered, sessions>>
      BY <3>1 DEF Present
    <3> QED
      BY <3>1, EarlyFrame
  <2>4. HasLeft(s)
    BY <1>1, <2>3, WorkerMoves DEF HasLeft
  <2> QED
    BY <1>1, <2>2, <2>4 DEF EarlyInv
<1>3. Reachable(Viewer)
  BY <1>1, <1>2, ReachableOnce DEF ConnectedInv, Present, Serving
<1>4. CASE ~HasLeft(s)
  <2>1. workerPc'[s] = Leave(s) /\ isUdpEndpointRegistered[s]
    BY <1>1, <1>4, WorkerMoves
  <2> QED
    BY <2>1 DEF Leave
<1>5. CASE HasLeft(s)
  <2>1. isUdpEndpointRegistered[s] /\ s \notin leftEarly
    BY <1>1, <1>5, WorkerMoves
  <2>2. \/ workerPc[s] = "despawnSnapshot"
        \/ workerPc[s] = "despawn" /\ Viewer \in todo[s]
        \/ Gone(s)
    BY <1>2, <1>3, <1>5, <2>1 DEF GoneInv
  <2>3. CASE workerPc[s] = "despawnSnapshot"
    <3>1. workerPc'[s] = "despawnSnapshot" \/ DespawnSnapshot(s)
      BY <1>1, <2>3, WorkerMoves
    <3>2. ASSUME DespawnSnapshot(s) PROVE workerPc'[s] = "despawn" /\ Viewer \in todo'[s]
      <4>1. Viewer \in sessions \ {s}
        BY <1>2 DEF Present
      <4> QED
        BY <1>1, <3>2, <4>1 DEF DespawnSnapshot, WorkerStep, TypeOK
    <3> QED
      BY <3>1, <3>2
  <2>4. CASE workerPc[s] = "despawn" /\ Viewer \in todo[s]
    <3>1. ASSUME NEW o \in Sessions, Despawn(s, o), o # Viewer
          PROVE  workerPc'[s] = "despawn" /\ Viewer \in todo'[s]
      BY <1>1, <2>4, <3>1 DEF Despawn, WorkerStep, TypeOK
    <3>2. ASSUME Despawn(s, Viewer) PROVE Gone(s)'
      <4>1. /\ log'[Viewer] = Append(log[Viewer], EntityDespawn(s))
            /\ log[Viewer] \in Seq(ServerMessages) /\ EntityDespawn(s) \in ServerMessages
        BY <1>1, <1>3, <3>2, ServerMessageType DEF Despawn, Send, TypeOK
      <4>2. /\ log'[Viewer] \in Seq(ServerMessages) /\ Len(log'[Viewer]) = Len(log[Viewer]) + 1
            /\ log'[Viewer][Len(log[Viewer]) + 1] = EntityDespawn(s) /\ Len(log[Viewer]) \in Nat
        BY <4>1
      <4>3. LastSaid(log'[Viewer], Len(log[Viewer]) + 1, EntityDespawn(s), EntitySpawn(s))
        BY <4>2, SaidNext, MessagesDiffer
      <4> QED
        BY <4>2, <4>3 DEF Gone, EntityDespawn, EntitySpawn
    <3> QED
      BY <1>1, <2>4, <3>1, <3>2, WorkerMoves
  <2>5. CASE Gone(s)
    <3>1. CASE log'[Viewer] = log[Viewer]
      BY <2>5, <3>1 DEF Gone, EntityDespawn, EntitySpawn
    <3>2. ASSUME NEW m \in ServerMessages, log'[Viewer] = Append(log[Viewer], m),
                 \/ m = EntitySpawn(m.id) /\ workerPc[Viewer] \in {"spawnSelf", "spawnOthers"}
                 \/ m = EntitySpawn(m.id) /\ workerPc[m.id] = "announce"
                 \/ m = EntityDespawn(m.id) /\ workerPc[m.id] = "despawn"
          PROVE  Gone(s)'
      <4>1. m # EntitySpawn(s)
        BY <1>2, <1>5, <3>2, MessagesDiffer DEF Present, HasLeft, Serving, Departing
      <4>2. /\ log[Viewer] \in Seq(ServerMessages) /\ log'[Viewer] \in Seq(ServerMessages)
            /\ Len(log'[Viewer]) = Len(log[Viewer]) + 1 /\ Len(log[Viewer]) \in 0 .. Len(log[Viewer])
            /\ log'[Viewer][Len(log[Viewer]) + 1] = m /\ Len(log[Viewer]) \in Nat
        BY <1>1, <3>2 DEF TypeOK
      <4>3. LastSaid(log'[Viewer], Len(log[Viewer]), EntityDespawn(s), EntitySpawn(s))
        BY <2>5, <3>2, <4>2, SaidBefore DEF Gone
      <4>4. LastSaid(log'[Viewer], Len(log[Viewer]) + 1, EntityDespawn(s), EntitySpawn(s))
        BY <4>1, <4>2, <4>3, SaidNext, MessagesDiffer
      <4> QED
        BY <4>2, <4>4 DEF Gone, EntityDespawn, EntitySpawn
    <3> QED
      BY <1>1, <3>1, <3>2, ViewerLog
  <2> QED
    BY <2>2, <2>3, <2>4, <2>5
<1> QED
  BY <1>4, <1>5

-----------------------------------------------------------------------------
(* Theorems *)

\* The composition implements the server's control plane: no step of the streaming worker
\* or of a client's side takes a thread of the server where it could not go alone.
THEOREM ControlPlane == WorldSpec => Spec
<1>1. WorldInit => Init
  BY DEF WorldInit
<1>2. [WorldNext]_worldVars => [Next]_vars
  BY StepOfControl DEF worldVars
<1> QED
  BY <1>1, <1>2, PTL DEF WorldSpec, Spec

\* The invariant of the composition is inductive relative to those of the control plane.
LEMMA WorldInductive ==
  ControlInv /\ PresenceInv /\ WorldInv /\ [WorldNext]_worldVars => WorldInv'
<1> SUFFICES ASSUME ControlInv, PresenceInv, WorldInv, [WorldNext]_worldVars PROVE WorldInv'
  OBVIOUS
<1>t. /\ TypeOK /\ ConnectedInv /\ RegisterOnce
      /\ ViewerTypeOK /\ KnownInv /\ ServingInv /\ OwnSpawnInv /\ EarlyInv /\ GoneInv
  BY DEF ControlInv, PresenceInv, WorldInv
<1>1. CASE ServerAndOthers \/ ViewerClient
  <2>1. Next /\ WorldNext
    BY <1>1, EarlyFrame DEF WorldNext
  <2> QED
    BY <1>1, <1>t, <2>1, ViewerTypeStep, KnownStep, ServingStep, OwnSpawnStep, EarlyStep, GoneStep
       DEF WorldInv
<1>2. CASE StreamingTick \/ ReceiveMessage \/ ReceiveBatch \/ Poll
  <2>1. WorldNext
    BY <1>2 DEF WorldNext
  <2>2. UNCHANGED vars /\ leftEarly' = leftEarly
    BY <1>2 DEF StreamingTick, ReceiveMessage, ReceiveBatch, Poll
  <2>3. ServingInv' /\ OwnSpawnInv' /\ EarlyInv' /\ GoneInv'
    BY <1>t, <2>2 DEF vars, mainVars, acceptVars, sessionVars, messageVars, broadcastVars, clientVars,
       ServingInv, OwnSpawnInv, EarlyInv, GoneInv, InLog, HasLeft, Snapped, Reachable, HasJoined,
       Present, Gone, LastSaid, EntitySpawn, EntityDespawn
  <2> QED
    BY <1>t, <2>1, <2>3, ViewerTypeStep, KnownStep DEF WorldInv
<1>3. CASE UNCHANGED worldVars
  BY <1>3, <1>t DEF worldVars, viewerVars, clientSideVars, vars, mainVars, acceptVars, sessionVars,
     messageVars, broadcastVars, clientVars, WorldInv, ViewerTypeOK, KnownInv, StillTold,
     ServingInv, OwnSpawnInv, EarlyInv, GoneInv, InLog, HasLeft, Snapped, Reachable, HasJoined,
     Present, Gone, LastSaid, EntitySpawn, EntityDespawn
<1> QED
  BY <1>1, <1>2, <1>3 DEF WorldNext

\* The invariant of the composition holds in every reachable state.
THEOREM WorldInvariant == WorldSpec => [](ControlInv /\ PresenceInv /\ WorldInv)
<1>1. WorldSpec => [](ControlInv /\ PresenceInv)
  BY ControlPlane, ControlInvariant, PresenceInvariant, PTL
<1> QED
  BY <1>1, WorldStart, WorldInductive, PTL DEF WorldSpec

\* The client's side keeps its types, and takes no message before it is written.
THEOREM ViewerTypeCorrect == WorldSpec => []ViewerTypeOK
<1>1. WorldInv => ViewerTypeOK
  BY DEF WorldInv
<1> QED
  BY <1>1, WorldInvariant, PTL

\* Whoever is present has been announced to a viewer that is, and nobody has called it gone.
LEMMA Announced ==
  ASSUME ControlInv, MutualVisibility, WorldInv, Present(Viewer), Reachable(Viewer),
         NEW s \in sessions, Present(s), Reachable(s)
  PROVE  InLog(EntitySpawn(s), Viewer)
<1>0. s \in Sessions
  BY DEF ControlInv, TypeOK
<1>1. CASE s = Viewer
  BY <1>1 DEF WorldInv, OwnSpawnInv, Present, Snapped, Serving
<1>2. CASE s # Viewer
  BY <1>0, <1>2, ViewerAssumption DEF MutualVisibility, Present
<1> QED
  BY <1>1, <1>2

\* Nobody is called gone before it leaves.
LEMMA NotDespawned ==
  ASSUME WorldInv, NEW s \in Sessions, Present(s)
  PROVE  ~InLog(EntityDespawn(s), Viewer)
  BY DEF WorldInv, ServingInv, HasLeft, Present, Serving, Departing

\* On the way to a viewer that does not know it yet, with nothing behind it that would
\* make the viewer forget it: the Spawn of a session that is there.
NewcomerIsOnItsWay ==
  Present(Viewer) /\ Reachable(Viewer) =>
    \A s \in sessions :
      Present(s) /\ Reachable(s) =>
        /\ \/ s \in world.entities
           \/ \E i \in taken + 1 .. Len(log[Viewer]) : log[Viewer][i] = EntitySpawn(s)
        /\ ~InLog(EntityDespawn(s), Viewer)

StaysStep ==
  \A s \in Sessions :
    Present(s) /\ s \in world.entities =>
      s \in world.entities' /\ (s \in shown => s \in shown')

\* Whoever is known stays known as long as it is there, and whoever is shown as well stays
\* shown: no late message, no batch and no Poll makes an entity flicker.
ThePresentStay == [][StaysStep]_worldVars

\* The first half of what NewcomerIsShown rests on besides fairness: however registrations
\* and catch-ups interleave, the Spawn of whoever is there has been taken by the viewer, or
\* waits in its connection, before any Despawn.
THEOREM NewcomerComes == WorldSpec => []NewcomerIsOnItsWay
<1>1. ControlInv /\ MutualVisibility /\ WorldInv => NewcomerIsOnItsWay
  <2> SUFFICES ASSUME ControlInv, MutualVisibility, WorldInv, Present(Viewer), Reachable(Viewer),
                      NEW s \in sessions, Present(s), Reachable(s)
               PROVE  /\ \/ s \in world.entities
                         \/ \E i \in taken + 1 .. Len(log[Viewer]) : log[Viewer][i] = EntitySpawn(s)
                      /\ ~InLog(EntityDespawn(s), Viewer)
    BY DEF NewcomerIsOnItsWay
  <2>0. /\ s \in Sessions /\ Viewer \in Sessions /\ log[Viewer] \in Seq(ServerMessages)
        /\ taken \in 0 .. Len(log[Viewer])
    BY ViewerAssumption DEF ControlInv, TypeOK, WorldInv, ViewerTypeOK
  <2>1. ~InLog(EntityDespawn(s), Viewer)
    BY <2>0, NotDespawned
  <2>2. PICK i \in 1 .. Len(log[Viewer]) : log[Viewer][i] = EntitySpawn(s)
    BY <2>0, Announced DEF InLog
  <2>3. CASE i \in taken + 1 .. Len(log[Viewer])
    BY <2>1, <2>2, <2>3
  <2>4. CASE i \in 1 .. taken
    <3>1. \A j \in i + 1 .. taken : log[Viewer][j] # EntityDespawn(s)
      BY <2>0, <2>1 DEF InLog
    <3>2. StillTold(s, taken)
      BY <2>2, <2>4, <3>1 DEF StillTold, LastSaid
    <3> QED
      BY <2>0, <2>1, <3>2 DEF WorldInv, KnownInv
  <2> QED
    BY <2>0, <2>2, <2>3, <2>4
<1>2. WorldSpec => []MutualVisibility
  BY ControlPlane, RegisteredSeeEachOther, PTL
<1> QED
  BY <1>1, <1>2, WorldInvariant, PTL

\* The second half: what EntityWorld and MainViewModel have got of it is not lost again.
THEOREM TheKnownStay == WorldSpec => ThePresentStay
<1>1. ASSUME ControlInv, WorldInv, WorldNext  PROVE  StaysStep
  <2> SUFFICES ASSUME NEW s \in Sessions, Present(s), s \in world.entities
               PROVE  s \in world.entities' /\ (s \in shown => s \in shown')
    BY DEF StaysStep
  <2>t. /\ log[Viewer] \in Seq(ServerMessages) /\ taken \in 0 .. Len(log[Viewer])
        /\ world \in [entities : SUBSET Sessions, myEntityId : Sessions \union {NoSession}]
    BY <1>1, ViewerAssumption DEF ControlInv, TypeOK, WorldInv, ViewerTypeOK
  <2>1. CASE ReceiveMessage
    <3> DEFINE m == log[Viewer][taken + 1]
    <3>1. taken + 1 \in DOMAIN log[Viewer] /\ m \in ServerMessages /\ shown' = shown
      BY <2>t, <2>1 DEF ReceiveMessage
    <3>2. m # EntityDespawn(s)
      BY <1>1, <3>1, NotDespawned DEF InLog
    <3>3. \/ world' = W!OnSpawn(world, m.id)
          \/ m.type = "EntityDespawn" /\ world' = W!OnDespawn(world, m.id)
      BY <2>1 DEF ReceiveMessage
    <3>4. m.type = "EntityDespawn" => m.id # s
      BY <3>1, <3>2, MessageForms
    <3> QED
      BY <2>t, <3>1, <3>3, <3>4 DEF W!OnSpawn, W!OnDespawn
  <2>2. CASE ReceiveBatch
    BY <2>t, <2>2 DEF ReceiveBatch, W!OnState
  <2>3. CASE Poll
    BY <2>3 DEF Poll
  <2>4. CASE ServerAndOthers \/ ViewerClient \/ StreamingTick
    BY <2>4 DEF ServerAndOthers, ViewerClient, StreamingTick, clientSideVars
  <2> QED
    BY <1>1, <2>1, <2>2, <2>3, <2>4 DEF WorldNext
<1>2. ControlInv /\ WorldInv /\ [WorldNext]_worldVars => [StaysStep]_worldVars
  BY <1>1
<1> QED
  BY <1>2, WorldInvariant, PTL DEF WorldSpec, ThePresentStay

\* A client that has read what it was sent knows every session that is there.
THEOREM NobodyIsMissing == WorldSpec => []NobodyMissing
<1>1. ControlInv /\ WorldInv /\ NewcomerIsOnItsWay => NobodyMissing
  <2>1. ViewerTypeOK => \A i : i \notin Len(log[Viewer]) + 1 .. Len(log[Viewer])
    BY DEF ViewerTypeOK
  <2> QED
    BY <2>1 DEF WorldInv, NewcomerIsOnItsWay, NobodyMissing
<1> QED
  BY <1>1, NewcomerComes, WorldInvariant, PTL

\* A session that is gone is forgotten by a viewer that has read its Despawn, but for the
\* three exceptions.
THEOREM TheGoneAreForgotten == WorldSpec => []GoneIsForgotten
<1>1. ControlInv /\ WorldInv => GoneIsForgotten
  <2> SUFFICES ASSUME ControlInv, WorldInv,
                      Present(Viewer), Reachable(Viewer), taken = Len(log[Viewer]),
                      NEW s \in world.entities, s \notin sessions,
                      isUdpEndpointRegistered[s], s \notin leftEarly,
                      StillTold(s, taken)
               PROVE  FALSE
    BY DEF GoneIsForgotten, WorldInv, KnownInv
  <2>1. s \in Sessions \ {Viewer} /\ log[Viewer] \in Seq(ServerMessages)
    BY ViewerAssumption DEF WorldInv, ViewerTypeOK, Present, ControlInv, TypeOK
  <2>2. workerPc[s] \in {"stopSession", "uncount", "done"}
    BY <2>1 DEF ControlInv, SessionsMatchWorkers, RegistrationInv
  <2>3. Gone(s)
    BY <2>1, <2>2 DEF WorldInv, GoneInv, HasLeft, Departing
  <2>4. PICK i \in 1 .. taken :
          /\ log[Viewer][i] = EntitySpawn(s)
          /\ \A j \in i + 1 .. taken : log[Viewer][j] # EntityDespawn(s)
    BY DEF StillTold, LastSaid
  <2>5. PICK k \in 1 .. taken :
          /\ log[Viewer][k] = EntityDespawn(s)
          /\ \A j \in k + 1 .. taken : log[Viewer][j] # EntitySpawn(s)
    BY <2>3 DEF Gone, LastSaid
  <2>6. k \in i + 1 .. taken \/ i \in k + 1 .. taken \/ i = k
    <3>1. taken \in Nat
      BY <2>1
    <3> QED
      BY <3>1
  <2> QED
    BY <2>4, <2>5, <2>6, MessagesDiffer
<1> QED
  BY <1>1, WorldInvariant, PTL

=============================================================================
