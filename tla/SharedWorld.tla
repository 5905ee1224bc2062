---------------------------- MODULE SharedWorld ----------------------------
(***************************************************************************)
(* What one client, the viewer, comes to know of the others: ControlServer *)
(* with the client that reads one of its connections.  Spawn and Despawn   *)
(* reach the client's EntityWorld in the order in which the server's       *)
(* workers wrote them to the viewer's connection; EntityState batches      *)
(* reach it by UDP, from the streaming worker, and nothing orders the two. *)
(* MainViewModel polls the result into the list it shows.                  *)
(*                                                                         *)
(* The viewer stays connected (GameClient is about losing a connection),   *)
(* and the gate isActive_ opens and closes in one step with the command    *)
(* that is sent (StreamSync takes them apart).                             *)
(***************************************************************************)
EXTENDS ControlServer

CONSTANTS Viewer,     \* the connection that the client is on
          BufferSize  \* of UdpReceiver::ReceiveWorker: Wire's ClientBufferSize, or less

ASSUME ViewerAssumption == Viewer \in Sessions \ Leavers /\ BufferSize \in Nat

W == INSTANCE EntityWorld WITH NoEntity <- NoSession

Packet == INSTANCE Wire

VARIABLES
  network,      \* batches sent to the viewer: each may arrive never, late or twice
  taken,        \* how many messages of log[Viewer] TcpMessageReceiver has taken
  isActive,     \* UdpReceiver::isActive_
  world,        \* entityWorld_
  shown,        \* entityLookup_, the list of MainViewModel
  \* History for the properties.
  leftEarly     \* sessions that left before the viewer had joined

clientSideVars == <<taken, isActive, world, shown>>
viewerVars == <<network, clientSideVars, leftEarly>>

worldVars == <<vars, viewerVars>>

WorldInit ==
  /\ Init
  /\ network = {}
  /\ taken = 0 /\ isActive = FALSE
  /\ world = W!EmptyWorld
  /\ shown = {} /\ leftEarly = {}

\* s has registered and told everybody, and has not begun to leave.
Present(s) == s \in sessions /\ isUdpEndpointRegistered[s] /\ workerPc[s] \in Serving

-----------------------------------------------------------------------------
(* UdpStreamingService::Worker, as far as its batches go                        *)

IsPlaying(s) == session[s].state = "Playing"

\* One batch, of all that play, to each recipient that plays.  UdpStreaming takes the loop
\* apart; what that changes here is only that a batch may be older when it arrives, and
\* every batch may be.  A tick that a recipient at 30 Hz skips is as good as a lost batch.
StreamingTick ==
  /\ IsPlaying(Viewer) /\ HasUdpEndpoint(session[Viewer])
  /\ network' = network \union {{s \in sessions : IsPlaying(s)}}
  /\ UNCHANGED <<vars, clientSideVars, leftEarly>>

-----------------------------------------------------------------------------
(* The viewer's two receive workers                                             *)

\* TcpMessageReceiver::ReceiveWorker
ReceiveMessage ==
  LET m == log[Viewer][taken + 1] IN
  /\ taken < Len(log[Viewer]) /\ taken' = taken + 1
  /\ \/ m.type = "EntitySpawn" /\ world' = W!OnSpawn(world, m.id)
     \/ m.type = "EntityDespawn" /\ world' = W!OnDespawn(world, m.id)
  /\ UNCHANGED <<vars, network, isActive, shown, leftEarly>>

\* UdpReceiver::ReceiveWorker.  A datagram larger than the buffer is an error of recvfrom,
\* and is gone.  The entries are applied one by one; as each is of another entity, that
\* and a packet that waits in the worker's hand are the same as one that comes later.
ReceiveBatch ==
  /\ isActive
  /\ \E b \in network :
       /\ Packet!BatchPacketSize(Cardinality(b)) <= BufferSize
       /\ world' = W!OnState(world, b)
  /\ UNCHANGED <<vars, network, taken, isActive, shown, leftEarly>>

-----------------------------------------------------------------------------
(* The viewer's user interface                                                  *)

\* Mutant: what is new in the snapshot is not added.
Poll_OnlyRemoves ==
  /\ client[Viewer] = "open"
  /\ shown' = shown \intersect world.entities
  /\ UNCHANGED <<vars, network, taken, isActive, world, leftEarly>>

\* What is not in the snapshot goes from the list, what is new comes in.
Poll ==
  /\ client[Viewer] = "open"
  /\ shown' = world.entities
  /\ UNCHANGED <<vars, network, taken, isActive, world, leftEarly>>

\* A command that has been sent opens or closes the gate.
ViewerClient ==
  /\ Client(Viewer)
  /\ \E m \in ClientMessages :
       /\ inbox'[Viewer] \in {inbox[Viewer], Append(inbox[Viewer], m)}
       /\ isActive' = IF inbox'[Viewer] = inbox[Viewer] THEN isActive
                      ELSE m.type = "Play" \/ (isActive /\ m.type \notin {"Pause", "Stop"})
  /\ UNCHANGED <<network, taken, world, shown, leftEarly>>

ServerAndOthers ==
  /\ Main \/ AcceptWorker \/ (\E s \in Sessions : ControlWorker(s))
     \/ \E s \in Sessions \ {Viewer} : Client(s)
  /\ leftEarly' = IF Present(Viewer) THEN leftEarly
                  ELSE leftEarly \union {s \in Sessions : workerPc'[s] \in Departing}
  /\ UNCHANGED <<network, clientSideVars>>

WorldNext ==
  \/ ServerAndOthers \/ ViewerClient
  \/ StreamingTick \/ ReceiveMessage \/ ReceiveBatch \/ Poll

WorldSpec == WorldInit /\ [][WorldNext]_worldVars

\* As in ControlServer; the viewer's two threads run, TCP delivers what was written, and
\* the timer of Poll ticks.  That any batch arrives is not assumed.
WorldFairness ==
  /\ WF_worldVars(AcceptWorker /\ ServerAndOthers)
  /\ \A s \in Sessions : WF_worldVars(ControlWorker(s) /\ ServerAndOthers)
  /\ WF_worldVars(ReceiveMessage)
  /\ WF_worldVars(Poll)

FairWorldSpec == WorldSpec /\ WorldFairness

-----------------------------------------------------------------------------
(* Properties *)

\* The viewer's side has its types; no message is taken before it is written.
ViewerTypeOK ==
  /\ network \subseteq SUBSET Sessions
  /\ taken \in 0 .. Len(log[Viewer]) /\ isActive \in BOOLEAN
  /\ world \in [entities : SUBSET Sessions, myEntityId : Sessions \union {NoSession}]
  /\ shown \subseteq Sessions /\ leftEarly \subseteq Sessions

\* A client that has read what it was sent knows every session that is there, however
\* registrations, departures, late states and packets too large interleave.
NobodyMissing ==
  Present(Viewer) /\ Reachable(Viewer) /\ taken = Len(log[Viewer]) =>
    \A s \in sessions : Present(s) /\ Reachable(s) => s \in world.entities

\* A session that is gone is forgotten by a viewer that has read its Despawn.  It may stay
\* known only in one of three ways: it never registered, so nobody is told of its end; it
\* left while the viewer was joining, whose catch-up was made from an older snapshot; or a
\* state of it was on its way.
GoneIsForgotten ==
  Present(Viewer) /\ Reachable(Viewer) /\ taken = Len(log[Viewer]) =>
    \A s \in world.entities \ sessions :
      \/ ~isUdpEndpointRegistered[s]
      \/ s \in leftEarly
      \/ \E b \in network : s \in b

\* Somebody who joins is shown in the end, also to a viewer that is joining itself, and
\* without one packet getting through.
NewcomerIsShown ==
  \A s \in Sessions :
    Present(s) /\ Present(Viewer) ~> (s \in shown \/ ~Present(s) \/ ~Present(Viewer))

\* Whether the last that the client took of s was its Despawn.
TakenDespawn(s) ==
  \E i \in 1 .. taken :
    /\ log[Viewer][i] = EntityDespawn(s)
    /\ \A j \in i + 1 .. taken : log[Viewer][j] # EntitySpawn(s)

\* Claim of Poll: what the server no longer tells of, an entity that was despawned, goes
\* from the list.
DespawnedIsNotShown ==
  shown = world.entities => \A s \in shown : ~TakenDespawn(s)

=============================================================================
