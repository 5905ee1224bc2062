------------------------------ MODULE StreamSync ------------------------------
(***************************************************************************)
(* One user's stream from end to end: the buttons of MainViewModel, the    *)
(* command methods of GameClient, the gate isActive_ of UdpReceiver before *)
(* the MetricsCollector, and the user's sessions on the server, one for    *)
(* each connection made.  ControlServer, UdpStreaming and GameClient have  *)
(* the threads of each side; here their order on the two sides matters,    *)
(* with a TCP stream and a UDP stream between them that keep no common     *)
(* order.                                                                  *)
(*                                                                         *)
(* The user's thread runs buttons and Poll.  The watchdog replaces a lost  *)
(* connection; it waits ReconnectInterval (2 s) before, sixty periods of   *)
(* Poll, so Poll is taken to have run in between.                          *)
(***************************************************************************)
EXTENDS Integers, Sequences

CONSTANTS MaxConnections,  \* bound on the connections made
          MaxCommands,     \* bound on the buttons pressed
          MaxPackets,      \* bound on the packets streamed
          MissingSequenceWindow

ASSUME StreamSyncAssumption ==
  MaxConnections \in Nat /\ MaxCommands \in Nat /\ MaxPackets \in Nat

ASSUME StreamWindowAssumption == MissingSequenceWindow \in Nat \ {0}

Connections == 1 .. MaxConnections

NoConnection == 0

VARIABLES
  \* The server and the network.
  session,       \* the ClientSession of each connection
  serving,       \* connections that the server has not given up
  sending,       \* the recipient that the streaming worker found playing
  broken,        \* connections that are lost or closed
  tcp,           \* commands on their way, for each connection
  network,       \* packets on their way
  \* GameClient and UdpReceiver.
  connection,    \* the last connection made
  connectionState,
  isActive,
  receiverPc, inHand,  \* the receive worker and its packet
  \* The user's thread and MainViewModel.
  userPc, button,
  previousConnectionState, playState, isRate60,
  \* MetricsCollector's state.
  now, totalReceivedCount, outOfOrderCount, confirmedLostCount, highestSequenceId,
  hasReceivedPacket, missingSequenceIds, statsStartTime, isPaused, pauseStartTime,
  accumulatedPausedSeconds, expectedDataRate, hasTimingSample, lastTimingSequenceId,
  lastReceiveTime, intervalSampleCount, delayedPacketCount, hasLatencySample,
  latencySampleCount, totalLatency, minLatency, maxLatency,
  firstSequenceId, received, late, activeTime,
  \* History for the bounds and the properties.
  pressed, streamed,   \* buttons and packets so far
  stopsServed,         \* Stops that each session has carried out
  stopsMade,           \* Stops that have cleared the statistics of the last connection
  firstPacket,         \* the packet that the statistics begin with
  activated,           \* Play was carried out here on the last connection
  rateSet              \* the rate was set on the last connection, or it is the first

Metrics == INSTANCE MetricsCollector
  WITH MaxSequenceId <- MaxPackets, MaxReceived <- MaxPackets, MaxTime <- 0, Timestamps <- {0}

S == INSTANCE ClientSession WITH SequenceModulus <- MaxPackets + 2

serverVars  == <<session, serving, sending, stopsServed>>
channelVars == <<broken, tcp>>
clientVars  == <<connection, connectionState>>
workerVars  == <<receiverPc, inHand>>
shownVars   == <<previousConnectionState, playState, isRate60>>
userVars    == <<userPc, button, pressed>>
ownVars     == <<stopsMade, activated, rateSet>>
metricsVars ==
  <<now, totalReceivedCount, outOfOrderCount, confirmedLostCount, highestSequenceId,
    hasReceivedPacket, missingSequenceIds, statsStartTime, isPaused, pauseStartTime,
    accumulatedPausedSeconds, expectedDataRate, hasTimingSample, lastTimingSequenceId,
    lastReceiveTime, intervalSampleCount, delayedPacketCount, hasLatencySample,
    latencySampleCount, totalLatency, minLatency, maxLatency,
    firstSequenceId, received, late, activeTime>>

vars == <<serverVars, channelVars, network, streamed, clientVars, isActive, workerVars,
          userVars, shownVars, ownVars, firstPacket, metricsVars>>

Rate == [SetRate30 |-> 30, SetRate60 |-> 60]

Buttons == {"Play", "Pause", "Stop", "Reset"} \union DOMAIN Rate

NoButton == "none"

Packets == [connection : Connections, stops : 0 .. MaxCommands, id : 1 .. MaxPackets]

NoPacket == [connection |-> NoConnection, stops |-> 0, id |-> 0]

Init ==
  /\ session = [c \in Connections |-> S!NewClientSession]
  /\ serving = {} /\ sending = NoConnection
  /\ broken = {} /\ tcp = [c \in Connections |-> <<>>] /\ network = {}
  /\ connection = NoConnection /\ connectionState = "Disconnected"
  /\ isActive = FALSE /\ receiverPc = "receive" /\ inHand = NoPacket
  /\ userPc = "idle" /\ button = NoButton
  /\ previousConnectionState = "Disconnected" /\ playState = "Stopped" /\ isRate60 = FALSE
  /\ Metrics!Init
  /\ pressed = 0 /\ streamed = 0
  /\ stopsServed = [c \in Connections |-> 0]
  /\ stopsMade = 0 /\ firstPacket = NoPacket /\ activated = FALSE /\ rateSet = TRUE

-----------------------------------------------------------------------------
(* The server *)

Execute(cs, command) ==
  CASE command = "RegisterUdpPort" -> S!RegisterUdpEndpoint(cs, 1)
    [] command = "Play"  -> S!Play(cs)
    [] command = "Pause" -> S!Pause(cs)
    [] command = "Stop"  -> S!Stop(cs)
    [] command = "Reset" -> S!Reset(cs)
    [] command \in DOMAIN Rate -> S!SetRate(cs, Rate[command])

ProcessOneMessage(c) ==
  /\ c \in serving /\ tcp[c] # <<>>
  /\ session' = [session EXCEPT ![c] = Execute(@, Head(tcp[c]))]
  /\ tcp' = [tcp EXCEPT ![c] = Tail(@)]
  /\ stopsServed' = [stopsServed EXCEPT ![c] = IF Head(tcp[c]) = "Stop" THEN @ + 1 ELSE @]
  /\ UNCHANGED <<serving, sending, broken, network, streamed>>

RemoveSession(c) ==
  /\ c \in serving \intersect broken
  /\ serving' = serving \ {c}
  /\ session' = [session EXCEPT ![c] = S!StopSession(@)]
  /\ UNCHANGED <<sending, stopsServed, channelVars, network, streamed>>

\* Which ticks a recipient at 30 Hz skips is UdpStreaming's subject.
FindRecipient(c) ==
  /\ sending = NoConnection
  /\ c \in serving /\ session[c].state = "Playing" /\ S!HasUdpEndpoint(session[c])
  /\ sending' = c
  /\ UNCHANGED <<session, serving, stopsServed, channelVars, network, streamed>>

\* Mutant: the packet carries the counter's old value.
SendPacket_OldValue ==
  /\ sending # NoConnection /\ streamed < MaxPackets
  /\ session' = [session EXCEPT ![sending] = S!TakeSequenceId(@)]
  /\ network' = network \union
       {[connection |-> sending, stops |-> stopsServed[sending],
         id |-> session[sending].nextSequenceId]}
  /\ streamed' = streamed + 1 /\ sending' = NoConnection
  /\ UNCHANGED <<serving, stopsServed, channelVars>>

SendPacket ==
  LET next == S!TakeSequenceId(session[sending]) IN
  /\ sending # NoConnection /\ streamed < MaxPackets
  /\ session' = [session EXCEPT ![sending] = next]
  /\ network' = network \union
       {[connection |-> sending, stops |-> stopsServed[sending], id |-> next.nextSequenceId]}
  /\ streamed' = streamed + 1 /\ sending' = NoConnection
  /\ UNCHANGED <<serving, stopsServed, channelVars>>

Server ==
  /\ \/ \E c \in Connections : ProcessOneMessage(c) \/ RemoveSession(c) \/ FindRecipient(c)
     \/ SendPacket
  /\ UNCHANGED <<clientVars, isActive, workerVars, userVars, shownVars, ownVars, firstPacket,
                 metricsVars>>

\* The connection is lost; either side notices in its own time.
Break ==
  /\ connection \in Connections \ broken
  /\ broken' = broken \union {connection}
  /\ UNCHANGED <<serverVars, tcp, network, streamed, clientVars, isActive, workerVars, userVars,
                 shownVars, ownVars, firstPacket, metricsVars>>

-----------------------------------------------------------------------------
(* UdpReceiver::ReceiveWorker *)

\* A packet that is never taken is lost.  The socket is open while connected.
ReceiveFrom ==
  /\ receiverPc = "receive" /\ receiverPc' = "check"
  /\ connectionState = "Connected"
  /\ \E packet \in network : inHand' = packet /\ network' = network \ {packet}
  /\ UNCHANGED <<firstPacket, metricsVars>>

CheckActive ==
  /\ receiverPc = "check"
  /\ IF isActive THEN receiverPc' = "count" /\ UNCHANGED inHand
                 ELSE receiverPc' = "receive" /\ inHand' = NoPacket
  /\ UNCHANGED <<network, firstPacket, metricsVars>>

CountPacket ==
  /\ receiverPc = "count" /\ receiverPc' = "receive"
  /\ Metrics!OnPacketReceived(inHand.id, 0)
  /\ firstPacket' = IF hasReceivedPacket THEN firstPacket ELSE inHand
  /\ inHand' = NoPacket
  /\ UNCHANGED network

ReceiveWorker ==
  /\ ReceiveFrom \/ CheckActive \/ CountPacket
  /\ UNCHANGED <<serverVars, channelVars, streamed, clientVars, isActive, userVars, shownVars,
                 ownVars>>

-----------------------------------------------------------------------------
(* GameClient's connection: the user's Connect, and the watchdog *)

ResetMetrics == Metrics!Reset /\ firstPacket' = NoPacket

\* UdpReceiver::Start closes the gate before it opens the socket.
Start == isActive' = FALSE /\ ResetMetrics

\* A failed attempt changes nothing here but what the next one does again.
Connect ==
  /\ userPc = "idle"
  /\ \/ connectionState = "Disconnected"
     \/ connectionState = "Reconnecting" /\ previousConnectionState = "Reconnecting"
  /\ connection < MaxConnections
  /\ Start
  /\ connection' = connection + 1
  /\ connectionState' = "Connected"
  /\ serving' = serving \union {connection'}
  /\ tcp' = [tcp EXCEPT ![connection'] = <<"RegisterUdpPort">>]
  /\ stopsMade' = 0 /\ activated' = FALSE /\ rateSet' = (connection = NoConnection)
  /\ UNCHANGED <<session, sending, stopsServed, broken, network, streamed, workerVars, userVars,
                 shownVars>>

\* Mutant: the receive worker is not joined.
Joined_NoJoin == UNCHANGED workerVars

\* UdpReceiver::Stop waits for the receive worker to come round its loop.
Joined == receiverPc = "receive" /\ UNCHANGED workerVars

Teardown ==
  /\ connectionState = "Connected" /\ connection \in broken
  /\ Joined
  /\ connectionState' = "Reconnecting"
  /\ UNCHANGED <<serverVars, channelVars, network, streamed, connection, isActive, userVars,
                 shownVars, ownVars, firstPacket, metricsVars>>

-----------------------------------------------------------------------------
(* The user's thread: buttons *)

UserStep(from, to) == userPc = from /\ userPc' = to

IsConnected == previousConnectionState = "Connected"

Press(b) ==
  /\ UserStep("idle", IF b = "Stop" THEN "deactivate" ELSE "send")
  /\ IsConnected /\ connectionState = "Connected"
  /\ pressed < MaxCommands
  /\ button' = b /\ pressed' = pressed + 1
  /\ UNCHANGED <<tcp, isActive, playState, isRate60, ownVars, firstPacket, metricsVars>>

\* Mutant: Stop leaves the gate open.
Deactivate_LeavesOpen ==
  /\ UserStep("deactivate", "send")
  /\ UNCHANGED <<button, pressed, tcp, isActive, playState, isRate60, ownVars, firstPacket,
                 metricsVars>>

\* UdpReceiver::OnStop, before the command is sent.
Deactivate ==
  /\ UserStep("deactivate", "send")
  /\ isActive' = FALSE
  /\ UNCHANGED <<button, pressed, tcp, playState, isRate60, ownVars, firstPacket, metricsVars>>

\* SendAll returns when the bytes are buffered: on a broken connection they may be lost.
SendSucceeds ==
  /\ UserStep("send", IF button \in {"Play", "Pause"} THEN "activate" ELSE "finish")
  /\ connectionState = "Connected"
  /\ tcp' = IF connection \in broken THEN tcp ELSE [tcp EXCEPT ![connection] = Append(@, button)]
  /\ UNCHANGED <<button, ownVars>>

SendFails ==
  /\ UserStep("send", "idle")
  /\ connection \in broken
  /\ button' = NoButton
  /\ UNCHANGED <<tcp, ownVars>>

Send ==
  /\ SendSucceeds \/ SendFails
  /\ UNCHANGED <<pressed, isActive, playState, isRate60, firstPacket, metricsVars>>

\* UdpReceiver::OnPlay, OnPause: the gate first, then the collector.
Activate ==
  /\ UserStep("activate", "finish")
  /\ isActive' = (button = "Play")
  /\ activated' = (activated \/ button = "Play")
  /\ UNCHANGED <<button, pressed, tcp, playState, isRate60, stopsMade, rateSet, firstPacket,
                 metricsVars>>

Show(state) == playState' = state /\ UNCHANGED <<isRate60, rateSet>>

SetRate ==
  /\ Metrics!SetExpectedDataRate(Rate[button])
  /\ isRate60' = (button = "SetRate60") /\ rateSet' = TRUE
  /\ UNCHANGED <<playState, firstPacket>>

Finish ==
  /\ UserStep("finish", "idle") /\ button' = NoButton
  /\ \/ button = "Play"  /\ Metrics!OnPlay  /\ Show("Playing") /\ UNCHANGED firstPacket
     \/ button = "Pause" /\ Metrics!OnPause /\ Show("Paused")  /\ UNCHANGED firstPacket
     \/ button = "Stop"  /\ ResetMetrics /\ Show("Stopped")
     \/ button = "Reset" /\ ResetMetrics /\ Show(playState)
     \/ button \in DOMAIN Rate /\ SetRate
  /\ stopsMade' = IF button = "Stop" THEN stopsMade + 1 ELSE stopsMade
  /\ UNCHANGED <<pressed, tcp, isActive, activated>>

User ==
  /\ (\E b \in Buttons : Press(b)) \/ Deactivate \/ Send \/ Activate \/ Finish
  /\ UNCHANGED <<serverVars, broken, network, streamed, clientVars, workerVars,
                 previousConnectionState>>

\* Mutant: a reconnect is taken for the old connection.
JustConnected_OnlyFirst ==
  connectionState = "Connected" /\ previousConnectionState = "Disconnected"

JustConnected == connectionState = "Connected" /\ previousConnectionState # "Connected"

\* The timer runs from the first Connect on.
Poll ==
  /\ UserStep("idle", "idle")
  /\ connection # NoConnection
  /\ previousConnectionState' = connectionState
  /\ playState' = IF JustConnected THEN "Stopped" ELSE playState
  /\ isRate60' = (isRate60 /\ ~JustConnected)
  /\ UNCHANGED <<serverVars, channelVars, network, streamed, clientVars, isActive, workerVars,
                 button, pressed, ownVars, firstPacket, metricsVars>>

Next == Server \/ Break \/ ReceiveWorker \/ Connect \/ Teardown \/ User \/ Poll

Spec == Init /\ [][Next]_vars

-----------------------------------------------------------------------------
(* Properties *)

\* The variables of both sides keep their types: a packet's id is never 0, the value of
\* the counter that no packet carries.
TypeOK ==
  /\ session \in [Connections -> S!ClientSessionType]
  /\ serving \subseteq Connections /\ broken \subseteq Connections
  /\ sending \in Connections \union {NoConnection}
  /\ \A c \in Connections : \A i \in 1 .. Len(tcp[c]) : tcp[c][i] \in Buttons \union {"RegisterUdpPort"}
  /\ network \subseteq Packets /\ inHand \in Packets \union {NoPacket}
  /\ firstPacket \in Packets \union {NoPacket}
  /\ connection \in Connections \union {NoConnection}
  /\ {connectionState, previousConnectionState} \subseteq {"Disconnected", "Connected", "Reconnecting"}
  /\ isActive \in BOOLEAN /\ receiverPc \in {"receive", "check", "count"}
  /\ userPc \in {"idle", "deactivate", "send", "activate", "finish"}
  /\ button \in Buttons \union {NoButton}
  /\ playState \in S!SessionStates /\ isRate60 \in BOOLEAN
  /\ Metrics!TypeOK

\* Nothing is on its way between the user and the session of a sound connection.
Settled ==
  /\ userPc = "idle"
  /\ connectionState = "Connected" /\ IsConnected
  /\ connection \notin broken /\ tcp[connection] = <<>>

\* The server never reports a session's state, and MainViewModel shows what it believes of
\* it.  Whatever was pressed, lost, refused or reconnected, once things have settled it
\* shows Playing exactly if the session plays, and only then are packets let through; the
\* rate shown is the session's, also after a reconnect has put that one back to 30; and
\* the collector judges delays by that rate once it has been set on this connection.
ShownAgrees ==
  Settled =>
    /\ (playState = "Playing") = (session[connection].state = "Playing")
    /\ (playState = "Playing") = isActive
    /\ isRate60 = (session[connection].dataRate = 60)
    /\ rateSet => expectedDataRate = session[connection].dataRate

\* After Stop the statistics stay empty however many packets are still to come, save for
\* the one packet that the receive worker had found the gate open for.
StoppedCountsAtMostOne ==
  userPc = "idle" /\ playState = "Stopped" => totalReceivedCount <= 1

\* A new connection starts with empty statistics and they stay so until Play, while
\* packets of the old connection's session may still arrive at the same port.
NewConnectionCountsNothing ==
  connectionState = "Connected" /\ ~activated => totalReceivedCount = 0

\* Claim of the description of isActive_: a packet sent before the server carried out
\* Stop, or for another connection, is never taken for the first packet of the
\* statistics that Stop has cleared.
StragglerIsNeverFirst ==
  hasReceivedPacket /\ connection \notin broken =>
    firstPacket.connection = connection /\ firstPacket.stops >= stopsMade

=============================================================================
