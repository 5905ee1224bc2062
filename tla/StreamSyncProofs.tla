-------------------------- MODULE StreamSyncProofs --------------------------
(***************************************************************************)
(* Proofs about StreamSync, for any number of connections, commands and    *)
(* packets: what the interface shows is what the server does, a gate that  *)
(* is closed keeps the statistics as Stop and Connect left them, and the   *)
(* collector is used as MetricsCollector specifies, whose theorems then    *)
(* hold here too.                                                          *)
(***************************************************************************)
EXTENDS StreamSync, TLAPS

ConnectionStates == {"Disconnected", "Connected", "Reconnecting"}

UserPcs == {"idle", "deactivate", "send", "activate", "finish"}

Commands == Buttons \union {"RegisterUdpPort"}

\* The types that the arguments below need.
TypeInv ==
  /\ session \in [Connections -> S!ClientSessionType]
  /\ tcp \in [Connections -> Seq(Commands)]
  /\ connection \in 0 .. MaxConnections
  /\ serving \subseteq 1 .. connection /\ sending \in 0 .. connection
  /\ connectionState \in ConnectionStates /\ previousConnectionState \in ConnectionStates
  /\ isActive \in BOOLEAN /\ isRate60 \in BOOLEAN
  /\ activated \in BOOLEAN /\ rateSet \in BOOLEAN
  /\ userPc \in UserPcs /\ button \in Buttons \union {NoButton}
  /\ totalReceivedCount \in Nat /\ expectedDataRate \in {30, 60}

\* A session that no connection has reached yet is as it was made.
NewSessionInv ==
  \A c \in Connections : c > connection => session[c] = S!NewClientSession

\* Where the user's thread is with which button.
ButtonInv ==
  /\ userPc = "activate" => button \in {"Play", "Pause"}
  /\ userPc = "deactivate" => button = "Stop"
  /\ userPc \in {"send", "finish"} => button \in Buttons

\* What holds from a Connect until Poll has seen it: no button is being handled, and
\* nothing of the last connection is taken for this one's.
ConnectInv ==
  /\ (connection = NoConnection) = (connectionState = "Disconnected")
  /\ connection = NoConnection =>
       /\ previousConnectionState = "Disconnected" /\ userPc = "idle"
       /\ ~isRate60 /\ expectedDataRate = 30
  /\ connectionState = "Connected" /\ previousConnectionState # "Connected" =>
       userPc = "idle" /\ ~activated /\ (rateSet => ~isRate60)
  /\ connectionState # "Connected" => receiverPc = "receive"

\* Before Play and after Stop the gate is closed, and at most the packet that had passed
\* it is counted.
GateInv ==
  /\ connectionState = "Connected" /\ ~activated =>
       totalReceivedCount = 0 /\ ~isActive /\ receiverPc # "count"
  /\ playState = "Stopped" /\ ~(userPc = "finish" /\ button = "Play") =>
       /\ ~isActive /\ totalReceivedCount <= 1
       /\ receiverPc = "count" => totalReceivedCount = 0
  /\ userPc \in {"send", "finish"} /\ button = "Stop" => ~isActive

-----------------------------------------------------------------------------
(* Commands that are on their way *)

PlayCommands == {"Play", "Pause", "Stop"}

RateCommands == DOMAIN Rate

\* Whether command is what the last command of kind in q says, or b if there is none.
Will(q, kind, command, b) ==
  IF \E i \in 1 .. Len(q) : q[i] \in kind
  THEN \E i \in 1 .. Len(q) : q[i] = command /\ \A j \in i + 1 .. Len(q) : q[j] \notin kind
  ELSE b

\* What becomes of connection c's session when all that is on its way has been carried out.
WillPlay(c) == Will(tcp[c], PlayCommands, "Play", session[c].state = "Playing")

WillRate60(c) == Will(tcp[c], RateCommands, "SetRate60", session[c].dataRate = 60)

\* What the interface believes of it, the command in hand included once it is sent.
BelievedPlaying ==
  IF userPc \in {"activate", "finish"} /\ button \in PlayCommands THEN button = "Play"
  ELSE previousConnectionState = "Connected" /\ playState = "Playing"

BelievedRate60 ==
  IF userPc = "finish" /\ button \in RateCommands THEN button = "SetRate60"
  ELSE previousConnectionState = "Connected" /\ isRate60

Sound == connectionState = "Connected" /\ connection \notin broken

BeliefInv ==
  Sound =>
    /\ WillPlay(connection) <=> BelievedPlaying
    /\ WillRate60(connection) <=> BelievedRate60

\* The gate and what is shown, from one button to the next.
ShownGate ==
  /\ \/ userPc \in {"idle", "deactivate"}
     \/ userPc = "send" /\ button # "Stop"
     \/ userPc = "finish" /\ button \notin PlayCommands
     => (isActive <=> playState = "Playing")
  /\ userPc = "finish" /\ button \in {"Play", "Pause"} => (isActive <=> button = "Play")

ShownGateInv == Sound /\ previousConnectionState = "Connected" => ShownGate

RateInv == rateSet => (expectedDataRate = 60 <=> isRate60)

SyncInv ==
  /\ TypeInv /\ NewSessionInv /\ ButtonInv /\ ConnectInv /\ GateInv
  /\ BeliefInv /\ ShownGateInv /\ RateInv

-----------------------------------------------------------------------------
(* The methods *)

LEMMA ExecuteEffect ==
  ASSUME NEW cs \in S!ClientSessionType, NEW command \in Commands
  PROVE  /\ Execute(cs, command) \in S!ClientSessionType
         /\ (Execute(cs, command).state = "Playing")
              = IF command \in PlayCommands THEN command = "Play" ELSE cs.state = "Playing"
         /\ (Execute(cs, command).dataRate = 60)
              = IF command \in RateCommands THEN command = "SetRate60" ELSE cs.dataRate = 60
<1> USE DEF S!ClientSessionType, S!SessionStates, S!DataRates, S!Controls, S!ControlLimit, Execute,
            PlayCommands, RateCommands, Rate
<1>1. CASE command = "RegisterUdpPort"
  BY <1>1 DEF S!RegisterUdpEndpoint
<1>2. CASE command = "Play"
  BY <1>2 DEF S!Play
<1>3. CASE command = "Pause"
  BY <1>3 DEF S!Pause
<1>4. CASE command = "Stop"
  <2> DEFINE stopped == S!StopState(cs)
             restarted == S!StopSequence(stopped)
  <2>1. stopped \in S!ClientSessionType /\ stopped.state = "Stopped" /\ stopped.dataRate = cs.dataRate
    BY DEF S!StopState
  <2> HIDE DEF stopped
  <2>2. restarted \in S!ClientSessionType /\ restarted.state = "Stopped"
        /\ restarted.dataRate = cs.dataRate
    BY <2>1 DEF S!StopSequence
  <2> HIDE DEF restarted
  <2>3. ASSUME NEW x \in S!ClientSessionType
        PROVE  /\ S!StopEntity(x) \in S!ClientSessionType
               /\ S!StopEntity(x).state = x.state /\ S!StopEntity(x).dataRate = x.dataRate
    <3>1. S!StopEntity(x) = [x EXCEPT !.moved = FALSE, !.control = 0]
      BY Zenon DEF S!StopEntity
    <3>2. 0 \in S!Controls
      OBVIOUS
    <3> HIDE DEF Execute, S!Controls
    <3> QED  BY <3>1, <3>2, ZenonT(60)
  <2>4. Execute(cs, command) = S!StopEntity(restarted)
    <3>1. Execute(cs, command) = S!Stop(cs)
      BY <1>4
    <3>2. S!Stop(cs) = S!StopEntity(restarted)
      BY Zenon DEF S!Stop, restarted, stopped
    <3> QED  BY <3>1, <3>2, Zenon
  <2> HIDE DEF Execute, S!ClientSessionType
  <2> QED  BY <1>4, <2>2, <2>3, <2>4
<1>5. CASE command = "Reset"
  BY <1>5 DEF S!Reset
<1>6. CASE command \in {"SetRate30", "SetRate60"}
  BY <1>6 DEF S!SetRate
<1> QED  BY <1>1, <1>2, <1>3, <1>4, <1>5, <1>6 DEF Commands, Buttons

LEMMA SessionEffects ==
  ASSUME NEW cs \in S!ClientSessionType
  PROVE  /\ S!StopSession(cs) \in S!ClientSessionType
         /\ S!TakeSequenceId(cs) \in S!ClientSessionType
         /\ S!TakeSequenceId(cs).state = cs.state /\ S!TakeSequenceId(cs).dataRate = cs.dataRate
<1>1. (cs.nextSequenceId + 1) % (MaxPackets + 2) \in Nat
  BY StreamSyncAssumption DEF S!ClientSessionType
<1> QED  BY <1>1 DEF S!ClientSessionType, S!SessionStates, S!StopSession, S!TakeSequenceId

LEMMA NewSession ==
  /\ S!NewClientSession \in S!ClientSessionType
  /\ S!NewClientSession.state = "Stopped" /\ S!NewClientSession.dataRate = 30
BY DEF S!NewClientSession, S!ClientSessionType, S!SessionStates, S!DataRates, S!Controls,
       S!ControlLimit, S!NoPort

LEMMA CollectorEffects ==
  /\ ResetMetrics => totalReceivedCount' = 0 /\ expectedDataRate' = expectedDataRate
  /\ Metrics!OnPlay \/ Metrics!OnPause \/ UNCHANGED metricsVars =>
       totalReceivedCount' = totalReceivedCount /\ expectedDataRate' = expectedDataRate
  /\ \A rate : Metrics!SetExpectedDataRate(rate) =>
       totalReceivedCount' = totalReceivedCount /\ expectedDataRate' = rate
  /\ \A id, t : Metrics!OnPacketReceived(id, t) =>
       totalReceivedCount' = totalReceivedCount + 1 /\ expectedDataRate' = expectedDataRate
BY Zenon DEF ResetMetrics, Metrics!Reset, Metrics!ResetLoss, Metrics!OnPlay, Metrics!OnPause,
   metricsVars, Metrics!SetExpectedDataRate, Metrics!OnPacketReceived

\* Sending a command, and carrying one out.
LEMMA WillAppend ==
  ASSUME NEW q \in Seq(Commands), NEW last \in Commands, NEW kind, NEW command \in kind, NEW b
  PROVE  Will(Append(q, last), kind, command, b)
           = IF last \in kind THEN last = command ELSE Will(q, kind, command, b)
<1> DEFINE r == Append(q, last)
<1>1. /\ Len(q) \in Nat /\ Len(r) = Len(q) + 1 /\ r[Len(q) + 1] = last
      /\ \A i \in 1 .. Len(q) : r[i] = q[i]
  OBVIOUS
<1> HIDE DEF r
<1>2. CASE last \in kind
  <2>1. \E i \in 1 .. Len(r) : r[i] \in kind
    BY <1>1, <1>2
  <2>2. ASSUME NEW i \in 1 .. Len(r), r[i] = command, \A j \in i + 1 .. Len(r) : r[j] \notin kind
        PROVE  last = command
    BY <1>1, <1>2, <2>2
  <2>3. last = command =>
          \E i \in 1 .. Len(r) : r[i] = command /\ \A j \in i + 1 .. Len(r) : r[j] \notin kind
    BY <1>1
  <2> QED  BY <1>2, <2>1, <2>2, <2>3, Zenon DEF Will, r
<1>3. CASE last \notin kind
  <2>1. (\E i \in 1 .. Len(r) : r[i] \in kind) = (\E i \in 1 .. Len(q) : q[i] \in kind)
    BY <1>1, <1>3
  <2>2. (\E i \in 1 .. Len(r) : r[i] = command /\ \A j \in i + 1 .. Len(r) : r[j] \notin kind)
          = (\E i \in 1 .. Len(q) : q[i] = command /\ \A j \in i + 1 .. Len(q) : q[j] \notin kind)
    <3>1. ASSUME NEW i \in 1 .. Len(r), r[i] = command, \A j \in i + 1 .. Len(r) : r[j] \notin kind
          PROVE  /\ i \in 1 .. Len(q) /\ q[i] = command
                 /\ \A j \in i + 1 .. Len(q) : q[j] \notin kind
      BY <1>1, <1>3, <3>1
    <3>2. ASSUME NEW i \in 1 .. Len(q), q[i] = command, \A j \in i + 1 .. Len(q) : q[j] \notin kind
          PROVE  /\ i \in 1 .. Len(r) /\ r[i] = command
                 /\ \A j \in i + 1 .. Len(r) : r[j] \notin kind
      BY <1>1, <1>3, <3>2
    <3> QED  BY <3>1, <3>2, Zenon
  <2> QED  BY <1>3, <2>1, <2>2, Zenon DEF Will, r
<1> QED  BY <1>2, <1>3

LEMMA WillTail ==
  ASSUME NEW q \in Seq(Commands), q # <<>>, NEW kind, NEW command \in kind, NEW b, NEW after,
         after = IF Head(q) \in kind THEN Head(q) = command ELSE b
  PROVE  Will(Tail(q), kind, command, after) = Will(q, kind, command, b)
<1> DEFINE r == Tail(q)
<1>1. /\ Len(r) \in Nat /\ Len(q) = Len(r) + 1 /\ Head(q) = q[1]
      /\ \A i \in 1 .. Len(r) : r[i] = q[i + 1]
  OBVIOUS
<1> HIDE DEF r
<1>2. (\E i \in 1 .. Len(q) : q[i] \in kind)
        = (q[1] \in kind \/ \E i \in 1 .. Len(r) : r[i] \in kind)
  <2>1. ASSUME NEW i \in 1 .. Len(q), q[i] \in kind, q[1] \notin kind
        PROVE  i - 1 \in 1 .. Len(r) /\ r[i - 1] \in kind
    BY <1>1, <2>1
  <2>2. ASSUME NEW i \in 1 .. Len(r), r[i] \in kind
        PROVE  i + 1 \in 1 .. Len(q) /\ q[i + 1] \in kind
    BY <1>1, <2>2
  <2>3. 1 \in 1 .. Len(q)
    BY <1>1
  <2> QED  BY <2>1, <2>2, <2>3, Zenon
<1> DEFINE LastIs(s, i) == s[i] = command /\ \A j \in i + 1 .. Len(s) : s[j] \notin kind
<1>3. \A i \in 1 .. Len(r) : LastIs(r, i) => LastIs(q, i + 1)
  <2> SUFFICES ASSUME NEW i \in 1 .. Len(r), LastIs(r, i)  PROVE  LastIs(q, i + 1)
    OBVIOUS
  <2>1. q[i + 1] = command
    BY <1>1
  <2>2. ASSUME NEW j \in (i + 1) + 1 .. Len(q)  PROVE  q[j] \notin kind
    <3>1. j - 1 \in i + 1 .. Len(r) /\ j - 1 \in 1 .. Len(r) /\ (j - 1) + 1 = j
      BY <1>1
    <3>2. r[j - 1] \notin kind
      BY <3>1
    <3> QED  BY <1>1, <3>1, <3>2
  <2> QED  BY <2>1, <2>2
<1>4. \A i \in 1 .. Len(q) : i # 1 /\ LastIs(q, i) => LastIs(r, i - 1)
  <2> SUFFICES ASSUME NEW i \in 1 .. Len(q), i # 1, LastIs(q, i)  PROVE  LastIs(r, i - 1)
    OBVIOUS
  <2>1. i - 1 \in 1 .. Len(r) /\ (i - 1) + 1 = i
    BY <1>1
  <2>2. r[i - 1] = command
    BY <1>1, <2>1
  <2>3. ASSUME NEW j \in (i - 1) + 1 .. Len(r)  PROVE  r[j] \notin kind
    <3>1. j \in 1 .. Len(r) /\ j + 1 \in i + 1 .. Len(q)
      BY <1>1
    <3> QED  BY <1>1, <3>1
  <2> QED  BY <2>2, <2>3
<1>5. LastIs(q, 1) = (q[1] = command /\ \A i \in 1 .. Len(r) : r[i] \notin kind)
  <2>1. ASSUME \A j \in 1 + 1 .. Len(q) : q[j] \notin kind, NEW i \in 1 .. Len(r)
        PROVE  r[i] \notin kind
    <3>1. i + 1 \in 1 + 1 .. Len(q)
      BY <1>1
    <3> QED  BY <1>1, <2>1, <3>1
  <2>2. ASSUME \A i \in 1 .. Len(r) : r[i] \notin kind, NEW j \in 1 + 1 .. Len(q)
        PROVE  q[j] \notin kind
    <3>1. j - 1 \in 1 .. Len(r) /\ (j - 1) + 1 = j
      BY <1>1
    <3> QED  BY <1>1, <2>2, <3>1
  <2> QED  BY <2>1, <2>2, Zenon
<1>6. 1 \in 1 .. Len(q) /\ \A i \in 1 .. Len(r) : i + 1 \in 1 .. Len(q)
  BY <1>1
<1>7. \A i \in 1 .. Len(q) : i # 1 => i - 1 \in 1 .. Len(r)
  BY <1>1
<1>8. Will(r, kind, command, after) = IF \E i \in 1 .. Len(r) : r[i] \in kind
                                      THEN \E i \in 1 .. Len(r) : LastIs(r, i) ELSE after
  BY DEF Will
<1>9. Will(q, kind, command, b) = IF \E i \in 1 .. Len(q) : q[i] \in kind
                                  THEN \E i \in 1 .. Len(q) : LastIs(q, i) ELSE b
  BY DEF Will
<1>10. \A i \in 1 .. Len(r) : LastIs(r, i) => r[i] \in kind
  OBVIOUS
<1> HIDE DEF LastIs
<1>11. CASE \E i \in 1 .. Len(r) : r[i] \in kind
  <2>1. (\E i \in 1 .. Len(q) : LastIs(q, i)) = (\E i \in 1 .. Len(r) : LastIs(r, i))
    BY <1>3, <1>4, <1>5, <1>6, <1>7, <1>11, Zenon
  <2> QED  BY <1>2, <1>8, <1>9, <1>11, <2>1, Zenon DEF r
<1>12. CASE \A i \in 1 .. Len(r) : r[i] \notin kind
  <2>1. (\E i \in 1 .. Len(q) : LastIs(q, i)) = (q[1] = command)
    BY <1>4, <1>5, <1>6, <1>7, <1>10, <1>12, Zenon
  <2> QED  BY <1>1, <1>2, <1>8, <1>9, <1>12, <2>1, Zenon DEF r
<1> QED  BY <1>11, <1>12, Zenon

-----------------------------------------------------------------------------
(* The steps *)

\* What the invariants speak of, on the client's side and on the server's.
clientState ==
  <<connection, connectionState, isActive, receiverPc, userPc, button, previousConnectionState,
    playState, isRate60, totalReceivedCount, expectedDataRate, activated, rateSet>>

serverState == <<session, serving, sending, tcp>>

LEMMA SyncInit == Init => SyncInv
<1> SUFFICES ASSUME Init  PROVE  SyncInv
  OBVIOUS
<1>1. totalReceivedCount = 0 /\ expectedDataRate = 30
  BY DEF Init, Metrics!Init
<1>2. /\ session = [c \in Connections |-> S!NewClientSession]
      /\ tcp = [c \in Connections |-> <<>>]
      /\ serving = {} /\ sending = 0 /\ connection = 0
      /\ connectionState = "Disconnected" /\ previousConnectionState = "Disconnected"
      /\ receiverPc = "receive" /\ userPc = "idle" /\ button = NoButton
      /\ playState = "Stopped" /\ ~isRate60 /\ ~isActive
  BY DEF Init, NoConnection
<1>7. /\ isActive \in BOOLEAN /\ isRate60 \in BOOLEAN /\ activated \in BOOLEAN
      /\ rateSet \in BOOLEAN
  BY Zenon DEF Init
<1> HIDE DEF Init
<1>3. TypeInv
  <2>1. session \in [Connections -> S!ClientSessionType]
    BY <1>2, NewSession
  <2>2. tcp \in [Connections -> Seq(Commands)]
    BY <1>2
  <2> HIDE DEF S!ClientSessionType
  <2>3. /\ connection \in 0 .. MaxConnections
        /\ serving \subseteq 1 .. connection /\ sending \in 0 .. connection
        /\ totalReceivedCount \in Nat /\ expectedDataRate \in {30, 60}
    BY <1>1, <1>2, StreamSyncAssumption
  <2>4. /\ connectionState \in ConnectionStates /\ previousConnectionState \in ConnectionStates
        /\ userPc \in UserPcs /\ button \in Buttons \union {NoButton}
    BY <1>2 DEF ConnectionStates, UserPcs
  <2> QED  BY <1>7, <2>1, <2>2, <2>3, <2>4, Zenon DEF TypeInv
<1>4. NewSessionInv
  BY <1>2 DEF NewSessionInv
<1>5. ButtonInv /\ ConnectInv /\ GateInv /\ RateInv
  BY <1>1, <1>2, <1>7 DEF ButtonInv, ConnectInv, GateInv, RateInv, NoConnection
<1>6. BeliefInv /\ ShownGateInv
  BY <1>2 DEF BeliefInv, ShownGateInv, Sound
<1> QED  BY <1>3, <1>4, <1>5, <1>6 DEF SyncInv

\* The server changes nothing but the sessions and what is on its way to them, and never
\* what becomes of the session of a connection that is not lost.
LEMMA ServerEffect ==
  ASSUME TypeInv, NewSessionInv, Server
  PROVE  /\ UNCHANGED clientState /\ UNCHANGED broken
         /\ TypeInv' /\ NewSessionInv'
         /\ \A c \in Connections \ broken :
              WillPlay(c)' = WillPlay(c) /\ WillRate60(c)' = WillRate60(c)
<1>1. UNCHANGED clientState
  BY DEF Server, clientState, clientVars, workerVars, userVars, shownVars, ownVars, metricsVars
<1>2. \A c \in 1 .. connection : c \in Connections
  BY StreamSyncAssumption DEF TypeInv, Connections
<1>3. CASE \E c \in Connections : ProcessOneMessage(c)
  <2>1. PICK c \in Connections : ProcessOneMessage(c)
    BY <1>3
  <2> DEFINE command == Head(tcp[c])
  <2>2. /\ c \in serving /\ tcp[c] # <<>>
        /\ session' = [session EXCEPT ![c] = Execute(@, command)]
        /\ tcp' = [tcp EXCEPT ![c] = Tail(@)]
        /\ UNCHANGED <<serving, sending, broken>>
    BY <2>1 DEF ProcessOneMessage
  <2>3. tcp[c] \in Seq(Commands) /\ session[c] \in S!ClientSessionType
    BY DEF TypeInv
  <2>4. command \in Commands /\ Tail(tcp[c]) \in Seq(Commands)
    BY <2>2, <2>3
  <2> HIDE DEF command
  <2>5. Execute(session[c], command) \in S!ClientSessionType
    BY <2>3, <2>4, ExecuteEffect
  <2>6. TypeInv'
    <3>1. session' \in [Connections -> S!ClientSessionType]
      BY <2>2, <2>5 DEF TypeInv
    <3>2. tcp' \in [Connections -> Seq(Commands)]
      BY <2>2, <2>4 DEF TypeInv
    <3> HIDE DEF S!ClientSessionType
    <3> QED  BY <1>1, <2>2, <3>1, <3>2 DEF TypeInv, clientState
  <2>7. NewSessionInv'
    <3>1. c <= connection /\ connection' = connection
      BY <1>1, <2>2 DEF TypeInv, clientState
    <3> QED  BY <2>2, <3>1 DEF NewSessionInv, TypeInv, Connections
  <2>8. ASSUME NEW d \in Connections
        PROVE  WillPlay(d)' = WillPlay(d) /\ WillRate60(d)' = WillRate60(d)
    <3>1. CASE d # c
      <4>1. tcp'[d] = tcp[d] /\ session'[d] = session[d]
        BY <2>2, <3>1 DEF TypeInv
      <4> QED  BY <4>1, Zenon DEF WillPlay, WillRate60
    <3>2. CASE d = c
      <4>1. tcp'[c] = Tail(tcp[c]) /\ session'[c] = Execute(session[c], command)
        BY <2>2 DEF TypeInv
      <4>2. "Play" \in PlayCommands /\ "SetRate60" \in RateCommands
        BY DEF PlayCommands, RateCommands, Rate
      <4>3. Will(Tail(tcp[c]), PlayCommands, "Play", Execute(session[c], command).state = "Playing")
              = WillPlay(c)
        <5>1. (Execute(session[c], command).state = "Playing")
                = IF command \in PlayCommands THEN command = "Play" ELSE session[c].state = "Playing"
          BY <2>3, <2>4, ExecuteEffect, Zenon
        <5> DEFINE b == session[c].state = "Playing"
                   after == Execute(session[c], command).state = "Playing"
        <5>2. after = IF Head(tcp[c]) \in PlayCommands THEN Head(tcp[c]) = "Play" ELSE b
          BY <5>1, Zenon DEF command
        <5>3. WillPlay(c) = Will(tcp[c], PlayCommands, "Play", b)
          BY Zenon DEF WillPlay
        <5> HIDE DEF b, after
        <5>4. Will(Tail(tcp[c]), PlayCommands, "Play", after) = Will(tcp[c], PlayCommands, "Play", b)
          BY <2>2, <2>3, <4>2, <5>2, WillTail
        <5> QED  BY <5>3, <5>4, Zenon DEF after
      <4>4. Will(Tail(tcp[c]), RateCommands, "SetRate60", Execute(session[c], command).dataRate = 60)
              = WillRate60(c)
        <5>1. (Execute(session[c], command).dataRate = 60)
                = IF command \in RateCommands THEN command = "SetRate60" ELSE session[c].dataRate = 60
          BY <2>3, <2>4, ExecuteEffect, Zenon
        <5> DEFINE b == session[c].dataRate = 60
                   after == Execute(session[c], command).dataRate = 60
        <5>2. after = IF Head(tcp[c]) \in RateCommands THEN Head(tcp[c]) = "SetRate60" ELSE b
          BY <5>1, Zenon DEF command
        <5>3. WillRate60(c) = Will(tcp[c], RateCommands, "SetRate60", b)
          BY Zenon DEF WillRate60
        <5> HIDE DEF b, after
        <5>4. Will(Tail(tcp[c]), RateCommands, "SetRate60", after)
                = Will(tcp[c], RateCommands, "SetRate60", b)
          BY <2>2, <2>3, <4>2, <5>2, WillTail
        <5> QED  BY <5>3, <5>4, Zenon DEF after
      <4> QED  BY <3>2, <4>1, <4>3, <4>4, Zenon DEF WillPlay, WillRate60
    <3> QED  BY <3>1, <3>2
  <2> QED  BY <1>1, <2>2, <2>6, <2>7, <2>8
<1>4. CASE \E c \in Connections : RemoveSession(c)
  <2>1. PICK c \in Connections : RemoveSession(c)
    BY <1>4
  <2>2. /\ c \in serving /\ c \in broken
        /\ serving' = serving \ {c}
        /\ session' = [session EXCEPT ![c] = S!StopSession(@)]
        /\ UNCHANGED <<sending, broken, tcp>>
    BY <2>1 DEF RemoveSession, channelVars
  <2>3. S!StopSession(session[c]) \in S!ClientSessionType
    BY SessionEffects DEF TypeInv
  <2>4. TypeInv'
    <3>1. session' \in [Connections -> S!ClientSessionType]
      BY <2>2, <2>3 DEF TypeInv
    <3> HIDE DEF S!ClientSessionType
    <3> QED  BY <1>1, <2>2, <3>1 DEF TypeInv, clientState
  <2>5. NewSessionInv'
    <3>1. c <= connection /\ connection' = connection
      BY <1>1, <2>2 DEF TypeInv, clientState
    <3> QED  BY <2>2, <3>1 DEF NewSessionInv, TypeInv, Connections
  <2>6. ASSUME NEW d \in Connections \ broken
        PROVE  WillPlay(d)' = WillPlay(d) /\ WillRate60(d)' = WillRate60(d)
    <3>1. tcp'[d] = tcp[d] /\ session'[d] = session[d]
      BY <2>2 DEF TypeInv
    <3> QED  BY <3>1, Zenon DEF WillPlay, WillRate60
  <2> QED  BY <1>1, <2>2, <2>4, <2>5, <2>6
<1>5. CASE \E c \in Connections : FindRecipient(c)
  <2>1. PICK c \in Connections : FindRecipient(c)
    BY <1>5
  <2>2. c \in serving /\ sending' = c /\ UNCHANGED <<session, serving, broken, tcp>>
    BY <2>1 DEF FindRecipient, channelVars
  <2>3. c \in 0 .. connection
    BY <2>2 DEF TypeInv
  <2>4. TypeInv'
    BY <1>1, <2>2, <2>3, Zenon DEF TypeInv, clientState
  <2>5. NewSessionInv'
    BY <1>1, <2>2, Zenon DEF NewSessionInv, clientState
  <2> QED  BY <1>1, <2>2, <2>4, <2>5, Zenon DEF WillPlay, WillRate60
<1>6. CASE SendPacket
  <2>1. /\ sending # NoConnection /\ sending' = NoConnection
        /\ session' = [session EXCEPT ![sending] = S!TakeSequenceId(session[sending])]
        /\ UNCHANGED <<serving, broken, tcp>>
    BY <1>6 DEF SendPacket, channelVars
  <2>2. sending \in 1 .. connection /\ sending \in Connections
    BY <1>2, <2>1 DEF TypeInv, NoConnection
  <2>3. session[sending] \in S!ClientSessionType
    BY <2>2 DEF TypeInv
  <2>4. TypeInv'
    <3>1. session' \in [Connections -> S!ClientSessionType]
      BY <2>1, <2>2, <2>3, SessionEffects DEF TypeInv
    <3>2. NoConnection \in 0 .. connection
      BY DEF TypeInv, NoConnection
    <3> HIDE DEF S!ClientSessionType
    <3> QED  BY <1>1, <2>1, <3>1, <3>2, Zenon DEF TypeInv, clientState
  <2>5. NewSessionInv'
    <3>1. sending <= connection /\ connection' = connection
      BY <1>1, <2>2 DEF TypeInv, clientState
    <3> QED  BY <2>1, <3>1 DEF NewSessionInv, TypeInv, Connections
  <2>6. ASSUME NEW d \in Connections
        PROVE  WillPlay(d)' = WillPlay(d) /\ WillRate60(d)' = WillRate60(d)
    <3>1. session'[d] = IF d = sending THEN S!TakeSequenceId(session[sending]) ELSE session[d]
      BY <2>1, <2>2 DEF TypeInv
    <3>2. session'[d].state = session[d].state /\ session'[d].dataRate = session[d].dataRate
      BY <2>3, <3>1, SessionEffects, Zenon
    <3> QED  BY <2>1, <3>2, Zenon DEF WillPlay, WillRate60
  <2> QED  BY <1>1, <2>1, <2>4, <2>5, <2>6
<1> QED  BY <1>3, <1>4, <1>5, <1>6 DEF Server

\* The invariants of the client alone.
ClientInv == ButtonInv /\ ConnectInv /\ GateInv /\ ShownGateInv /\ RateInv

\* They stay as long as the client does.
LEMMA SameClient ==
  ASSUME ClientInv, UNCHANGED clientState, Sound' => Sound
  PROVE  ClientInv'
<1>1. ButtonInv' = ButtonInv /\ ConnectInv' = ConnectInv
  BY Zenon DEF ButtonInv, ConnectInv, clientState
<1>2. GateInv' = GateInv /\ ShownGate' = ShownGate /\ RateInv' = RateInv
  BY Zenon DEF GateInv, ShownGate, RateInv, clientState
<1>3. previousConnectionState' = previousConnectionState
  BY DEF clientState
<1> QED  BY <1>1, <1>2, <1>3, Zenon DEF ClientInv, ShownGateInv

LEMMA ServerSync == SyncInv /\ Server => SyncInv'
<1> SUFFICES ASSUME SyncInv, Server  PROVE  SyncInv'
  OBVIOUS
<1>1. /\ UNCHANGED clientState /\ UNCHANGED broken /\ TypeInv' /\ NewSessionInv'
      /\ \A c \in Connections \ broken :
           WillPlay(c)' = WillPlay(c) /\ WillRate60(c)' = WillRate60(c)
  BY ServerEffect DEF SyncInv
<1>2. ClientInv'
  <2>1. Sound' => Sound
    BY <1>1, Zenon DEF Sound, clientState
  <2>2. ClientInv
    BY Zenon DEF SyncInv, ClientInv
  <2> QED  BY <1>1, <2>1, <2>2, SameClient, Zenon
<1>3. BeliefInv'
  <2> SUFFICES ASSUME Sound'
               PROVE  /\ WillPlay(connection)' <=> BelievedPlaying'
                      /\ WillRate60(connection)' <=> BelievedRate60'
    BY DEF BeliefInv
  <2>1. Sound /\ connection' = connection
        /\ BelievedPlaying' = BelievedPlaying /\ BelievedRate60' = BelievedRate60
    BY <1>1, Zenon DEF Sound, BelievedPlaying, BelievedRate60, clientState
  <2>2. connection \in Connections \ broken
    BY <2>1, StreamSyncAssumption DEF SyncInv, TypeInv, ConnectInv, Connections, Sound, NoConnection
  <2>3. (WillPlay(connection) <=> BelievedPlaying) /\ (WillRate60(connection) <=> BelievedRate60)
    BY <2>1, Zenon DEF SyncInv, BeliefInv
  <2>4. WillPlay(connection)' = WillPlay(connection) /\ WillRate60(connection)' = WillRate60(connection)
    BY <1>1, <2>1, <2>2, Zenon
  <2> QED  BY <2>1, <2>3, <2>4, Zenon
<1> QED  BY <1>1, <1>2, <1>3, Zenon DEF SyncInv, ClientInv

\* A step that leaves the server, the channels and the last connection alone: the beliefs
\* that are to hold are about the same values.
LEMMA SameServer ==
  ASSUME SyncInv, UNCHANGED serverState, UNCHANGED connection, broken \subseteq broken',
         Sound' => Sound /\ BelievedPlaying' = BelievedPlaying /\ BelievedRate60' = BelievedRate60
  PROVE  NewSessionInv' /\ BeliefInv'
<1>1. NewSessionInv'
  BY Zenon DEF SyncInv, NewSessionInv, serverState
<1>2. WillPlay(connection)' = WillPlay(connection) /\ WillRate60(connection)' = WillRate60(connection)
  BY Zenon DEF WillPlay, WillRate60, serverState
<1>3. BeliefInv'
  BY <1>2, Zenon DEF SyncInv, BeliefInv
<1> QED  BY <1>1, <1>3

LEMMA BreakSync == SyncInv /\ Break => SyncInv'
<1> SUFFICES ASSUME SyncInv, Break  PROVE  SyncInv'
  OBVIOUS
<1>1. /\ UNCHANGED clientState /\ UNCHANGED serverState
      /\ broken' = broken \union {connection}
  BY DEF Break, clientState, serverState, clientVars, workerVars, userVars, shownVars, ownVars,
         metricsVars, serverVars
<1>2. broken \subseteq broken'
  BY <1>1
<1>3. TypeInv'
  BY <1>1, Zenon DEF SyncInv, TypeInv, clientState, serverState
<1>4. Sound' => Sound
  BY <1>1, <1>2 DEF Sound, clientState
<1>5. NewSessionInv' /\ BeliefInv'
  <2>1. BelievedPlaying' = BelievedPlaying /\ BelievedRate60' = BelievedRate60 /\ connection' = connection
    BY <1>1, Zenon DEF BelievedPlaying, BelievedRate60, clientState
  <2> QED  BY <1>1, <1>2, <1>4, <2>1, SameServer
<1>6. ClientInv'
  <2>1. ClientInv
    BY Zenon DEF SyncInv, ClientInv
  <2> QED  BY <1>1, <1>4, <2>1, SameClient, Zenon
<1> QED  BY <1>3, <1>5, <1>6 DEF SyncInv, ClientInv

\* The receive worker passes the gate only while it is open, and then counts one packet.
LEMMA WorkerSync == SyncInv /\ ReceiveWorker => SyncInv'
<1> SUFFICES ASSUME SyncInv, ReceiveWorker  PROVE  SyncInv'
  OBVIOUS
<1>1. /\ UNCHANGED serverState /\ UNCHANGED broken
      /\ UNCHANGED <<connection, connectionState, isActive, userPc, button, previousConnectionState,
                     playState, isRate60, activated, rateSet>>
  BY DEF ReceiveWorker, serverState, clientVars, userVars, shownVars, ownVars, serverVars, channelVars
<1>2. expectedDataRate' = expectedDataRate
      /\ \/ /\ receiverPc = "receive" /\ receiverPc' = "check" /\ connectionState = "Connected"
            /\ totalReceivedCount' = totalReceivedCount
         \/ /\ receiverPc = "check" /\ receiverPc' = IF isActive THEN "count" ELSE "receive"
            /\ totalReceivedCount' = totalReceivedCount
         \/ /\ receiverPc = "count" /\ receiverPc' = "receive"
            /\ totalReceivedCount' = totalReceivedCount + 1
  <2>1. CASE ReceiveFrom
    BY <2>1, CollectorEffects DEF ReceiveFrom
  <2>2. CASE CheckActive
    BY <2>2, CollectorEffects DEF CheckActive
  <2>3. CASE CountPacket
    BY <2>3, CollectorEffects DEF CountPacket
  <2> QED  BY <2>1, <2>2, <2>3 DEF ReceiveWorker
<1>3. TypeInv'
  <2>1. totalReceivedCount' \in Nat
    BY <1>2 DEF SyncInv, TypeInv
  <2> QED  BY <1>1, <1>2, <2>1, Zenon DEF SyncInv, TypeInv, serverState
<1>4. NewSessionInv' /\ BeliefInv'
  <2>1. BelievedPlaying' = BelievedPlaying /\ BelievedRate60' = BelievedRate60 /\ Sound' = Sound
    BY <1>1, Zenon DEF BelievedPlaying, BelievedRate60, Sound
  <2> QED  BY <1>1, <2>1, SameServer
<1>5. ButtonInv' /\ ShownGateInv' /\ RateInv'
  <2>1. ButtonInv' = ButtonInv /\ ShownGate' = ShownGate /\ RateInv' = RateInv /\ Sound' = Sound
    BY <1>1, <1>2, Zenon DEF ButtonInv, ShownGate, RateInv, Sound
  <2> QED  BY <1>1, <2>1, Zenon DEF SyncInv, ShownGateInv
<1>6. ConnectInv'
  BY <1>1, <1>2 DEF SyncInv, ConnectInv
<1>7. GateInv'
  BY <1>1, <1>2 DEF SyncInv, GateInv, TypeInv
<1> QED  BY <1>3, <1>4, <1>5, <1>6, <1>7 DEF SyncInv

\* A new connection: an untouched session, empty statistics and a closed gate.
LEMMA ConnectSync == SyncInv /\ Connect => SyncInv'
<1> SUFFICES ASSUME SyncInv, Connect  PROVE  SyncInv'
  OBVIOUS
<1> DEFINE c == connection + 1
<1>1. /\ userPc = "idle" /\ connection < MaxConnections
      /\ connectionState # "Connected" /\ previousConnectionState # "Connected"
      /\ ~isActive' /\ isActive' \in BOOLEAN
      /\ connection' = c /\ connectionState' = "Connected"
      /\ serving' = serving \union {c}
      /\ tcp' = [tcp EXCEPT ![c] = <<"RegisterUdpPort">>]
      /\ ~activated' /\ activated' \in BOOLEAN
      /\ rateSet' = (connection = NoConnection)
      /\ UNCHANGED <<session, sending, broken, receiverPc, userPc, button, previousConnectionState,
                     playState, isRate60>>
      /\ totalReceivedCount' = 0 /\ expectedDataRate' = expectedDataRate
  <2>1. totalReceivedCount' = 0 /\ expectedDataRate' = expectedDataRate
    BY CollectorEffects DEF Connect, Start
  <2>2. connectionState = "Disconnected" => previousConnectionState = "Disconnected"
    BY DEF SyncInv, ConnectInv
  <2>3. userPc = "idle" /\ connection < MaxConnections /\ previousConnectionState # "Connected"
        /\ connectionState # "Connected"
    BY <2>2 DEF Connect
  <2>4. isActive' = FALSE /\ activated' = FALSE /\ rateSet' = (connection = NoConnection)
    BY Zenon DEF Connect, Start
  <2> QED  BY <2>1, <2>3, <2>4, Zenon DEF Connect, workerVars, userVars, shownVars
<1> HIDE DEF c
<1>2. /\ connection \in Nat /\ c \in Connections /\ c = connection + 1 /\ c \in 0 .. MaxConnections
      /\ c # NoConnection
  BY <1>1, StreamSyncAssumption DEF SyncInv, TypeInv, Connections, c, NoConnection
<1>3. session[c] = S!NewClientSession /\ tcp'[c] = <<"RegisterUdpPort">>
  BY <1>1, <1>2 DEF SyncInv, NewSessionInv, TypeInv
<1>4. TypeInv'
  <2>1. tcp' \in [Connections -> Seq(Commands)]
    BY <1>1, <1>2 DEF SyncInv, TypeInv, Commands
  <2>2. serving' \subseteq 1 .. c /\ sending' \in 0 .. c
    BY <1>1, <1>2 DEF SyncInv, TypeInv
  <2>3. totalReceivedCount' \in Nat /\ connectionState' \in ConnectionStates /\ rateSet' \in BOOLEAN
    BY <1>1 DEF ConnectionStates
  <2> QED  BY <1>1, <1>2, <2>1, <2>2, <2>3, Zenon DEF SyncInv, TypeInv
<1>5. NewSessionInv'
  BY <1>1, <1>2 DEF SyncInv, NewSessionInv, Connections
<1>6. ButtonInv'
  BY <1>1 DEF ButtonInv
<1>7. ConnectInv'
  BY <1>1, <1>2 DEF SyncInv, ConnectInv
<1>8. GateInv'
  <2>1. receiverPc' = "receive"
    BY <1>1 DEF SyncInv, ConnectInv
  <2> QED  BY <1>1, <2>1 DEF GateInv
<1>9. BeliefInv'
  <2>1. ~BelievedPlaying' /\ ~BelievedRate60'
    BY <1>1 DEF BelievedPlaying, BelievedRate60
  <2>2. ASSUME NEW kind, "RegisterUdpPort" \notin kind, NEW command, NEW b
        PROVE  Will(tcp'[c], kind, command, b) = b
    <3>1. ~\E i \in 1 .. Len(tcp'[c]) : tcp'[c][i] \in kind
      BY <1>3, <2>2
    <3> QED  BY <3>1, Zenon DEF Will
  <2>3. "RegisterUdpPort" \notin PlayCommands /\ "RegisterUdpPort" \notin RateCommands
    BY DEF PlayCommands, RateCommands, Rate
  <2>4. ~(session[c].state = "Playing") /\ ~(session[c].dataRate = 60)
    BY <1>3, NewSession
  <2>5. WillPlay(connection)' = (session[c].state = "Playing")
        /\ WillRate60(connection)' = (session[c].dataRate = 60)
    BY <1>1, <2>2, <2>3 DEF WillPlay, WillRate60
  <2> QED  BY <2>1, <2>4, <2>5, Zenon DEF BeliefInv
<1>10. ShownGateInv'
  BY <1>1, Zenon DEF ShownGateInv
<1>11. RateInv'
  <2>1. rateSet' => ~isRate60' /\ expectedDataRate' = 30
    BY <1>1, Zenon DEF SyncInv, ConnectInv
  <2> QED  BY <2>1 DEF RateInv
<1> QED  BY <1>4, <1>5, <1>6, <1>7, <1>8, <1>9, <1>10, <1>11 DEF SyncInv

LEMMA TeardownSync == SyncInv /\ Teardown => SyncInv'
<1> SUFFICES ASSUME SyncInv, Teardown  PROVE  SyncInv'
  OBVIOUS
<1>1. /\ connectionState = "Connected" /\ connectionState' = "Reconnecting"
      /\ receiverPc = "receive"
      /\ UNCHANGED serverState /\ UNCHANGED broken
      /\ UNCHANGED <<connection, isActive, receiverPc, userPc, button, previousConnectionState,
                     playState, isRate60, totalReceivedCount, expectedDataRate, activated, rateSet>>
  BY CollectorEffects DEF Teardown, Joined, serverState, serverVars, channelVars, workerVars, userVars,
     shownVars, ownVars
<1>2. TypeInv'
  <2>1. connectionState' \in ConnectionStates
    BY <1>1 DEF ConnectionStates
  <2> QED  BY <1>1, <2>1, Zenon DEF SyncInv, TypeInv, serverState
<1>3. ~Sound'
  BY <1>1 DEF Sound
<1>4. NewSessionInv' /\ BeliefInv'
  BY <1>1, <1>3, SameServer
<1>5. ClientInv'
  BY <1>1, <1>3 DEF SyncInv, ClientInv, ButtonInv, ConnectInv, GateInv, ShownGateInv, RateInv
<1> QED  BY <1>2, <1>4, <1>5 DEF SyncInv, ClientInv

-----------------------------------------------------------------------------
(* The user's thread *)

\* A button is being handled only on a connection that Poll has seen.
LEMMA Handling ==
  ASSUME SyncInv, userPc # "idle", connectionState = "Connected"
  PROVE  previousConnectionState = "Connected"
BY DEF SyncInv, ConnectInv

LEMMA UserFrame ==
  User => UNCHANGED <<session, serving, sending, broken, connection, connectionState, receiverPc,
                      previousConnectionState>>
BY DEF User, serverVars, clientVars, workerVars

LEMMA PressSync == ASSUME SyncInv, User, NEW b \in Buttons, Press(b)  PROVE SyncInv'
<1>1. /\ userPc = "idle" /\ userPc' = IF b = "Stop" THEN "deactivate" ELSE "send"
      /\ connectionState = "Connected" /\ previousConnectionState = "Connected"
      /\ button' = b
      /\ UNCHANGED <<session, serving, sending, broken, connection, connectionState, receiverPc,
                     previousConnectionState, tcp, isActive, playState, isRate60,
                     totalReceivedCount, expectedDataRate, activated, rateSet>>
  BY UserFrame, CollectorEffects DEF Press, UserStep, IsConnected, ownVars
<1>2. TypeInv'
  <2>1. userPc' \in UserPcs /\ button' \in Buttons \union {NoButton}
    BY <1>1 DEF UserPcs
  <2> QED  BY <1>1, <2>1, Zenon DEF SyncInv, TypeInv
<1>3. NewSessionInv' /\ BeliefInv'
  <2>1. userPc' \notin {"activate", "finish"} /\ userPc \notin {"activate", "finish"}
    BY <1>1
  <2>2. BelievedPlaying' = BelievedPlaying /\ BelievedRate60' = BelievedRate60 /\ Sound' = Sound
    BY <1>1, <2>1, Zenon DEF BelievedPlaying, BelievedRate60, Sound
  <2> QED  BY <1>1, <2>2, SameServer DEF serverState
<1>4. ButtonInv' /\ ConnectInv'
  BY <1>1 DEF SyncInv, ButtonInv, ConnectInv
<1>5. GateInv'
  BY <1>1 DEF SyncInv, GateInv
<1>6. ShownGateInv' /\ RateInv'
  BY <1>1 DEF SyncInv, ShownGateInv, ShownGate, RateInv, Sound
<1> QED  BY <1>2, <1>3, <1>4, <1>5, <1>6 DEF SyncInv

LEMMA DeactivateSync == ASSUME SyncInv, User, Deactivate  PROVE SyncInv'
<1>1. /\ userPc = "deactivate" /\ userPc' = "send" /\ ~isActive' /\ isActive' \in BOOLEAN
      /\ UNCHANGED <<session, serving, sending, broken, connection, connectionState, receiverPc,
                     previousConnectionState, tcp, button, playState, isRate60,
                     totalReceivedCount, expectedDataRate, activated, rateSet>>
  <2>1. isActive' = FALSE
    BY DEF Deactivate
  <2> QED  BY <2>1, UserFrame, CollectorEffects DEF Deactivate, UserStep, ownVars
<1>2. TypeInv'
  <2>1. userPc' \in UserPcs
    BY <1>1 DEF UserPcs
  <2> QED  BY <1>1, <2>1, Zenon DEF SyncInv, TypeInv
<1>3. NewSessionInv' /\ BeliefInv'
  <2>1. userPc' \notin {"activate", "finish"} /\ userPc \notin {"activate", "finish"}
    BY <1>1
  <2>2. BelievedPlaying' = BelievedPlaying /\ BelievedRate60' = BelievedRate60 /\ Sound' = Sound
    BY <1>1, <2>1, Zenon DEF BelievedPlaying, BelievedRate60, Sound
  <2> QED  BY <1>1, <2>2, SameServer DEF serverState
<1>4. ButtonInv' /\ ConnectInv'
  BY <1>1 DEF SyncInv, ButtonInv, ConnectInv, Buttons
<1>5. GateInv'
  BY <1>1 DEF SyncInv, GateInv
<1>6. ShownGateInv' /\ RateInv'
  BY <1>1 DEF SyncInv, ShownGateInv, ShownGate, RateInv, Sound, ButtonInv
<1> QED  BY <1>2, <1>3, <1>4, <1>5, <1>6 DEF SyncInv

\* A command that is sent on a sound connection becomes the last one on its way.
LEMMA SendSucceedsSync == ASSUME SyncInv, User, Send, SendSucceeds  PROVE SyncInv'
<1>1. /\ userPc = "send"
      /\ userPc' = IF button \in {"Play", "Pause"} THEN "activate" ELSE "finish"
      /\ connectionState = "Connected"
      /\ tcp' = IF connection \in broken THEN tcp ELSE [tcp EXCEPT ![connection] = Append(@, button)]
      /\ UNCHANGED <<session, serving, sending, broken, connection, connectionState, receiverPc,
                     previousConnectionState, isActive, button, playState, isRate60,
                     totalReceivedCount, expectedDataRate, activated, rateSet>>
  BY UserFrame, CollectorEffects DEF Send, SendSucceeds, UserStep, ownVars
<1>2. previousConnectionState = "Connected" /\ button \in Buttons /\ button \in Commands
  BY <1>1, Handling DEF SyncInv, ButtonInv, Commands
<1>3. connection \in Connections
  BY <1>1, StreamSyncAssumption DEF SyncInv, TypeInv, ConnectInv, Connections, NoConnection
<1>4. TypeInv'
  <2>1. userPc' \in UserPcs
    BY <1>1 DEF UserPcs
  <2>2. tcp' \in [Connections -> Seq(Commands)]
    BY <1>1, <1>2, <1>3 DEF SyncInv, TypeInv
  <2> QED  BY <1>1, <2>1, <2>2, Zenon DEF SyncInv, TypeInv
<1>5. NewSessionInv'
  BY <1>1, Zenon DEF SyncInv, NewSessionInv
<1>6. BeliefInv'
  <2> SUFFICES ASSUME Sound'
               PROVE  /\ WillPlay(connection)' <=> BelievedPlaying'
                      /\ WillRate60(connection)' <=> BelievedRate60'
    BY Zenon DEF BeliefInv
  <2>1. connection \notin broken /\ Sound
    BY <1>1 DEF Sound
  <2>2. tcp'[connection] = Append(tcp[connection], button) /\ tcp[connection] \in Seq(Commands)
    BY <1>1, <1>3, <2>1 DEF SyncInv, TypeInv
  <2>3. "Play" \in PlayCommands /\ "SetRate60" \in RateCommands
    BY DEF PlayCommands, RateCommands, Rate
  <2>4. \A kind, command, b : command \in kind =>
          Will(tcp'[connection], kind, command, b)
            = IF button \in kind THEN button = command ELSE Will(tcp[connection], kind, command, b)
    BY <1>2, <2>2, WillAppend
  <2>5. /\ WillPlay(connection)'
             <=> IF button \in PlayCommands THEN button = "Play" ELSE WillPlay(connection)
        /\ WillRate60(connection)'
             <=> IF button \in RateCommands THEN button = "SetRate60" ELSE WillRate60(connection)
    <3> DEFINE playing == session[connection].state = "Playing"
               rate60 == session[connection].dataRate = 60
    <3>1. /\ WillPlay(connection) = Will(tcp[connection], PlayCommands, "Play", playing)
          /\ WillRate60(connection) = Will(tcp[connection], RateCommands, "SetRate60", rate60)
          /\ WillPlay(connection)' = Will(tcp'[connection], PlayCommands, "Play", playing)
          /\ WillRate60(connection)' = Will(tcp'[connection], RateCommands, "SetRate60", rate60)
      BY <1>1, Zenon DEF WillPlay, WillRate60
    <3> HIDE DEF playing, rate60
    <3>2. Will(tcp'[connection], PlayCommands, "Play", playing)
            = IF button \in PlayCommands THEN button = "Play"
              ELSE Will(tcp[connection], PlayCommands, "Play", playing)
      BY <2>3, <2>4
    <3>3. Will(tcp'[connection], RateCommands, "SetRate60", rate60)
            = IF button \in RateCommands THEN button = "SetRate60"
              ELSE Will(tcp[connection], RateCommands, "SetRate60", rate60)
      BY <2>3, <2>4
    <3> QED  BY <3>1, <3>2, <3>3, Zenon
  <2>6. (WillPlay(connection) <=> BelievedPlaying) /\ (WillRate60(connection) <=> BelievedRate60)
    BY <2>1, Zenon DEF SyncInv, BeliefInv
  <2>7. /\ BelievedPlaying' <=> IF button \in PlayCommands THEN button = "Play" ELSE BelievedPlaying
        /\ BelievedRate60' <=> IF button \in RateCommands THEN button = "SetRate60" ELSE BelievedRate60
    BY <1>1 DEF BelievedPlaying, BelievedRate60, RateCommands, Rate
  <2> QED  BY <2>5, <2>6, <2>7, Zenon
<1>7. ButtonInv' /\ ConnectInv'
  BY <1>1, <1>2 DEF SyncInv, ButtonInv, ConnectInv
<1>8. GateInv'
  BY <1>1 DEF SyncInv, GateInv
<1>9. ShownGateInv' /\ RateInv'
  BY <1>1 DEF SyncInv, ShownGateInv, ShownGate, RateInv, Sound, PlayCommands
<1> QED  BY <1>4, <1>5, <1>6, <1>7, <1>8, <1>9 DEF SyncInv

LEMMA SendFailsSync == ASSUME SyncInv, User, Send, SendFails  PROVE SyncInv'
<1>1. /\ userPc = "send" /\ userPc' = "idle" /\ connection \in broken /\ button' = NoButton
      /\ UNCHANGED <<session, serving, sending, broken, connection, connectionState, receiverPc,
                     previousConnectionState, tcp, isActive, playState, isRate60,
                     totalReceivedCount, expectedDataRate, activated, rateSet>>
  BY UserFrame, CollectorEffects DEF Send, SendFails, UserStep, ownVars
<1>2. ~Sound'
  BY <1>1 DEF Sound
<1>3. TypeInv'
  <2>1. userPc' \in UserPcs /\ button' \in Buttons \union {NoButton}
    BY <1>1 DEF UserPcs
  <2> QED  BY <1>1, <2>1, Zenon DEF SyncInv, TypeInv
<1>4. NewSessionInv' /\ BeliefInv'
  BY <1>1, <1>2, SameServer DEF serverState
<1>5. ButtonInv' /\ ConnectInv'
  BY <1>1 DEF SyncInv, ButtonInv, ConnectInv
<1>6. GateInv'
  BY <1>1 DEF SyncInv, GateInv
<1>7. ShownGateInv' /\ RateInv'
  BY <1>1, <1>2 DEF SyncInv, ShownGateInv, RateInv
<1> QED  BY <1>3, <1>4, <1>5, <1>6, <1>7 DEF SyncInv

LEMMA ActivateSync == ASSUME SyncInv, User, Activate  PROVE SyncInv'
<1>1. /\ userPc = "activate" /\ userPc' = "finish"
      /\ isActive' = (button = "Play") /\ activated' = (activated \/ button = "Play")
      /\ UNCHANGED <<session, serving, sending, broken, connection, connectionState, receiverPc,
                     previousConnectionState, tcp, button, playState, isRate60,
                     totalReceivedCount, expectedDataRate, rateSet>>
  BY UserFrame, CollectorEffects, Zenon DEF Activate, UserStep
<1>2. /\ isActive' \in BOOLEAN /\ activated' \in BOOLEAN
      /\ (isActive' <=> button = "Play") /\ (activated' <=> (activated \/ button = "Play"))
  BY <1>1, Zenon
<1>3. button \in {"Play", "Pause"}
  BY <1>1 DEF SyncInv, ButtonInv
<1>4. TypeInv'
  <2>1. userPc' \in UserPcs
    BY <1>1 DEF UserPcs
  <2> QED  BY <1>1, <1>2, <2>1, Zenon DEF SyncInv, TypeInv
<1>5. NewSessionInv' /\ BeliefInv'
  <2>1. button \notin RateCommands
    BY <1>3 DEF RateCommands, Rate
  <2>2. BelievedPlaying' = BelievedPlaying /\ BelievedRate60' = BelievedRate60 /\ Sound' = Sound
    BY <1>1, <2>1, Zenon DEF BelievedPlaying, BelievedRate60, Sound
  <2> QED  BY <1>1, <2>2, SameServer DEF serverState
<1>6. ButtonInv'
  BY <1>1, <1>3 DEF ButtonInv, Buttons
<1>7. ConnectInv'
  BY <1>1, Handling DEF SyncInv, ConnectInv
<1>8. GateInv'
  BY <1>1, <1>2, <1>3 DEF SyncInv, GateInv
<1>9. ShownGateInv' /\ RateInv'
  BY <1>1, <1>2, <1>3 DEF SyncInv, ShownGateInv, ShownGate, RateInv, Sound, PlayCommands
<1> QED  BY <1>4, <1>5, <1>6, <1>7, <1>8, <1>9 DEF SyncInv

\* What Finish does with the button in hand.
LEMMA FinishEffect ==
  ASSUME SyncInv, Finish
  PROVE  /\ button \in {"Play", "Pause"} =>
              /\ playState' = IF button = "Play" THEN "Playing" ELSE "Paused"
              /\ UNCHANGED <<isRate60, rateSet, totalReceivedCount, expectedDataRate>>
         /\ button = "Stop" =>
              playState' = "Stopped" /\ totalReceivedCount' = 0
              /\ UNCHANGED <<isRate60, rateSet, expectedDataRate>>
         /\ button = "Reset" =>
              totalReceivedCount' = 0 /\ UNCHANGED <<playState, isRate60, rateSet, expectedDataRate>>
         /\ button \in RateCommands =>
              /\ expectedDataRate' = Rate[button] /\ (isRate60' <=> button = "SetRate60")
              /\ isRate60' \in BOOLEAN /\ rateSet' \in BOOLEAN
              /\ UNCHANGED <<playState, totalReceivedCount>>
<1> USE CollectorEffects DEF Finish, Show
<1>1. CASE button = "Play"
  BY <1>1 DEF Rate, RateCommands
<1>2. CASE button = "Pause"
  BY <1>2 DEF Rate, RateCommands
<1>3. CASE button = "Stop"
  BY <1>3 DEF Rate, RateCommands
<1>4. CASE button = "Reset"
  BY <1>4 DEF Rate, RateCommands
<1>5. CASE button \in RateCommands
  <2>1. SetRate /\ button \notin {"Play", "Pause", "Stop", "Reset"}
    BY <1>5 DEF Rate, RateCommands
  <2>2. isRate60' = (button = "SetRate60") /\ rateSet' = TRUE /\ playState' = playState
        /\ Metrics!SetExpectedDataRate(Rate[button])
    BY <2>1, Zenon DEF SetRate
  <2> HIDE DEF Finish, Show
  <2>3. isRate60' \in BOOLEAN /\ rateSet' \in BOOLEAN /\ (isRate60' <=> button = "SetRate60")
    BY <2>2, Zenon
  <2>4. expectedDataRate' = Rate[button] /\ totalReceivedCount' = totalReceivedCount
    BY <2>2, Zenon
  <2> QED  BY <2>1, <2>2, <2>3, <2>4, Zenon
<1>6. button \in {"Play", "Pause", "Stop", "Reset"} \/ button \in RateCommands
  BY DEF RateCommands
<1> HIDE DEF Finish, Show
<1> QED  BY <1>1, <1>2, <1>3, <1>4, <1>5, <1>6, Zenon

LEMMA FinishSync == ASSUME SyncInv, User, Finish  PROVE SyncInv'
<1>1. /\ userPc = "finish" /\ userPc' = "idle" /\ button' = NoButton
      /\ UNCHANGED <<session, serving, sending, broken, connection, connectionState, receiverPc,
                     previousConnectionState, tcp, isActive, activated>>
  BY UserFrame DEF Finish, UserStep
<1>2. button \in Buttons
  BY <1>1 DEF SyncInv, ButtonInv
<1>3. \/ button \in {"Play", "Pause"}
      \/ button = "Stop"
      \/ button = "Reset"
      \/ button \in RateCommands /\ button \in {"SetRate30", "SetRate60"}
  BY <1>2 DEF Buttons, RateCommands, Rate
<1>4. TypeInv'
  <2>1. userPc' \in UserPcs /\ button' \in Buttons \union {NoButton}
    BY <1>1 DEF UserPcs
  <2>2. totalReceivedCount' \in Nat /\ isRate60' \in BOOLEAN /\ rateSet' \in BOOLEAN
    BY <1>3, FinishEffect DEF SyncInv, TypeInv
  <2>3. expectedDataRate' \in {30, 60}
    BY <1>3, FinishEffect DEF SyncInv, TypeInv, Rate
  <2> QED  BY <1>1, <2>1, <2>2, <2>3, Zenon DEF SyncInv, TypeInv
<1>5. connectionState = "Connected" => previousConnectionState = "Connected"
  BY <1>1, Handling
<1>6. NewSessionInv' /\ BeliefInv'
  <2>1. Sound' = Sound
    BY <1>1, Zenon DEF Sound
  <2>2. button \in RateCommands => button \notin PlayCommands
    BY DEF RateCommands, Rate, PlayCommands
  <2>3. Sound => (BelievedPlaying' <=> BelievedPlaying)
    BY <1>1, <1>3, <1>5, <2>2, FinishEffect DEF Sound, BelievedPlaying, PlayCommands
  <2>4. Sound => (BelievedRate60' <=> BelievedRate60)
    BY <1>1, <1>3, <1>5, <2>2, FinishEffect DEF Sound, BelievedRate60, PlayCommands
  <2>5. BelievedPlaying' \in BOOLEAN /\ BelievedPlaying \in BOOLEAN
        /\ BelievedRate60' \in BOOLEAN /\ BelievedRate60 \in BOOLEAN
    BY <1>4 DEF BelievedPlaying, BelievedRate60, SyncInv, TypeInv
  <2>6. Sound => BelievedPlaying' = BelievedPlaying /\ BelievedRate60' = BelievedRate60
    BY <2>3, <2>4, <2>5
  <2> QED  BY <1>1, <2>1, <2>6, SameServer DEF serverState
<1>7. ButtonInv'
  BY <1>1 DEF ButtonInv
<1>8. ConnectInv'
  BY <1>1, <1>5 DEF SyncInv, ConnectInv
<1>9. GateInv'
  BY <1>1, <1>3, <1>4, FinishEffect DEF SyncInv, GateInv
<1>10. ShownGateInv'
  BY <1>1, <1>3, <1>5, FinishEffect DEF SyncInv, ShownGateInv, ShownGate, Sound, PlayCommands, GateInv
<1>11. RateInv'
  <2>1. CASE button \in RateCommands
    <3>1. button \in {"SetRate30", "SetRate60"}
      BY <2>1 DEF RateCommands, Rate
    <3>2. Rate[button] = 60 <=> button = "SetRate60"
      BY <3>1 DEF Rate
    <3> QED  BY <2>1, <3>2, FinishEffect, Zenon DEF RateInv
  <2>2. CASE button \notin RateCommands
    <3>1. UNCHANGED <<isRate60, rateSet, expectedDataRate>>
      BY <1>3, <2>2, FinishEffect
    <3> QED  BY <3>1, Zenon DEF SyncInv, RateInv
  <2> QED  BY <2>1, <2>2
<1> QED  BY <1>4, <1>6, <1>7, <1>8, <1>9, <1>10, <1>11 DEF SyncInv

\* Poll notices the new connection, and takes what is shown for a new session's.
LEMMA PollSync == SyncInv /\ Poll => SyncInv'
<1> SUFFICES ASSUME SyncInv, Poll  PROVE  SyncInv'
  OBVIOUS
<1>1. /\ userPc = "idle" /\ userPc' = "idle" /\ connection # NoConnection
      /\ previousConnectionState' = connectionState
      /\ playState' = IF JustConnected THEN "Stopped" ELSE playState
      /\ isRate60' = (isRate60 /\ ~JustConnected)
      /\ UNCHANGED <<session, serving, sending, broken, connection, connectionState, receiverPc,
                     tcp, isActive, button, totalReceivedCount, expectedDataRate, activated, rateSet>>
  <2>1. UNCHANGED metricsVars => totalReceivedCount' = totalReceivedCount /\ expectedDataRate' = expectedDataRate
    BY CollectorEffects, Zenon
  <2> QED  BY <2>1, Zenon DEF Poll, UserStep, serverVars, channelVars, clientVars, workerVars, ownVars
<1>2. isRate60' \in BOOLEAN /\ (isRate60' <=> isRate60 /\ ~JustConnected)
  BY <1>1, Zenon
<1>3. TypeInv'
  <2>1. previousConnectionState' \in ConnectionStates
    BY <1>1 DEF SyncInv, TypeInv
  <2> QED  BY <1>1, <1>2, <2>1, Zenon DEF SyncInv, TypeInv
<1>4. NewSessionInv' /\ BeliefInv'
  <2>1. Sound => BelievedPlaying' = BelievedPlaying
    BY <1>1 DEF Sound, BelievedPlaying, JustConnected
  <2>2. Sound => BelievedRate60' = BelievedRate60
    BY <1>1, <1>2 DEF Sound, BelievedRate60, JustConnected, SyncInv, TypeInv
  <2>3. Sound' = Sound
    BY <1>1, Zenon DEF Sound
  <2> QED  BY <1>1, <2>1, <2>2, <2>3, SameServer DEF serverState
<1>5. ButtonInv'
  BY <1>1 DEF ButtonInv
<1>6. ConnectInv'
  BY <1>1, <1>2 DEF SyncInv, ConnectInv
<1>7. GateInv'
  BY <1>1 DEF SyncInv, GateInv, ConnectInv, JustConnected
<1>8. ShownGateInv'
  BY <1>1 DEF SyncInv, ShownGateInv, ShownGate, Sound, ConnectInv, GateInv, JustConnected
<1>9. RateInv'
  <2>1. JustConnected /\ rateSet => ~isRate60
    BY DEF SyncInv, ConnectInv, JustConnected
  <2> QED  BY <1>1, <1>2, <2>1, Zenon DEF SyncInv, RateInv
<1> QED  BY <1>3, <1>4, <1>5, <1>6, <1>7, <1>8, <1>9 DEF SyncInv

-----------------------------------------------------------------------------
(* Theorems *)

LEMMA SyncStep == SyncInv /\ [Next]_vars => SyncInv'
<1> SUFFICES ASSUME SyncInv, [Next]_vars  PROVE  SyncInv'
  OBVIOUS
<1>1. CASE Server \/ Break \/ ReceiveWorker \/ Connect \/ Teardown \/ Poll
  BY <1>1, ServerSync, BreakSync, WorkerSync, ConnectSync, TeardownSync, PollSync, Zenon
<1>2. CASE User
  BY <1>2, PressSync, DeactivateSync, SendSucceedsSync, SendFailsSync, ActivateSync, FinishSync, Zenon
     DEF User, Send
<1>3. CASE UNCHANGED vars
  <2>1. UNCHANGED clientState /\ UNCHANGED serverState /\ UNCHANGED broken
    BY <1>3, CollectorEffects DEF vars, clientState, serverState, serverVars, channelVars, clientVars,
       workerVars, userVars, shownVars, ownVars
  <2>2. TypeInv'
    BY <2>1, Zenon DEF SyncInv, TypeInv, clientState, serverState
  <2>3. Sound' = Sound /\ BelievedPlaying' = BelievedPlaying /\ BelievedRate60' = BelievedRate60
        /\ connection' = connection /\ broken \subseteq broken'
    BY <2>1, Zenon DEF Sound, BelievedPlaying, BelievedRate60, clientState
  <2>4. NewSessionInv' /\ BeliefInv'
    BY <2>1, <2>3, SameServer
  <2>5. ClientInv'
    <3>1. ClientInv
      BY Zenon DEF SyncInv, ClientInv
    <3> QED  BY <2>1, <2>3, <3>1, SameClient, Zenon
  <2> QED  BY <2>2, <2>4, <2>5, Zenon DEF SyncInv, ClientInv
<1> QED  BY <1>1, <1>2, <1>3 DEF Next

LEMMA Invariance == Spec => []SyncInv
BY SyncInit, SyncStep, PTL DEF Spec

\* Once nothing is on its way, MainViewModel shows the state and the rate that the session
\* has, the gate is open exactly if it plays, and delays are judged by its rate, after any
\* sequence of buttons, losses, failures and reconnects.
THEOREM ShowsTheSession == Spec => []ShownAgrees
<1>1. SyncInv => ShownAgrees
  <2> SUFFICES ASSUME SyncInv, Settled  PROVE  ShownAgrees
    BY DEF ShownAgrees
  <2> DEFINE state == session[connection].state
             rate == session[connection].dataRate
  <2>1. Sound /\ userPc = "idle" /\ previousConnectionState = "Connected" /\ tcp[connection] = <<>>
    BY DEF Settled, Sound, IsConnected
  <2>2. connection \in Connections
    BY <2>1, StreamSyncAssumption
       DEF SyncInv, TypeInv, ConnectInv, Connections, Sound, NoConnection
  <2>3. \A kind, command, b : Will(tcp[connection], kind, command, b) = b
    <3>1. \A kind : ~\E i \in 1 .. Len(tcp[connection]) : tcp[connection][i] \in kind
      BY <2>1
    <3> QED  BY <3>1, Zenon DEF Will
  <2>4. (WillPlay(connection) <=> state = "Playing") /\ (WillRate60(connection) <=> rate = 60)
    <3> DEFINE playing == session[connection].state = "Playing"
               rate60 == session[connection].dataRate = 60
    <3>1. /\ WillPlay(connection) = Will(tcp[connection], PlayCommands, "Play", playing)
          /\ WillRate60(connection) = Will(tcp[connection], RateCommands, "SetRate60", rate60)
      BY Zenon DEF WillPlay, WillRate60
    <3>2. (playing <=> state = "Playing") /\ (rate60 <=> rate = 60)
      OBVIOUS
    <3> HIDE DEF playing, rate60
    <3>3. /\ Will(tcp[connection], PlayCommands, "Play", playing) = playing
          /\ Will(tcp[connection], RateCommands, "SetRate60", rate60) = rate60
      BY <2>3
    <3> QED  BY <3>1, <3>2, <3>3, Zenon
  <2>5. (WillPlay(connection) <=> BelievedPlaying) /\ (WillRate60(connection) <=> BelievedRate60)
    BY <2>1, Zenon DEF SyncInv, BeliefInv
  <2>6. (BelievedPlaying <=> playState = "Playing") /\ (BelievedRate60 <=> isRate60)
    BY <2>1 DEF BelievedPlaying, BelievedRate60
  <2>7. (playState = "Playing" <=> state = "Playing") /\ (isRate60 <=> rate = 60)
    BY <2>4, <2>5, <2>6, Zenon
  <2>8. isActive <=> playState = "Playing"
    BY <2>1 DEF SyncInv, ShownGateInv, ShownGate
  <2>9. rateSet => (expectedDataRate = 60 <=> isRate60)
    BY Zenon DEF SyncInv, RateInv
  <2>10. rate \in {30, 60} /\ expectedDataRate \in {30, 60} /\ isRate60 \in BOOLEAN /\ isActive \in BOOLEAN
    BY <2>2 DEF SyncInv, TypeInv, S!ClientSessionType, S!DataRates
  <2>11. rateSet => expectedDataRate = rate
    BY <2>7, <2>9, <2>10
  <2>12. (playState = "Playing") = (state = "Playing") /\ (playState = "Playing") = isActive
         /\ isRate60 = (rate = 60)
    BY <2>7, <2>8, <2>10
  <2> QED  BY <2>11, <2>12, Zenon DEF ShownAgrees
<1> QED  BY <1>1, Invariance, PTL

\* After Stop at most one packet is counted, that for which the receive worker had found
\* isActive_ set.
THEOREM StopStaysEmpty == Spec => []StoppedCountsAtMostOne
<1>1. SyncInv => StoppedCountsAtMostOne
  BY DEF SyncInv, GateInv, StoppedCountsAtMostOne
<1> QED  BY <1>1, Invariance, PTL

\* A new connection's statistics are empty until Play, whatever still arrives.
THEOREM NewStaysEmpty == Spec => []NewConnectionCountsNothing
<1>1. SyncInv => NewConnectionCountsNothing
  BY DEF SyncInv, GateInv, NewConnectionCountsNothing
<1> QED  BY <1>1, Invariance, PTL

-----------------------------------------------------------------------------
(* The collector as it is used *)

Collector ==
  INSTANCE MetricsCollectorProofs
    WITH MaxSequenceId <- MaxPackets, MaxReceived <- MaxPackets, MaxTime <- 0, Timestamps <- {0}

\* A button in hand that has not been sent, and a registration that is still the next command.
Unsent == IF userPc \in {"deactivate", "send"} THEN 1 ELSE 0

Unregistered(c) == IF tcp[c] # <<>> /\ Head(tcp[c]) = "RegisterUdpPort" THEN 1 ELSE 0

\* Every Stop that a session has carried out was pressed.
StopsInv ==
  /\ pressed \in 0 .. MaxCommands
  /\ stopsServed \in [Connections -> Nat]
  /\ \A c \in Connections : c > connection => stopsServed[c] = 0
  /\ \A c \in Connections : stopsServed[c] + Len(tcp[c]) + Unsent <= pressed + Unregistered(c)

\* Sequence ids begin with 1 after every Stop and Reset, and no counter passes the number
\* of packets streamed.
PacketInv ==
  /\ streamed \in 0 .. MaxPackets
  /\ \A c \in Connections : session[c].nextSequenceId <= streamed
  /\ network \subseteq Packets
  /\ inHand \in Packets \union {NoPacket} /\ firstPacket \in Packets \union {NoPacket}
  /\ receiverPc # "receive" => inHand \in Packets

\* The rest of TypeOK.
ShownTypeInv ==
  /\ broken \subseteq Connections /\ playState \in S!SessionStates
  /\ receiverPc \in {"receive", "check", "count"}

StreamInv == SyncInv /\ StopsInv /\ PacketInv /\ ShownTypeInv

\* A command keeps the counter or sets it to 0.
LEMMA ExecuteId ==
  ASSUME NEW cs \in S!ClientSessionType, NEW command \in Commands
  PROVE  Execute(cs, command).nextSequenceId \in {0, cs.nextSequenceId}
<1> USE DEF S!ClientSessionType, Execute
<1>1. CASE command \in {"RegisterUdpPort", "Play", "Pause", "Reset", "SetRate30", "SetRate60"}
  BY <1>1 DEF S!RegisterUdpEndpoint, S!Play, S!Pause, S!Reset, S!SetRate, Rate
<1>2. CASE command = "Stop"
  <2> DEFINE restarted == S!StopSequence(S!StopState(cs))
  <2>1. restarted \in S!ClientSessionType /\ restarted.nextSequenceId = 0
    BY DEF S!StopState, S!StopSequence, S!SessionStates
  <2>2. Execute(cs, command) = S!StopEntity(restarted)
    <3>1. Execute(cs, command) = S!Stop(cs)
      BY <1>2 DEF Rate
    <3> HIDE DEF Execute
    <3> QED  BY <3>1, Zenon DEF S!Stop, restarted
  <2> HIDE DEF restarted, Execute
  <2>3. S!StopEntity(restarted).nextSequenceId = 0
    BY <2>1 DEF S!StopEntity
  <2> QED  BY <2>2, <2>3
<1> QED  BY <1>1, <1>2 DEF Commands, Buttons, Rate

LEMMA StreamInit == Init => StreamInv
<1> SUFFICES ASSUME Init  PROVE  StreamInv
  OBVIOUS
<1>1. StopsInv
  BY StreamSyncAssumption DEF Init, StopsInv, Unsent, Unregistered
<1>2. PacketInv
  BY StreamSyncAssumption DEF Init, PacketInv, S!NewClientSession
<1>3. ShownTypeInv
  BY DEF Init, ShownTypeInv, S!SessionStates
<1> QED  BY <1>1, <1>2, <1>3, SyncInit DEF StreamInv

LEMMA StopsStep == SyncInv /\ StopsInv /\ [Next]_vars => StopsInv'
<1> SUFFICES ASSUME SyncInv, StopsInv, [Next]_vars  PROVE  StopsInv'
  OBVIOUS
<1>0. /\ tcp \in [Connections -> Seq(Commands)] /\ MaxCommands \in Nat /\ MaxConnections \in Nat
      /\ connection \in 0 .. MaxConnections /\ serving \subseteq 1 .. connection
  BY StreamSyncAssumption DEF SyncInv, TypeInv
<1>1. \A c \in Connections : /\ tcp[c] \in Seq(Commands) /\ Len(tcp[c]) \in Nat
                            /\ stopsServed[c] \in Nat /\ Unregistered(c) \in {0, 1}
  BY <1>0 DEF StopsInv, Unregistered
<1>2. ASSUME NEW c \in Connections, ProcessOneMessage(c), Server  PROVE  StopsInv'
  <2>1. /\ tcp[c] # <<>> /\ c \in serving
        /\ tcp' = [tcp EXCEPT ![c] = Tail(@)]
        /\ stopsServed' = [stopsServed EXCEPT ![c] = IF Head(tcp[c]) = "Stop" THEN @ + 1 ELSE @]
        /\ UNCHANGED <<pressed, userPc, connection>>
    BY <1>2 DEF ProcessOneMessage, Server, userVars, clientVars
  <2>2. Len(Tail(tcp[c])) = Len(tcp[c]) - 1 /\ Len(tcp[c]) > 0
    BY <1>1, <2>1
  <2>3. tcp'[c] = Tail(tcp[c])
        /\ stopsServed'[c] = IF Head(tcp[c]) = "Stop" THEN stopsServed[c] + 1 ELSE stopsServed[c]
    BY <1>0, <2>1 DEF StopsInv
  <2>4. Unsent' = Unsent /\ Unsent \in {0, 1}
    BY <2>1 DEF Unsent
  <2>5. Unregistered(c)' \in {0, 1}
    BY DEF Unregistered
  <2>6. IF Head(tcp[c]) = "Stop" THEN Unregistered(c) = 0 ELSE TRUE
    BY DEF Unregistered
  <2>7. stopsServed'[c] + Len(tcp'[c]) + Unsent' <= pressed' + Unregistered(c)'
    <3>1. stopsServed[c] + Len(tcp[c]) + Unsent <= pressed + Unregistered(c) /\ pressed \in Nat
      BY DEF StopsInv
    <3>2. stopsServed'[c] + (Len(tcp[c]) - 1) <= stopsServed[c] + Len(tcp[c]) - Unregistered(c)
          /\ stopsServed'[c] \in Nat
      BY <1>1, <2>3, <2>6
    <3>3. Len(tcp'[c]) = Len(tcp[c]) - 1 /\ pressed' = pressed
      BY <2>1, <2>2, <2>3
    <3>4. stopsServed'[c] + Len(tcp'[c]) + Unsent <= pressed
      BY <1>1, <2>4, <3>1, <3>2, <3>3, SMTT(60)
    <3> QED  BY <1>1, <2>4, <2>5, <3>1, <3>2, <3>3, <3>4
  <2>8. \A d \in Connections \ {c} : /\ stopsServed'[d] = stopsServed[d] /\ tcp'[d] = tcp[d]
                                    /\ Unregistered(d)' = Unregistered(d)
    BY <1>0, <2>1 DEF StopsInv, Unregistered
  <2>9. c <= connection
    BY <1>0, <2>1
  <2>10. stopsServed' \in [Connections -> Nat]
    BY <2>1 DEF StopsInv
  <2>11. \A d \in Connections :
           stopsServed'[d] + Len(tcp'[d]) + Unsent' <= pressed' + Unregistered(d)'
    BY <2>1, <2>4, <2>7, <2>8 DEF StopsInv
  <2>12. \A d \in Connections : d > connection => stopsServed'[d] = 0
    <3> TAKE d \in Connections
    <3>1. CASE d = c
      BY <1>0, <2>1, <2>9, <3>1 DEF Connections
    <3>2. CASE d # c
      BY <2>8, <3>2 DEF StopsInv
    <3> QED  BY <3>1, <3>2
  <2> QED  BY <2>1, <2>10, <2>11, <2>12 DEF StopsInv
<1>3. CASE Connect
  <2>1. PICK c \in Connections :
          /\ c = connection + 1 /\ connection' = c /\ userPc = "idle"
          /\ tcp' = [tcp EXCEPT ![c] = <<"RegisterUdpPort">>]
          /\ UNCHANGED <<pressed, userPc, stopsServed>>
    <3>1. connection + 1 \in Connections
      BY <1>0, <1>3 DEF Connect, Connections
    <3>2. /\ connection' = connection + 1 /\ userPc = "idle"
          /\ tcp' = [tcp EXCEPT ![connection + 1] = <<"RegisterUdpPort">>]
          /\ UNCHANGED <<pressed, userPc, stopsServed>>
      BY <1>3 DEF Connect, userVars
    <3> QED  BY <3>1, <3>2
  <2>2. stopsServed[c] = 0 /\ Unsent' = 0 /\ Unsent = 0
    <3>1. c > connection
      BY <1>0, <2>1
    <3> QED  BY <2>1, <3>1 DEF StopsInv, Unsent
  <2>3. \A d \in Connections : d = c => Len(tcp'[d]) = 1 /\ Unregistered(d)' = 1
    <3> SUFFICES ASSUME NEW d \in Connections, d = c
                 PROVE  Len(tcp'[d]) = 1 /\ Unregistered(d)' = 1
      OBVIOUS
    <3>1. tcp'[d] = <<"RegisterUdpPort">>
      BY <1>0, <2>1
    <3>2. Len(tcp'[d]) = 1 /\ tcp'[d] # <<>> /\ Head(tcp'[d]) = "RegisterUdpPort"
      BY <3>1
    <3> QED  BY <3>2 DEF Unregistered
  <2>4. \A d \in Connections \ {c} : tcp'[d] = tcp[d] /\ Unregistered(d)' = Unregistered(d)
    BY <1>0, <2>1 DEF Unregistered
  <2>5. \A d \in Connections : d > connection' => stopsServed[d] = 0
    BY <1>0, <2>1 DEF StopsInv, Connections
  <2>6. \A d \in Connections : stopsServed[d] + Len(tcp'[d]) + Unsent' <= pressed + Unregistered(d)'
    <3> TAKE d \in Connections
    <3>1. CASE d = c
      <4>1. Len(tcp'[d]) = 1 /\ Unregistered(d)' = 1 /\ stopsServed[d] = 0
        BY <2>2, <2>3, <3>1
      <4>2. pressed \in Nat
        BY DEF StopsInv
      <4> QED  BY <2>2, <4>1, <4>2
    <3>2. CASE d # c
      BY <1>1, <2>2, <2>4, <3>2 DEF StopsInv
    <3> QED  BY <3>1, <3>2
  <2> QED  BY <2>1, <2>5, <2>6 DEF StopsInv
<1>4. CASE User
  <2>0. UNCHANGED <<stopsServed, connection>>
    BY <1>4 DEF User, serverVars, clientVars
  <2>1. ASSUME NEW b \in Buttons, Press(b)  PROVE  StopsInv'
    <3>1. /\ userPc = "idle" /\ userPc' \in {"deactivate", "send"}
          /\ pressed < MaxCommands /\ pressed' = pressed + 1 /\ tcp' = tcp
      BY <2>1 DEF Press, UserStep
    <3>2. Unsent = 0 /\ Unsent' = 1
      BY <3>1 DEF Unsent
    <3>3. \A c \in Connections : Unregistered(c)' = Unregistered(c)
      BY <3>1 DEF Unregistered
    <3>4. \A c \in Connections :
            stopsServed[c] + Len(tcp'[c]) + Unsent' <= pressed' + Unregistered(c)'
      <4> TAKE c \in Connections
      <4>1. stopsServed[c] + Len(tcp[c]) <= pressed + Unregistered(c) /\ pressed \in Nat
        BY <1>1, <3>2 DEF StopsInv
      <4> QED  BY <1>1, <3>1, <3>2, <3>3, <4>1
    <3>5. pressed' \in 0 .. MaxCommands
      BY <1>0, <3>1 DEF StopsInv
    <3> QED  BY <2>0, <3>4, <3>5 DEF StopsInv
  <2>2. CASE Send /\ SendSucceeds /\ connection \notin broken
    <3>1. /\ userPc = "send" /\ userPc' \in {"activate", "finish"} /\ pressed' = pressed
          /\ tcp' = [tcp EXCEPT ![connection] = Append(@, button)]
          /\ button \in Buttons /\ connection \in Connections
      BY <1>0, <2>2 DEF Send, SendSucceeds, UserStep, SyncInv, ButtonInv, ConnectInv, Connections,
         NoConnection
    <3>2. Unsent = 1 /\ Unsent' = 0
      BY <3>1 DEF Unsent
    <3>3. /\ tcp[connection] \in Seq(Commands) /\ tcp'[connection] = Append(tcp[connection], button)
          /\ button \in Commands /\ button # "RegisterUdpPort"
      BY <1>0, <3>1 DEF Commands, Buttons, Rate
    <3>4. Len(tcp'[connection]) = Len(tcp[connection]) + 1
      BY <3>3
    <3>5. Unregistered(connection)' = Unregistered(connection)
      <4>1. Head(tcp'[connection])
              = IF tcp[connection] = <<>> THEN button ELSE Head(tcp[connection])
        BY <3>3
      <4>2. tcp'[connection] # <<>>
        BY <3>3
      <4> QED  BY <2>0, <3>3, <4>1, <4>2 DEF Unregistered
    <3>6. \A c \in Connections \ {connection} :
            tcp'[c] = tcp[c] /\ Unregistered(c)' = Unregistered(c)
      BY <1>0, <3>1 DEF Unregistered
    <3>7. \A c \in Connections :
            stopsServed[c] + Len(tcp'[c]) + Unsent' <= pressed + Unregistered(c)'
      <4> TAKE c \in Connections
      <4>1. Unregistered(c)' = Unregistered(c) /\ Len(tcp'[c]) <= Len(tcp[c]) + 1
            /\ Len(tcp'[c]) \in Nat
        BY <1>1, <2>0, <3>4, <3>5, <3>6
      <4> QED  BY <1>1, <3>2, <4>1 DEF StopsInv
    <3> QED  BY <2>0, <3>1, <3>7 DEF StopsInv
  <2>3. CASE \/ Send /\ ~(SendSucceeds /\ connection \notin broken)
             \/ Deactivate \/ Activate \/ Finish
    <3>1. UNCHANGED <<tcp, pressed>>
      BY <2>3 DEF Send, SendSucceeds, SendFails, Deactivate, Activate, Finish
    <3>2. Unsent' <= Unsent /\ Unsent' \in {0, 1} /\ Unsent \in {0, 1}
      BY <2>3 DEF Unsent, Send, SendSucceeds, SendFails, Deactivate, Activate, Finish, UserStep
    <3>3. \A c \in Connections : Unregistered(c)' = Unregistered(c)
      BY <3>1 DEF Unregistered
    <3> QED  BY <1>1, <2>0, <3>1, <3>2, <3>3 DEF StopsInv
  <2> QED  BY <1>4, <2>1, <2>2, <2>3 DEF User
<1>5. CASE UNCHANGED <<stopsServed, tcp, pressed, userPc, connection>>
  BY <1>5 DEF StopsInv, Unsent, Unregistered
<1>6. CASE Server
  <2>1. CASE ~\E c \in Connections : ProcessOneMessage(c)
    BY <1>5, <1>6, <2>1 DEF Server, RemoveSession, FindRecipient, SendPacket, channelVars, userVars,
       clientVars
  <2> QED  BY <1>2, <1>6, <2>1
<1>7. CASE Break \/ ReceiveWorker \/ Teardown \/ Poll \/ UNCHANGED vars
  BY <1>5, <1>7 DEF Break, ReceiveWorker, Teardown, Poll, UserStep, vars, serverVars, channelVars,
     userVars, clientVars
<1> QED  BY <1>3, <1>4, <1>6, <1>7 DEF Next

LEMMA PacketStep == SyncInv /\ StopsInv /\ PacketInv /\ [Next]_vars => PacketInv'
<1> SUFFICES ASSUME SyncInv, StopsInv, PacketInv, [Next]_vars  PROVE  PacketInv'
  OBVIOUS
<1>0. session \in [Connections -> S!ClientSessionType] /\ MaxPackets \in Nat
  BY StreamSyncAssumption DEF SyncInv, TypeInv
<1>1. ASSUME NEW c \in Connections, ProcessOneMessage(c), Server  PROVE  PacketInv'
  <2>1. tcp[c] \in Seq(Commands) /\ tcp[c] # <<>>
    BY <1>1 DEF SyncInv, TypeInv, ProcessOneMessage
  <2>2. Head(tcp[c]) \in Commands
    BY <2>1
  <2>3. Execute(session[c], Head(tcp[c])).nextSequenceId \in {0, session[c].nextSequenceId}
    BY <1>0, <2>2, ExecuteId
  <2>4. /\ session' = [session EXCEPT ![c] = Execute(session[c], Head(tcp[c]))]
        /\ UNCHANGED <<network, streamed, receiverPc, inHand, firstPacket>>
    BY <1>1 DEF ProcessOneMessage, Server, workerVars
  <2>5. \A d \in Connections : session'[d].nextSequenceId \in {0, session[d].nextSequenceId}
    BY <1>0, <2>3, <2>4
  <2>6. \A d \in Connections : session'[d].nextSequenceId <= streamed
    BY <2>5 DEF PacketInv
  <2> QED  BY <2>4, <2>6 DEF PacketInv
<1>2. ASSUME NEW c \in Connections, RemoveSession(c), Server  PROVE  PacketInv'
  <2>1. /\ session' = [session EXCEPT ![c] = S!StopSession(session[c])]
        /\ UNCHANGED <<network, streamed, receiverPc, inHand, firstPacket>>
    BY <1>2 DEF RemoveSession, Server, workerVars
  <2>2. S!StopSession(session[c]).nextSequenceId = session[c].nextSequenceId
    BY <1>0 DEF S!StopSession, S!ClientSessionType
  <2>3. \A d \in Connections : session'[d].nextSequenceId = session[d].nextSequenceId
    BY <1>0, <2>1, <2>2
  <2> QED  BY <2>1, <2>3 DEF PacketInv
<1>3. CASE SendPacket /\ Server
  <2> DEFINE next == S!TakeSequenceId(session[sending])
             packet == [connection |-> sending, stops |-> stopsServed[sending],
                        id |-> next.nextSequenceId]
  <2>1. sending \in Connections
    BY <1>3, StreamSyncAssumption DEF SendPacket, SyncInv, TypeInv, Connections, NoConnection
  <2>2. /\ session' = [session EXCEPT ![sending] = next] /\ streamed < MaxPackets
        /\ streamed' = streamed + 1 /\ UNCHANGED <<receiverPc, inHand, firstPacket>>
        /\ network' = network \union {packet}
    BY <1>3 DEF SendPacket, Server, workerVars
  <2>3. session[sending].nextSequenceId \in Nat /\ session[sending].nextSequenceId <= streamed
    BY <1>0, <2>1 DEF PacketInv, S!ClientSessionType
  <2>4. next.nextSequenceId = (session[sending].nextSequenceId + 1) % (MaxPackets + 2)
    BY <1>0, <2>1 DEF S!TakeSequenceId, S!ClientSessionType
  <2>5. stopsServed[sending] \in 0 .. MaxCommands
    <3>1. stopsServed[sending] \in Nat /\ MaxCommands \in Nat /\ tcp[sending] \in Seq(Commands)
      BY <2>1, StreamSyncAssumption DEF StopsInv, SyncInv, TypeInv
    <3>2. Unregistered(sending) <= Len(tcp[sending]) /\ Len(tcp[sending]) \in Nat
          /\ Unregistered(sending) \in {0, 1} /\ Unsent \in {0, 1}
      BY <3>1 DEF Unregistered, Unsent
    <3>3. stopsServed[sending] + Len(tcp[sending]) + Unsent <= pressed + Unregistered(sending)
          /\ pressed \in 0 .. MaxCommands
      BY <2>1 DEF StopsInv
    <3> QED  BY <3>1, <3>2, <3>3
  <2> HIDE DEF next
  <2>6. next.nextSequenceId = session[sending].nextSequenceId + 1
    BY <1>0, <2>2, <2>3, <2>4 DEF PacketInv
  <2>7. next.nextSequenceId \in 1 .. MaxPackets /\ next.nextSequenceId <= streamed'
        /\ streamed' \in 0 .. MaxPackets
    BY <1>0, <2>2, <2>3, <2>6 DEF PacketInv
  <2>8. \A d \in Connections : session'[d].nextSequenceId <= streamed'
    <3> TAKE d \in Connections
    <3>1. session[d].nextSequenceId \in Nat /\ session[d].nextSequenceId <= streamed
      BY <1>0 DEF PacketInv, S!ClientSessionType
    <3>2. session'[d] = IF d = sending THEN next ELSE session[d]
      BY <1>0, <2>2
    <3> QED  BY <2>2, <2>7, <3>1, <3>2 DEF PacketInv
  <2>9. packet \in Packets
    BY <2>1, <2>5, <2>7 DEF Packets
  <2> HIDE DEF packet
  <2> QED  BY <2>2, <2>7, <2>8, <2>9 DEF PacketInv
<1>4. CASE ReceiveWorker
  <2>1. UNCHANGED <<session, streamed>>
    BY <1>4 DEF ReceiveWorker, serverVars
  <2>2. CASE ReceiveFrom \/ CheckActive
    BY <2>1, <2>2 DEF ReceiveFrom, CheckActive, PacketInv
  <2>3. CASE CountPacket
    BY <2>1, <2>3 DEF CountPacket, PacketInv
  <2> QED  BY <1>4, <2>2, <2>3 DEF ReceiveWorker
<1>5. CASE /\ UNCHANGED <<session, network, streamed, receiverPc, inHand>>
           /\ firstPacket' \in {firstPacket, NoPacket}
  BY <1>5 DEF PacketInv
<1>6. \/ \E c \in Connections : (ProcessOneMessage(c) \/ RemoveSession(c)) /\ Server
      \/ SendPacket /\ Server
      \/ ReceiveWorker
      \/ /\ UNCHANGED <<session, network, streamed, receiverPc, inHand>>
         /\ firstPacket' \in {firstPacket, NoPacket}
  <2>1. CASE Server
    BY <2>1 DEF Server, FindRecipient, workerVars
  <2>2. CASE Break \/ Connect \/ Teardown \/ Poll \/ UNCHANGED vars
    BY <2>2 DEF Break, Connect, Start, ResetMetrics, Teardown, Joined, Poll, vars, serverVars,
       workerVars
  <2>3. CASE User
    <3>1. UNCHANGED <<session, network, streamed, receiverPc, inHand>>
      BY <2>3 DEF User, serverVars, workerVars
    <3>2. firstPacket' \in {firstPacket, NoPacket}
      BY <2>3 DEF User, Press, Deactivate, Send, Activate, Finish, ResetMetrics, SetRate
    <3> QED  BY <3>1, <3>2
  <2> QED  BY <2>1, <2>2, <2>3 DEF Next
<1> QED  BY <1>1, <1>2, <1>3, <1>4, <1>5, <1>6

LEMMA ShownTypeStep == SyncInv /\ ShownTypeInv /\ [Next]_vars => ShownTypeInv'
<1> SUFFICES ASSUME SyncInv, ShownTypeInv, [Next]_vars  PROVE  ShownTypeInv'
  OBVIOUS
<1>1. broken' \subseteq Connections
  BY DEF ShownTypeInv, Next, Server, ProcessOneMessage, RemoveSession, FindRecipient, SendPacket,
     Break, ReceiveWorker, Connect, Teardown, User, Poll, vars, channelVars
<1>2. receiverPc' \in {"receive", "check", "count"}
  BY DEF ShownTypeInv, Next, Server, Break, ReceiveWorker, ReceiveFrom, CheckActive, CountPacket,
     Connect, Teardown, Joined, User, Poll, vars, workerVars
<1>3. playState' \in S!SessionStates
  <2> USE DEF ShownTypeInv, S!SessionStates, shownVars
  <2>1. CASE User
    BY <2>1 DEF User, Press, Deactivate, Send, Activate, Finish, Show, SetRate
  <2>2. CASE Server \/ Break \/ ReceiveWorker \/ Connect \/ Teardown \/ Poll \/ UNCHANGED vars
    BY <2>2 DEF Server, Break, ReceiveWorker, Connect, Teardown, Poll, vars
  <2> QED  BY <2>1, <2>2 DEF Next
<1> QED  BY <1>1, <1>2, <1>3 DEF ShownTypeInv

LEMMA StreamInvariance == Spec => []StreamInv
<1>1. StreamInv /\ [Next]_vars => StreamInv'
  BY SyncStep, StopsStep, PacketStep, ShownTypeStep DEF StreamInv
<1> QED  BY <1>1, StreamInit, PTL DEF Spec

LEMMA CollectorStep == StreamInv /\ [Next]_vars => [Metrics!Next]_(Metrics!vars)
<1> SUFFICES ASSUME StreamInv, [Next]_vars  PROVE  Metrics!Next \/ UNCHANGED Metrics!vars
  OBVIOUS
<1>1. UNCHANGED metricsVars => UNCHANGED Metrics!vars
  BY Zenon DEF metricsVars, Metrics!vars, Metrics!lossVars, Metrics!elapsedVars,
     Metrics!timingVars, Metrics!latencyVars, Metrics!historyVars
<1>2. Metrics!Reset => Metrics!Next
  BY Zenon DEF Metrics!Next
<1>3. CASE ReceiveWorker
  <2>1. CASE CountPacket
    <3>1. inHand.id \in Metrics!SequenceIds /\ 0 \in {0}
      BY <2>1 DEF CountPacket, StreamInv, PacketInv, Packets, Metrics!SequenceIds
    <3>2. Metrics!OnPacketReceived(inHand.id, 0)
      BY <2>1, Zenon DEF CountPacket
    <3> QED  BY <3>1, <3>2, Zenon DEF Metrics!Next
  <2>2. CASE ReceiveFrom \/ CheckActive
    BY <1>1, <2>2, Zenon DEF ReceiveFrom, CheckActive
  <2> QED  BY <1>3, <2>1, <2>2, Zenon DEF ReceiveWorker
<1>4. CASE Connect
  BY <1>2, <1>4, Zenon DEF Connect, Start, ResetMetrics
<1>5. CASE User
  <2>1. CASE Finish
    <3>1. button \in DOMAIN Rate => Rate[button] \in Metrics!DataRates
      BY DEF Rate, Metrics!DataRates
    <3>2. button \in DOMAIN Rate /\ SetRate => Metrics!Next
      BY <3>1, Zenon DEF SetRate, Metrics!Next
    <3>3. \/ Metrics!OnPlay \/ Metrics!OnPause \/ Metrics!Reset
          \/ button \in DOMAIN Rate /\ SetRate
      BY <2>1, Zenon DEF Finish, ResetMetrics
    <3> QED  BY <1>2, <3>2, <3>3, Zenon DEF Metrics!Next
  <2>2. CASE (\E b \in Buttons : Press(b)) \/ Deactivate \/ Send \/ Activate
    BY <1>1, <2>2, Zenon DEF Press, Deactivate, Send, Activate
  <2> QED  BY <1>5, <2>1, <2>2, Zenon DEF User
<1>6. CASE Server \/ Break \/ Teardown \/ Poll \/ UNCHANGED vars
  BY <1>1, <1>6, Zenon DEF Server, Break, Teardown, Poll, vars
<1> QED  BY <1>3, <1>4, <1>5, <1>6, Zenon DEF Next

\* The collector is used as its own specification allows: whatever is streamed, lost,
\* restarted by Stop or left over from another connection, the ids it is given begin with 1,
\* the value 0 of a counter that has been reset is never among them, and the rate it is
\* given is one that it can divide by.
THEOREM CollectorIsUsedAsSpecified == Spec => Metrics!Spec
<1>1. Init => Metrics!Init
  BY Zenon DEF Init
<1>2. StreamInv /\ [Next]_vars => [Metrics!Next]_(Metrics!vars)
  BY CollectorStep
<1> QED  BY <1>1, <1>2, StreamInvariance, PTL DEF Spec, Metrics!Spec

\* The instance that carries MetricsCollector's theorems is the one that StreamSync uses.
LEMMA SameCollector ==
  /\ Metrics!Init <=> Collector!Init
  /\ [Metrics!Next]_(Metrics!vars) <=> [Collector!Next]_(Collector!vars)
  /\ Metrics!TypeOK <=> Collector!TypeOK
  /\ Metrics!LossIsExact <=> Collector!LossIsExact
  /\ Metrics!MissingIsRecent <=> Collector!MissingIsRecent
  /\ Metrics!TimingFollowsHighest <=> Collector!TimingFollowsHighest
<1>1. \A ids : Metrics!Cardinality(ids) = Collector!Cardinality(ids)
  BY DEF Metrics!Cardinality, Collector!Cardinality
<1>2. \A id, t : Metrics!OnPacketReceived(id, t) <=> Collector!OnPacketReceived(id, t)
  <2>1. \A id : Metrics!RecordReceiveInterval(id) <=> Collector!RecordReceiveInterval(id)
    BY Zenon DEF Metrics!RecordReceiveInterval, Collector!RecordReceiveInterval,
       Metrics!TakeTimingSample, Collector!TakeTimingSample, Metrics!IsDelayed,
       Collector!IsDelayed, Metrics!ExpectedInterval, Collector!ExpectedInterval,
       Metrics!timingVars, Collector!timingVars
  <2>2. \A id : Metrics!NewerPacket(id) <=> Collector!NewerPacket(id)
    BY <1>1, <2>1, Zenon DEF Metrics!NewerPacket, Collector!NewerPacket, Metrics!Stale,
       Collector!Stale, Metrics!elapsedVars, Collector!elapsedVars
  <2>3. \A id : /\ Metrics!FirstPacket(id) <=> Collector!FirstPacket(id)
                /\ Metrics!OlderPacket(id) <=> Collector!OlderPacket(id)
    BY Zenon DEF Metrics!FirstPacket, Collector!FirstPacket, Metrics!OlderPacket,
       Collector!OlderPacket, Metrics!TakeTimingSample, Collector!TakeTimingSample,
       Metrics!elapsedVars, Collector!elapsedVars, Metrics!timingVars, Collector!timingVars
  <2>4. /\ \A t : Metrics!RecordLatency(t) <=> Collector!RecordLatency(t)
        /\ \A id : Metrics!Observe(id) <=> Collector!Observe(id)
    BY Zenon DEF Metrics!RecordLatency, Collector!RecordLatency, Metrics!Observe,
       Collector!Observe, Metrics!latencyVars, Collector!latencyVars
  <2> QED  BY <2>2, <2>3, <2>4, Zenon DEF Metrics!OnPacketReceived, Collector!OnPacketReceived
<1>3. /\ \A rate : Metrics!SetExpectedDataRate(rate) <=> Collector!SetExpectedDataRate(rate)
      /\ Metrics!OnPlay <=> Collector!OnPlay
      /\ Metrics!OnPause <=> Collector!OnPause
  BY Zenon DEF Metrics!SetExpectedDataRate, Collector!SetExpectedDataRate, Metrics!OnPlay,
     Collector!OnPlay, Metrics!OnPause, Collector!OnPause, Metrics!lossVars, Collector!lossVars,
     Metrics!elapsedVars, Collector!elapsedVars, Metrics!latencyVars, Collector!latencyVars,
     Metrics!historyVars, Collector!historyVars
<1>4. /\ Metrics!Reset <=> Collector!Reset
      /\ Metrics!Tick <=> Collector!Tick
  BY Zenon DEF Metrics!Reset, Collector!Reset, Metrics!ResetLoss, Collector!ResetLoss,
     Metrics!ResetElapsed, Collector!ResetElapsed, Metrics!ResetTiming, Collector!ResetTiming,
     Metrics!ResetLatency, Collector!ResetLatency, Metrics!Tick, Collector!Tick, Metrics!lossVars,
     Collector!lossVars, Metrics!elapsedVars, Collector!elapsedVars, Metrics!timingVars,
     Collector!timingVars, Metrics!latencyVars, Collector!latencyVars, Metrics!historyVars,
     Collector!historyVars
<1>5. Metrics!Next <=> Collector!Next
  BY <1>2, <1>3, <1>4, Zenon DEF Metrics!Next, Collector!Next, Metrics!SequenceIds,
     Collector!SequenceIds, Metrics!DataRates, Collector!DataRates
<1>6. UNCHANGED Metrics!vars <=> UNCHANGED Collector!vars
  BY Zenon DEF Metrics!vars, Collector!vars, Metrics!lossVars, Collector!lossVars,
     Metrics!elapsedVars, Collector!elapsedVars, Metrics!timingVars, Collector!timingVars,
     Metrics!latencyVars, Collector!latencyVars, Metrics!historyVars, Collector!historyVars
<1>7. Metrics!Init <=> Collector!Init
  BY Zenon DEF Metrics!Init, Collector!Init
<1>8. Metrics!TypeOK <=> Collector!TypeOK
  BY Zenon DEF Metrics!TypeOK, Collector!TypeOK, Metrics!SequenceIds, Collector!SequenceIds,
     Metrics!DataRates, Collector!DataRates
<1>9. /\ Metrics!LossIsExact <=> Collector!LossIsExact
      /\ Metrics!TimingFollowsHighest <=> Collector!TimingFollowsHighest
  BY <1>1, Zenon DEF Metrics!LossIsExact, Collector!LossIsExact, Metrics!LossCount,
     Collector!LossCount, Metrics!TimingFollowsHighest, Collector!TimingFollowsHighest
<1>10. Metrics!MissingIsRecent <=> Collector!MissingIsRecent
  BY <1>1, Zenon DEF Metrics!MissingIsRecent, Collector!MissingIsRecent
<1> QED  BY <1>5, <1>6, <1>7, <1>8, <1>9, <1>10, Zenon

\* MetricsCollector's own theorems, for the bounds it is used with here.
LEMMA CollectorTheorems ==
  Collector!Spec =>
    [](/\ Collector!TypeOK /\ Collector!LossIsExact
       /\ Collector!MissingIsRecent /\ Collector!TimingFollowsHighest)
<1>1. Collector!WindowAssumption /\ Collector!BoundsAssumption /\ Collector!TimestampsAssumption
  BY StreamSyncAssumption, StreamWindowAssumption
     DEF Collector!WindowAssumption, Collector!BoundsAssumption, Collector!TimestampsAssumption
<1> QED
  BY <1>1, Collector!CollectorTypeCorrect, Collector!ReportedLossIsExact,
     Collector!WindowBoundsMissing, Collector!IntervalNeverUnderflows, PTL

LEMMA CollectorTypes == Spec => []Metrics!TypeOK
BY SameCollector, CollectorTheorems, CollectorIsUsedAsSpecified, PTL
   DEF Metrics!Spec, Collector!Spec

\* So what MetricsCollector promises of any calls holds of the calls that this system makes.
\* Stop and Connect make the ids begin again while packets of the old numbering may still be
\* counted: of the packets that are, the loss that is shown counts each absent id once, no
\* more ids are kept than the window holds, and no interval is divided by a difference of
\* ids that has wrapped around.
THEOREM CollectorPromisesHold ==
  Spec => [](Metrics!LossIsExact /\ Metrics!MissingIsRecent /\ Metrics!TimingFollowsHighest)
BY SameCollector, CollectorTheorems, CollectorIsUsedAsSpecified, PTL
   DEF Metrics!Spec, Collector!Spec

\* The variables of both sides keep their types: no packet carries the id 0, and none was
\* sent after more Stops than the user pressed.
THEOREM StreamTypeCorrect == Spec => []TypeOK
<1>1. StreamInv /\ Metrics!TypeOK => TypeOK
  <2> SUFFICES ASSUME StreamInv, Metrics!TypeOK  PROVE  TypeOK
    OBVIOUS
  <2> HIDE DEF Metrics!TypeOK
  <2>1. /\ session \in [Connections -> S!ClientSessionType]
        /\ isActive \in BOOLEAN /\ isRate60 \in BOOLEAN
        /\ {connectionState, previousConnectionState}
             \subseteq {"Disconnected", "Connected", "Reconnecting"}
        /\ userPc \in {"idle", "deactivate", "send", "activate", "finish"}
        /\ button \in Buttons \union {NoButton}
    BY DEF StreamInv, SyncInv, TypeInv, ConnectionStates, UserPcs
  <2>2. connection \in 0 .. MaxConnections /\ serving \subseteq 1 .. connection
        /\ sending \in 0 .. connection /\ tcp \in [Connections -> Seq(Commands)]
    BY DEF StreamInv, SyncInv, TypeInv
  <2>3. /\ serving \subseteq Connections
        /\ sending \in Connections \union {NoConnection}
        /\ connection \in Connections \union {NoConnection}
    BY <2>2, StreamSyncAssumption DEF Connections, NoConnection
  <2>4. \A c \in Connections : \A i \in 1 .. Len(tcp[c]) :
          tcp[c][i] \in Buttons \union {"RegisterUdpPort"}
    BY <2>2 DEF Commands
  <2> QED  BY <2>1, <2>3, <2>4, Zenon DEF TypeOK, StreamInv, PacketInv, ShownTypeInv
<1> QED  BY <1>1, StreamInvariance, CollectorTypes, PTL
=============================================================================
