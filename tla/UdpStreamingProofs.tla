------------------------- MODULE UdpStreamingProofs -------------------------
(***************************************************************************)
(* Proofs about UdpStreaming, for every set of sessions and foreign        *)
(* clients, every set of commands, any number of control inputs, however   *)
(* late the streaming worker is and whatever the modulus of the ids.       *)
(***************************************************************************)
EXTENDS UdpStreaming, FiniteSetTheorems, TLAPS

-----------------------------------------------------------------------------
(* The inductive invariant, part by part *)

\* What the workers hold at their positions.
PositionInv ==
  /\ pc # "sleep" => lag \in Nat
  /\ pc \in {"step", "send"} => current \in Sessions
  /\ inputPc \in {"lookup", "apply"} => input \in inputs
  /\ inputPc = "apply" => input.sender = input.entityId
  /\ IsFiniteSet(inputs)

\* The ids taken are those of the packets sent and of the sends that failed.
PacketInv ==
  \A s \in Sessions :
    session[s].nextSequenceId = (packet[s] + failedSends[s]) % SequenceModulus

\* Stop's second write comes after its first: what the streaming worker may still take is
\* one id, if it was past its check.
RestartInv ==
  \A s \in Sessions :
    session[s].state = "Stopped" /\ workerPc[s] \in {"stopEntity", "serving"} =>
      \/ session[s].nextSequenceId = 0
      \/ session[s].nextSequenceId = 1 /\ ~(pc = "send" /\ current = s)

\* An entity that Stop has put back is at rest with neutral controls.
RestInv ==
  \A s \in Sessions :
    session[s].state = "Stopped" /\ workerPc[s] = "serving" /\ ~inputSinceStop[s] =>
      ~session[s].moved /\ session[s].control = 0

\* The physics that the current iteration still owes s.
Owes(s) ==
  \/ pc = "snapshot"
  \/ pc \in {"physics", "step"} /\ s \in todo
  \/ pc = "step" /\ current = s

\* An entity that plays is ahead of the clock by its debt paid.
PaceInv ==
  /\ \A s \in sessions :
       session[s].state = "Playing" =>
         (ahead[s] + (IF Owes(s) THEN elapsedTicks ELSE 0)) \in 0 .. MaxLag + 1
  /\ pc = "step" => current \notin todo

StreamingInv ==
  /\ TypeOK /\ PositionInv
  /\ NewestInputWins /\ ControlIsOwn
  /\ PacketInv /\ RestartInv /\ RestInv /\ PaceInv

-----------------------------------------------------------------------------
(* The arithmetic of ids *)

\* The only multiple of m between -m and m is 0.
LEMMA Multiples ==
  ASSUME NEW m \in Nat \ {0}, NEW k \in Int, -m < m * k, m * k < m
  PROVE  k = 0
<1>1. CASE k >= 1
  <2>1. m * k >= m
    BY <1>1
  <2> QED
    BY <2>1
<1>2. CASE k <= -1
  <2>1. m * k <= -m
    BY <1>2
  <2> QED
    BY <2>1
<1> QED
  BY <1>1, <1>2

\* A number is its quotient and its remainder.
LEMMA Division ==
  ASSUME NEW m \in Nat \ {0}, NEW x \in Nat
  PROVE  /\ x % m \in 0 .. m - 1 /\ x \div m \in Nat
         /\ x = m * (x \div m) + (x % m)
  OBVIOUS

\* The remainder is the only one.
LEMMA UniqueRemainder ==
  ASSUME NEW m \in Nat \ {0}, NEW q \in Int, NEW p \in Int,
         NEW r \in 0 .. m - 1, NEW t \in 0 .. m - 1,
         m * q + r = m * p + t
  PROVE  r = t
<1>1. m * (q - p) = t - r
  OBVIOUS
<1>2. -m < m * (q - p) /\ m * (q - p) < m
  BY <1>1
<1>3. q - p = 0
  BY <1>2, Multiples
<1> QED
  BY <1>1, <1>3

\* Taking the remainder twice is taking it once.
LEMMA RemainderOfItself ==
  ASSUME NEW m \in Nat \ {0}, NEW x \in Nat
  PROVE  ((x % m) + 0) % m = x % m
<1>1. x % m \in 0 .. m - 1 /\ (x % m) + 0 = x % m
  BY Division
<1> QED
  BY <1>1

\* A counter that wraps counts as one that does not, seen through the modulus.
LEMMA NextModulo ==
  ASSUME NEW m \in Nat \ {0}, NEW x \in Nat
  PROVE  ((x % m) + 1) % m = (x + 1) % m
<1>1. \A y \in Nat :
        /\ y % m \in 0 .. m - 1 /\ y \div m \in Nat
        /\ y = m * (y \div m) + (y % m)
  BY Division
<1>2. PICK q \in Nat, r \in 0 .. m - 1 : x = m * q + r /\ r = x % m
  BY <1>1
<1>3. PICK k \in Nat, t \in 0 .. m - 1 : r + 1 = m * k + t /\ t = (r + 1) % m
  <2>1. r + 1 \in Nat
    OBVIOUS
  <2> QED
    BY <1>1, <2>1
<1>4. PICK p \in Nat, u \in 0 .. m - 1 : x + 1 = m * p + u /\ u = (x + 1) % m
  <2>1. x + 1 \in Nat
    OBVIOUS
  <2> QED
    BY <1>1, <2>1
<1>5. t = u
  <2>1. x = m * q + r /\ r + 1 = m * k + t /\ x + 1 = m * p + u
    BY <1>2, <1>3, <1>4, Zenon
  <2>2. m * (q + k) = m * q + m * k
    OBVIOUS
  <2>3. m * (q + k) + t = m * p + u
    BY <2>1, <2>2
  <2>4. q + k \in Int /\ p \in Int
    OBVIOUS
  <2> QED
    BY <2>3, <2>4, UniqueRemainder
<1>6. ((x % m) + 1) % m = t
  BY <1>2, <1>3
<1>7. (x + 1) % m = u
  BY <1>4
<1> QED
  BY <1>5, <1>6, <1>7, Zenon

-----------------------------------------------------------------------------
(* The methods of ClientSession *)

\* Every command yields a session object.
LEMMA CommandType ==
  ASSUME NEW cs \in ClientSessionType
  PROVE  /\ Play(cs) \in ClientSessionType
         /\ Pause(cs) \in ClientSessionType
         /\ Reset(cs) \in ClientSessionType
         /\ \A hz : SetRate(cs, hz) \in ClientSessionType
         /\ StopState(cs) \in ClientSessionType
         /\ StopSequence(cs) \in ClientSessionType
         /\ StopEntity(cs) \in ClientSessionType
         /\ StopSession(cs) \in ClientSessionType
<1>1. /\ Play(cs) \in ClientSessionType
      /\ Pause(cs) \in ClientSessionType
      /\ Reset(cs) \in ClientSessionType
  BY DEF Play, Pause, Reset, ClientSessionType, SessionStates
<1>2. \A hz : SetRate(cs, hz) \in ClientSessionType
  BY DEF SetRate, ClientSessionType
<1>3. /\ StopState(cs) \in ClientSessionType
      /\ StopSequence(cs) \in ClientSessionType
      /\ StopSession(cs) \in ClientSessionType
  BY DEF StopState, StopSequence, StopSession, ClientSessionType, SessionStates
<1>4. StopEntity(cs) \in ClientSessionType
  <2>1. 0 \in Controls
    BY DEF Controls, ControlLimit
  <2> QED
    BY <2>1 DEF StopEntity, ClientSessionType
<1> QED
  BY <1>1, <1>2, <1>3, <1>4

\* The next id is below the modulus, and so is the object of its type.
LEMMA TakeSequenceIdType ==
  ASSUME NEW cs \in ClientSessionType
  PROVE  /\ TakeSequenceId(cs) \in ClientSessionType
         /\ TakeSequenceId(cs).nextSequenceId \in 0 .. SequenceModulus - 1
  BY SequenceModulusAssumption DEF TakeSequenceId, ClientSessionType

\* A physics step yields a session object.
LEMMA StepPhysicsType == \A cs \in ClientSessionType : StepPhysics(cs) \in ClientSessionType
  BY DEF StepPhysics, ClientSessionType

\* A control input yields a session object, its control clamped.
LEMMA ApplyType ==
  ASSUME NEW cs \in ClientSessionType, NEW n \in Nat, NEW v \in Int
  PROVE  ApplyControlInput(cs, n, v) \in ClientSessionType
<1>1. Clamp(v, -ControlLimit, ControlLimit) \in Controls
  BY DEF Clamp, Controls, ControlLimit
<1> QED
  BY <1>1 DEF ApplyControlInput, ClientSessionType

\* A session that has registered is a session object.
LEMMA RegisteredType == RegisteredSession \in ClientSessionType
<1>1. 0 \in Controls
  BY DEF Controls, ControlLimit
<1> QED
  BY <1>1 DEF RegisteredSession, RegisterUdpEndpoint, NewClientSession, ClientSessionType,
     SessionStates, DataRates

-----------------------------------------------------------------------------
(* The types *)

\* The workers start with their types.
LEMMA TypeInit == Init => TypeOK /\ PositionInv
<1>1. IsFiniteSet({})
  BY FS_EmptySet
<1> QED
  BY <1>1, RegisteredType, StreamingAssumption, SequenceModulusAssumption
     DEF Init, TypeOK, PositionInv, NoInput

\* A command takes no id: it leaves the ids alone or makes them begin again.
LEMMA CommandIds ==
  ASSUME TypeOK, NEW s \in Sessions, ControlWorker(s)
  PROVE  /\ \A o \in Sessions \ {s} : session'[o].nextSequenceId = session[o].nextSequenceId
         /\ \/ Restart(s) /\ session'[s].nextSequenceId = 0
            \/ UNCHANGED wireVars /\ session'[s].nextSequenceId = session[s].nextSequenceId
<1>0. session \in [Sessions -> ClientSessionType] /\ session[s] \in ClientSessionType
  BY DEF TypeOK
<1>1. CASE CommandPlay(s)
  BY <1>0, <1>1 DEF CommandPlay, Update, Play, ClientSessionType
<1>2. CASE CommandOther(s)
  BY <1>0, <1>2 DEF CommandOther, Update, Pause, Reset, SetRate, ClientSessionType
<1>3. CASE CommandStop(s)
  BY <1>0, <1>3 DEF CommandStop, Update, StopState, StopSequence, StopEntity, ClientSessionType
<1>4. CASE Leave(s)
  BY <1>0, <1>4 DEF Leave, Update, StopSession, ClientSessionType
<1> QED
  BY <1>1, <1>2, <1>3, <1>4 DEF ControlWorker

\* A command keeps the types.
LEMMA ControlWorkerTypes ==
  ASSUME TypeOK, PositionInv, NEW s \in Sessions, ControlWorker(s)
  PROVE  TypeOK' /\ PositionInv'
<1>1. /\ sessions' \subseteq Sessions
      /\ session' \in [Sessions -> ClientSessionType]
      /\ workerPc' \in [Sessions -> {"serving", "stopSequence", "stopEntity", "leaving", "done"}]
      /\ ahead' \in [Sessions -> Int]
      /\ inputSinceStop' \in [Sessions -> BOOLEAN]
  <2>0. session[s] \in ClientSessionType
    BY DEF TypeOK
  <2>1. CASE CommandPlay(s)
    BY <2>0, <2>1, CommandType DEF CommandPlay, TypeOK, WorkerStep, Update
  <2>2. CASE CommandOther(s)
    BY <2>0, <2>2, CommandType DEF CommandOther, TypeOK, WorkerStep, Update
  <2>3. CASE CommandStop(s)
    BY <2>0, <2>3, CommandType, ZenonT(60) DEF CommandStop, TypeOK, WorkerStep, Update
  <2>4. CASE Leave(s)
    BY <2>0, <2>4, CommandType DEF Leave, TypeOK, WorkerStep, Update
  <2> QED
    BY <2>1, <2>2, <2>3, <2>4 DEF ControlWorker
<1>2. /\ packet' \in [Sessions -> 0 .. SequenceModulus - 1]
      /\ failedSends' \in [Sessions -> 0 .. MaxFailedSends]
  <2>1. Restart(s) \/ UNCHANGED wireVars
    BY CommandIds
  <2>2. 0 \in 0 .. SequenceModulus - 1 /\ 0 \in 0 .. MaxFailedSends
    BY SequenceModulusAssumption, StreamingAssumption
  <2> QED
    BY <2>1, <2>2 DEF Restart, wireVars, TypeOK
<1> QED
  BY <1>1, <1>2 DEF ControlWorker, TypeOK, PositionInv, loopVars, inputVars

\* A step through the loops of the streaming worker keeps the types.
LEMMA IterateTypes ==
  ASSUME TypeOK, PositionInv, StreamingWorker, Iterate
  PROVE  TypeOK' /\ PositionInv'
<1>1. /\ pc' \in {"loop", "wait", "sleep", "snapshot", "physics", "step", "collect", "recipients",
                  "send", "done"}
      /\ snapshot' \subseteq Sessions /\ todo' \subseteq snapshot' /\ entries' \subseteq snapshot'
      /\ current' \in Sessions \union {NoSession}
      /\ pc' \in {"step", "send"} => current' \in Sessions
      /\ pc # "sleep" /\ pc' # "sleep"
  <2>1. CASE StreamingLoop \/ TakeSnapshot \/ PhysicsDone \/ CollectDone \/ RecipientsDone
    BY <2>1 DEF StreamingLoop, TakeSnapshot, PhysicsDone, CollectDone, RecipientsDone, LoopStep,
       NextIteration, TypeOK
  <2>2. ASSUME NEW s \in Sessions, PhysicsCheck(s) \/ Collect(s) \/ RecipientCheck(s)
        PROVE  /\ pc' \in {"physics", "step", "collect", "recipients", "send"}
               /\ UNCHANGED snapshot /\ todo' \subseteq snapshot /\ entries' \subseteq snapshot
               /\ current' \in Sessions \union {NoSession}
               /\ pc' \in {"step", "send"} => current' \in Sessions
               /\ pc # "sleep"
    BY <2>2 DEF PhysicsCheck, Collect, RecipientCheck, EnterIfPlaying, At, LoopStep, TypeOK
  <2> QED
    BY <2>1, <2>2 DEF Iterate, TypeOK
<1> QED
  BY <1>1 DEF StreamingWorker, Iterate, TypeOK, PositionInv, inputVars, wireVars

\* So do the timer, a physics step and a packet.
LEMMA ActTypes ==
  ASSUME TypeOK, PositionInv, StreamingWorker, Act
  PROVE  TypeOK' /\ PositionInv'
<1>0. /\ MaxLag \in Nat
      /\ UNCHANGED <<snapshot, todo, entries, mainPc, sessions, workerPc, isRunning, inputIsRunning,
                     inputPc, input, inputs, newest, inputSinceStop>>
  BY StreamingAssumption DEF StreamingWorker, Act, inputVars
<1>1. CASE WaitForNextTick
  BY <1>0, <1>1 DEF WaitForNextTick, LoopStep, TypeOK, PositionInv, wireVars
<1>2. CASE WakeUp
  <2>1. tickCount' \in {0, 1} /\ ahead' \in [Sessions -> Int]
    BY <1>0, <1>2 DEF WakeUp, TypeOK
  <2> QED
    BY <1>0, <1>2, <2>1 DEF WakeUp, LoopStep, TypeOK, PositionInv, wireVars
<1>3. CASE Physics
  <2>1. current \in Sessions /\ session[current] \in ClientSessionType
    BY <1>3 DEF Physics, LoopStep, TypeOK, PositionInv
  <2>2. session' \in [Sessions -> ClientSessionType] /\ ahead' \in [Sessions -> Int]
    BY <1>0, <1>3, <2>1, StepPhysicsType DEF Physics, Update, TypeOK
  <2> QED
    BY <1>0, <1>3, <2>2 DEF Physics, LoopStep, TypeOK, PositionInv, wireVars
<1>4. CASE SendPacket
  <2>1. current \in Sessions /\ session[current] \in ClientSessionType
    BY <1>4 DEF SendPacket, LoopStep, TypeOK, PositionInv
  <2>2. /\ session' \in [Sessions -> ClientSessionType]
        /\ packet' \in [Sessions -> 0 .. SequenceModulus - 1]
        /\ failedSends' \in [Sessions -> 0 .. MaxFailedSends]
    <3>1. CASE UNCHANGED <<session, wireVars>>
      BY <3>1 DEF TypeOK, wireVars
    <3>2. ASSUME Update(current, TakeSequenceId(session[current])),
                 SendTo(current, TakeSequenceId(session[current]).nextSequenceId)
          PROVE  /\ session' \in [Sessions -> ClientSessionType]
                 /\ packet' \in [Sessions -> 0 .. SequenceModulus - 1]
                 /\ failedSends' \in [Sessions -> 0 .. MaxFailedSends]
      BY <2>1, <3>2, TakeSequenceIdType, StreamingAssumption DEF SendTo, Update, TypeOK
    <3> QED
      BY <1>4, <3>1, <3>2 DEF SendPacket
  <2> QED
    BY <1>0, <1>4, <2>2 DEF SendPacket, LoopStep, TypeOK, PositionInv
<1> QED
  BY <1>1, <1>2, <1>3, <1>4 DEF Act

\* So does the control input worker.
LEMMA InputTypes ==
  ASSUME TypeOK, PositionInv, InputWorker
  PROVE  TypeOK' /\ PositionInv'
<1>0. UNCHANGED <<mainPc, sessions, workerPc, lag, loopVars, inputIsRunning, inputs, packet,
                  failedSends, ahead>>
  BY DEF InputWorker, wireVars
<1>1. CASE InputLoop \/ Receive \/ FindSession
  BY <1>0, <1>1 DEF InputLoop, Receive, FindSession, InputStep, TypeOK, PositionInv, loopVars
<1>2. CASE Apply
  <2>1. /\ input \in [sender : Sessions \union Others, entityId : Sessions,
                      sequenceId : 1 .. MaxInputs, control : ControlValues]
        /\ MaxInputs \in Nat /\ ControlValues \subseteq Int
    BY <1>2, StreamingAssumption DEF Apply, InputStep, TypeOK, PositionInv
  <2>2. /\ input.entityId \in Sessions /\ session[input.entityId] \in ClientSessionType
        /\ input.sequenceId \in Nat /\ input.sequenceId \in 0 .. MaxInputs
        /\ input.control \in Int
    <3>1. input.entityId \in Sessions /\ input.sequenceId \in 1 .. MaxInputs /\ input.control \in Int
      BY <2>1
    <3> QED
      BY <2>1, <3>1 DEF TypeOK
  <2>3. /\ session' \in [Sessions -> ClientSessionType]
        /\ newest' \in [Sessions -> 0 .. MaxInputs]
        /\ inputSinceStop' \in [Sessions -> BOOLEAN]
    BY <1>2, <2>2, ApplyType DEF Apply, Update, TypeOK
  <2> QED
    BY <1>0, <1>2, <2>3 DEF Apply, InputStep, TypeOK, PositionInv, loopVars
<1> QED
  BY <1>1, <1>2 DEF InputWorker

\* So do main, the clock, and a client: it numbers its inputs from 1.
LEMMA OutsideTypes ==
  ASSUME TypeOK, PositionInv,
         \/ Main \/ Clock
         \/ \E c \in Sessions \union Others, entityId \in Sessions, control \in ControlValues :
              SendControlInput(c, entityId, control)
  PROVE  TypeOK' /\ PositionInv'
<1>1. CASE Main
  <2>1. /\ mainPc' \in {"running", "joinInput", "stopStreaming", "joinStreaming", "stopped"}
        /\ isRunning' \in BOOLEAN /\ inputIsRunning' \in BOOLEAN
    BY <1>1 DEF Main, MainStep, TypeOK
  <2> QED
    BY <1>1, <2>1 DEF Main, TypeOK, PositionInv, sessionVars, historyVars, wireVars
<1>2. CASE Clock
  <2>1. lag' \in -1 .. MaxLag /\ (lag \in Nat => lag' \in Nat)
    BY <1>2, StreamingAssumption DEF Clock, TypeOK
  <2> QED
    BY <1>2, <2>1 DEF Clock, TypeOK, PositionInv, sessionVars, loopVars, inputVars, historyVars,
       wireVars
<1>3. ASSUME NEW c \in Sessions \union Others, NEW entityId \in Sessions,
             NEW control \in ControlValues, SendControlInput(c, entityId, control)
      PROVE  TypeOK' /\ PositionInv'
  <2> DEFINE own == { p \in inputs : p.sender = c }
  <2>1. IsFiniteSet(inputs) /\ IsFiniteSet(own)
    BY FS_Subset DEF PositionInv
  <2>2. Cardinality(own) \in Nat /\ Cardinality(own) <= Cardinality(inputs)
        /\ Cardinality(inputs) \in Nat
    BY <2>1, FS_Subset, FS_CardinalityType
  <2>3. Sent(c) + 1 \in 1 .. MaxInputs
    BY <1>3, <2>2, StreamingAssumption DEF Sent, SendControlInput
  <2>4. IsFiniteSet(inputs')
    BY <1>3, <2>1, FS_AddElement DEF SendControlInput
  <2>5. inputs' \subseteq [sender : Sessions \union Others, entityId : Sessions,
                           sequenceId : 1 .. MaxInputs, control : ControlValues]
    BY <1>3, <2>3 DEF SendControlInput, TypeOK
  <2>6. inputs \subseteq inputs'
    BY <1>3 DEF SendControlInput
  <2> QED
    BY <1>3, <2>4, <2>5, <2>6 DEF SendControlInput, TypeOK, PositionInv, sessionVars, loopVars,
       inputVars, historyVars, wireVars
<1> QED
  BY <1>1, <1>2, <1>3

\* Every step keeps the types.
LEMMA TypeStep == TypeOK /\ PositionInv /\ [Next]_vars => TypeOK' /\ PositionInv'
<1>1. ASSUME TypeOK, PositionInv, Next
      PROVE  TypeOK' /\ PositionInv'
  BY <1>1, ControlWorkerTypes, IterateTypes, ActTypes, InputTypes, OutsideTypes
     DEF Next, StreamingWorker
<1>2. CASE UNCHANGED vars
  BY <1>2 DEF vars, TypeOK, PositionInv, sessionVars, loopVars, inputVars, historyVars, wireVars
<1> QED
  BY <1>1, <1>2

-----------------------------------------------------------------------------
(* Control inputs *)

\* A command may make the control neutral, and takes no input.
LEMMA CommandInputs ==
  ASSUME TypeOK, NEW s \in Sessions, ControlWorker(s)
  PROVE  /\ session' = [session EXCEPT ![s] = session'[s]]
         /\ session'[s].lastAppliedControlInputSequenceId = session[s].lastAppliedControlInputSequenceId
         /\ session'[s].control \in {session[s].control, 0}
<1>0. session \in [Sessions -> ClientSessionType] /\ session[s] \in ClientSessionType
  BY DEF TypeOK
<1>1. CASE CommandPlay(s)
  BY <1>0, <1>1 DEF CommandPlay, Update, Play, ClientSessionType
<1>2. CASE CommandOther(s)
  BY <1>0, <1>2 DEF CommandOther, Update, Pause, Reset, SetRate, ClientSessionType
<1>3. CASE CommandStop(s)
  BY <1>0, <1>3, ZenonT(60) DEF CommandStop, Update, StopState, StopSequence, StopEntity, ClientSessionType
<1>4. CASE Leave(s)
  BY <1>0, <1>4 DEF Leave, Update, StopSession, ClientSessionType
<1> QED
  BY <1>1, <1>2, <1>3, <1>4 DEF ControlWorker

\* Neither does the streaming worker, which leaves the control alone.
LEMMA StreamingInputs ==
  ASSUME TypeOK, PositionInv, StreamingWorker
  PROVE  \A s \in Sessions :
           /\ session'[s].lastAppliedControlInputSequenceId =
                session[s].lastAppliedControlInputSequenceId
           /\ session'[s].control = session[s].control
           /\ session'[s].state = session[s].state
<1>1. CASE Iterate \/ WaitForNextTick \/ WakeUp
  BY <1>1 DEF Iterate, WaitForNextTick, WakeUp
<1>2. CASE Physics
  BY <1>2 DEF Physics, Update, StepPhysics, TypeOK, ClientSessionType
<1>3. CASE SendPacket
  BY <1>3 DEF SendPacket, Update, TakeSequenceId, TypeOK, ClientSessionType
<1> QED
  BY <1>1, <1>2, <1>3 DEF StreamingWorker, Act

\* What the input worker does to the session it has found.
LEMMA ApplyEffect ==
  ASSUME TypeOK, PositionInv, NewestInputWins, Apply
  PROVE  \E s \in Sessions :
           /\ input \in inputs /\ input.entityId = s /\ input.sender = s
           /\ session' = [session EXCEPT ![s] = session'[s]]
           /\ IF input.sequenceId > newest[s]
              THEN /\ newest' = [newest EXCEPT ![s] = input.sequenceId]
                   /\ inputSinceStop' = [inputSinceStop EXCEPT ![s] = TRUE]
                   /\ session'[s] = [session[s] EXCEPT
                        !.lastAppliedControlInputSequenceId = input.sequenceId,
                        !.control = Clamp(input.control, -ControlLimit, ControlLimit)]
              ELSE UNCHANGED <<newest, session>> /\ inputSinceStop' = inputSinceStop
<1> DEFINE s == input.entityId
<1>1. /\ input \in inputs /\ input.sender = s
      /\ input \in [sender : Sessions \union Others, entityId : Sessions,
                    sequenceId : 1 .. MaxInputs, control : ControlValues]
  BY DEF Apply, InputStep, TypeOK, PositionInv
<1>2. /\ s \in Sessions /\ input.sequenceId \in Nat /\ newest[s] \in Nat
      /\ session[s].lastAppliedControlInputSequenceId = newest[s]
      /\ session[s] \in ClientSessionType
  <2>1. s \in Sessions /\ input.sequenceId \in 1 .. MaxInputs /\ MaxInputs \in Nat
    BY <1>1, StreamingAssumption
  <2> QED
    BY <2>1 DEF TypeOK, NewestInputWins
<1>3. session' = [session EXCEPT ![s] = session'[s]]
  BY <1>2 DEF Apply, Update, TypeOK
<1>4. CASE input.sequenceId > newest[s]
  <2>1. session'[s] = [session[s] EXCEPT
          !.lastAppliedControlInputSequenceId = input.sequenceId,
          !.control = Clamp(input.control, -ControlLimit, ControlLimit)]
    <3>1. ~(input.sequenceId <= session[s].lastAppliedControlInputSequenceId)
      BY <1>2, <1>4
    <3>2. session'[s] = ApplyControlInput(session[s], input.sequenceId, input.control)
      BY <1>2 DEF Apply, Update, TypeOK
    <3> QED
      BY <3>1, <3>2, Zenon DEF ApplyControlInput
  <2> QED
    BY <1>1, <1>2, <1>3, <1>4, <2>1 DEF Apply, TypeOK
<1>5. CASE ~(input.sequenceId > newest[s])
  <2>1. UNCHANGED session
    BY <1>2, <1>5 DEF Apply, Update, ApplyControlInput, TypeOK
  <2>2. inputSinceStop' = inputSinceStop
    BY <1>2, <1>5 DEF Apply, TypeOK
  <2> QED
    BY <1>1, <1>2, <1>3, <1>5, <2>1, <2>2 DEF Apply
<1> QED
  BY <1>2, <1>4, <1>5

\* Who may write what is about inputs.
LEMMA InputStepInv ==
  ASSUME TypeOK, PositionInv, NewestInputWins, ControlIsOwn, [Next]_vars
  PROVE  NewestInputWins' /\ ControlIsOwn'
<1>1. ASSUME NEW s \in Sessions, ControlWorker(s)
      PROVE  NewestInputWins' /\ ControlIsOwn'
  <2>1. UNCHANGED <<inputs, newest>>
    BY <1>1 DEF ControlWorker
  <2> QED
    BY <1>1, <2>1, CommandInputs DEF NewestInputWins, ControlIsOwn, TypeOK
<1>2. CASE StreamingWorker
  BY <1>2, StreamingInputs DEF StreamingWorker, NewestInputWins, ControlIsOwn
<1>3. CASE InputWorker /\ Apply
  <2>1. UNCHANGED inputs
    BY <1>3 DEF InputWorker
  <2>2. PICK s \in Sessions :
           /\ input \in inputs /\ input.entityId = s /\ input.sender = s
           /\ session' = [session EXCEPT ![s] = session'[s]]
           /\ IF input.sequenceId > newest[s]
              THEN /\ newest' = [newest EXCEPT ![s] = input.sequenceId]
                   /\ session'[s] = [session[s] EXCEPT
                        !.lastAppliedControlInputSequenceId = input.sequenceId,
                        !.control = Clamp(input.control, -ControlLimit, ControlLimit)]
              ELSE UNCHANGED <<newest, session>>
    BY <1>3, ApplyEffect
  <2>3. CASE input.sequenceId > newest[s]
    <3>1. /\ newest'[s] = input.sequenceId
          /\ session'[s].lastAppliedControlInputSequenceId = input.sequenceId
          /\ session'[s].control = Clamp(input.control, -ControlLimit, ControlLimit)
          /\ \A o \in Sessions \ {s} : session'[o] = session[o] /\ newest'[o] = newest[o]
      BY <2>2, <2>3, ZenonT(60) DEF TypeOK, ClientSessionType
    <3> QED
      BY <2>1, <2>2, <3>1 DEF NewestInputWins, ControlIsOwn
  <2> QED
    BY <2>1, <2>2, <2>3 DEF NewestInputWins, ControlIsOwn
<1>4. CASE InputWorker /\ ~Apply
  BY <1>4 DEF InputWorker, InputLoop, Receive, FindSession, NewestInputWins, ControlIsOwn
<1>5. CASE Main \/ Clock \/ UNCHANGED vars
  BY <1>5 DEF Main, Clock, vars, sessionVars, historyVars, NewestInputWins, ControlIsOwn
<1>6. ASSUME NEW c \in Sessions \union Others, NEW entityId \in Sessions,
             NEW control \in ControlValues, SendControlInput(c, entityId, control)
      PROVE  NewestInputWins' /\ ControlIsOwn'
  <2>1. inputs \subseteq inputs' /\ UNCHANGED <<session, newest>>
    BY <1>6 DEF SendControlInput, sessionVars, historyVars
  <2> QED
    BY <2>1 DEF NewestInputWins, ControlIsOwn
<1> QED
  BY <1>1, <1>2, <1>3, <1>4, <1>5, <1>6 DEF Next

-----------------------------------------------------------------------------
(* Stop and the sequence of ids *)

\* What a command does to the state and the counter, by the position it leads to.
LEMMA CommandEffect ==
  ASSUME TypeOK, NEW s \in Sessions, ControlWorker(s)
  PROVE  /\ \A o \in Sessions \ {s} : session'[o] = session[o] /\ workerPc'[o] = workerPc[o]
         /\ session'[s].nextSequenceId \in {session[s].nextSequenceId, 0}
         /\ session'[s].state = "Stopped" /\ workerPc'[s] \in {"stopEntity", "serving"} =>
              \/ session'[s].nextSequenceId = 0
              \/ session[s].state = "Stopped" /\ workerPc[s] \in {"stopEntity", "serving"}
         /\ session'[s].state = "Stopped" /\ workerPc'[s] = "serving" =>
              \/ ~session'[s].moved /\ session'[s].control = 0
              \/ /\ session[s].state = "Stopped" /\ workerPc[s] = "serving"
                 /\ session'[s].moved = session[s].moved
                 /\ session'[s].control = session[s].control
                 /\ inputSinceStop'[s] = inputSinceStop[s]
         /\ \A o \in Sessions \ {s} : inputSinceStop'[o] = inputSinceStop[o]
<1>0. /\ session \in [Sessions -> ClientSessionType] /\ session[s] \in ClientSessionType
      /\ workerPc \in [Sessions -> {"serving", "stopSequence", "stopEntity", "leaving", "done"}]
      /\ inputSinceStop \in [Sessions -> BOOLEAN]
  BY DEF TypeOK
<1>1. CASE CommandPlay(s)
  BY <1>0, <1>1 DEF CommandPlay, WorkerStep, Update, Play, ClientSessionType, SessionStates
<1>2. CASE CommandOther(s)
  BY <1>0, <1>2 DEF CommandOther, WorkerStep, Update, Pause, Reset, SetRate, ClientSessionType
<1>3. CASE CommandStop(s)
  <2>1. CASE WorkerStep(s, "serving", "stopSequence")
    BY <1>0, <1>3, <2>1 DEF CommandStop, WorkerStep, Update, StopState, ClientSessionType
  <2>2. CASE WorkerStep(s, "stopSequence", "stopEntity")
    BY <1>0, <1>3, <2>2 DEF CommandStop, WorkerStep, Update, StopSequence, ClientSessionType
  <2>3. CASE WorkerStep(s, "stopEntity", "serving")
    <3>1. /\ workerPc[s] = "stopEntity"
          /\ session' = [session EXCEPT ![s] = StopEntity(session[s])]
          /\ workerPc' = [workerPc EXCEPT ![s] = "serving"]
          /\ inputSinceStop' = [inputSinceStop EXCEPT ![s] = FALSE]
      BY <1>0, <1>3, <2>3 DEF CommandStop, WorkerStep, Update
    <3>2. /\ session'[s].nextSequenceId = session[s].nextSequenceId
          /\ session'[s].state = session[s].state
          /\ ~session'[s].moved /\ session'[s].control = 0
      BY <1>0, <3>1 DEF StopEntity, ClientSessionType
    <3> QED
      BY <1>0, <3>1, <3>2
  <2> QED
    BY <1>3, <2>1, <2>2, <2>3 DEF CommandStop
<1>4. CASE Leave(s)
  BY <1>0, <1>4 DEF Leave, WorkerStep, Update, StopSession, ClientSessionType
<1> QED
  BY <1>1, <1>2, <1>3, <1>4 DEF ControlWorker

\* A packet takes the next id, a physics step none.
LEMMA StreamingEffect ==
  ASSUME TypeOK, PositionInv, StreamingWorker
  PROVE  \/ /\ pc = "send" /\ pc' # "send" /\ current \in Sessions
            /\ session' = [session EXCEPT ![current].nextSequenceId = (@ + 1) % SequenceModulus]
            /\ SendTo(current, (session[current].nextSequenceId + 1) % SequenceModulus)
         \/ /\ UNCHANGED wireVars
            /\ \A s \in Sessions :
                 /\ session'[s].nextSequenceId = session[s].nextSequenceId
                 /\ pc' = "send" /\ current' = s =>
                      (pc = "send" /\ current = s) \/ session[s].state = "Playing"
<1>1. CASE Iterate
  BY <1>1 DEF Iterate, StreamingLoop, TakeSnapshot, PhysicsDone, CollectDone, RecipientsDone,
     PhysicsCheck, Collect, RecipientCheck, EnterIfPlaying, At, NextIteration, LoopStep
<1>2. CASE WaitForNextTick \/ WakeUp
  BY <1>2 DEF WaitForNextTick, WakeUp, LoopStep
<1>3. CASE Physics
  BY <1>3 DEF Physics, LoopStep, Update, StepPhysics, TypeOK, ClientSessionType
<1>4. CASE SendPacket
  <2>1. current \in Sessions /\ session[current] \in ClientSessionType /\ pc = "send"
    BY <1>4 DEF SendPacket, LoopStep, TypeOK, PositionInv
  <2> QED
    BY <1>4, <2>1 DEF SendPacket, LoopStep, Update, TakeSequenceId, TypeOK, ClientSessionType
<1> QED
  BY <1>1, <1>2, <1>3, <1>4 DEF StreamingWorker, Act

\* The input worker leaves the state and the counter alone.
LEMMA InputEffect ==
  ASSUME TypeOK, PositionInv, NewestInputWins, InputWorker
  PROVE  \A s \in Sessions :
           /\ session'[s].state = session[s].state
           /\ session'[s].moved = session[s].moved
           /\ session'[s].nextSequenceId = session[s].nextSequenceId
           /\ inputSinceStop'[s] \/ ( inputSinceStop'[s] = inputSinceStop[s]
                                      /\ session'[s].control = session[s].control )
<1>1. CASE Apply
  <2>1. PICK s \in Sessions :
           /\ session' = [session EXCEPT ![s] = session'[s]]
           /\ IF input.sequenceId > newest[s]
              THEN /\ inputSinceStop' = [inputSinceStop EXCEPT ![s] = TRUE]
                   /\ session'[s] = [session[s] EXCEPT
                        !.lastAppliedControlInputSequenceId = input.sequenceId,
                        !.control = Clamp(input.control, -ControlLimit, ControlLimit)]
              ELSE UNCHANGED session /\ inputSinceStop' = inputSinceStop
    BY <1>1, ApplyEffect
  <2>2. /\ session \in [Sessions -> ClientSessionType] /\ session[s] \in ClientSessionType
        /\ inputSinceStop \in [Sessions -> BOOLEAN]
    BY DEF TypeOK
  <2>3. \A o \in Sessions \ {s} : session'[o] = session[o]
    BY <2>1, <2>2
  <2>4. CASE input.sequenceId > newest[s]
    BY <2>1, <2>2, <2>3, <2>4, ZenonT(60) DEF ClientSessionType
  <2>5. CASE ~(input.sequenceId > newest[s])
    BY <2>1, <2>5
  <2> QED
    BY <2>4, <2>5
<1>2. CASE ~Apply
  BY <1>2 DEF InputWorker, InputLoop, Receive, FindSession
<1> QED
  BY <1>1, <1>2

\* A send takes the next id, and it is sent or has failed.
LEMMA SendIds ==
  ASSUME TypeOK, PacketInv, NEW s \in Sessions,
         SendTo(s, (session[s].nextSequenceId + 1) % SequenceModulus)
  PROVE  /\ \A o \in Sessions \ {s} : packet'[o] = packet[o] /\ failedSends'[o] = failedSends[o]
         /\ (packet'[s] + failedSends'[s]) % SequenceModulus =
              (session[s].nextSequenceId + 1) % SequenceModulus
         /\ packet'[s] \in {packet[s], (packet[s] + failedSends[s] + 1) % SequenceModulus}
<1>0. /\ packet \in [Sessions -> 0 .. SequenceModulus - 1] /\ packet[s] \in Nat
      /\ failedSends \in [Sessions -> 0 .. MaxFailedSends] /\ failedSends[s] \in Nat
      /\ packet[s] + failedSends[s] \in Nat
      /\ SequenceModulus \in Nat \ {0}
  BY SequenceModulusAssumption, StreamingAssumption DEF TypeOK
<1>1. (session[s].nextSequenceId + 1) % SequenceModulus =
        (packet[s] + failedSends[s] + 1) % SequenceModulus
  BY <1>0, NextModulo DEF PacketInv
<1>2. CASE /\ packet' = [packet EXCEPT ![s] = (session[s].nextSequenceId + 1) % SequenceModulus]
           /\ failedSends' = [failedSends EXCEPT ![s] = 0]
  <2>1. (((packet[s] + failedSends[s] + 1) % SequenceModulus) + 0) % SequenceModulus =
          (packet[s] + failedSends[s] + 1) % SequenceModulus
    BY <1>0, RemainderOfItself
  <2> QED
    BY <1>0, <1>1, <1>2, <2>1
<1>3. CASE /\ failedSends' = [failedSends EXCEPT ![s] = @ + 1]
           /\ UNCHANGED packet
  <2>1. packet[s] + (failedSends[s] + 1) = packet[s] + failedSends[s] + 1
    BY <1>0
  <2> QED
    BY <1>0, <1>1, <1>3, <2>1
<1> QED
  BY <1>2, <1>3 DEF SendTo

\* The counter runs on with the sends.
LEMMA PacketStep ==
  ASSUME TypeOK, PositionInv, NewestInputWins, PacketInv, [Next]_vars
  PROVE  PacketInv'
<1>1. ASSUME NEW s \in Sessions, ControlWorker(s)
      PROVE  PacketInv'
  <2>1. (0 + 0) % SequenceModulus = 0
    BY SequenceModulusAssumption
  <2> QED
    BY <1>1, <2>1, CommandIds DEF PacketInv, Restart, wireVars, TypeOK
<1>2. CASE StreamingWorker
  <2>1. CASE /\ current \in Sessions
             /\ session' = [session EXCEPT ![current].nextSequenceId = (@ + 1) % SequenceModulus]
             /\ SendTo(current, (session[current].nextSequenceId + 1) % SequenceModulus)
    <3>1. session'[current].nextSequenceId = (session[current].nextSequenceId + 1) % SequenceModulus
      BY <2>1 DEF TypeOK, ClientSessionType
    <3>2. \A s \in Sessions \ {current} : session'[s] = session[s]
      BY <2>1 DEF TypeOK
    <3> QED
      BY <2>1, <3>1, <3>2, SendIds DEF PacketInv
  <2>2. CASE /\ UNCHANGED wireVars
             /\ \A s \in Sessions : session'[s].nextSequenceId = session[s].nextSequenceId
    BY <2>2 DEF PacketInv, wireVars
  <2> QED
    BY <1>2, <2>1, <2>2, StreamingEffect
<1>3. CASE InputWorker
  BY <1>3, InputEffect DEF PacketInv, InputWorker, wireVars
<1>4. CASE \/ Main \/ Clock \/ UNCHANGED vars
           \/ \E c \in Sessions \union Others, entityId \in Sessions, control \in ControlValues :
                SendControlInput(c, entityId, control)
  BY <1>4 DEF Main, Clock, SendControlInput, vars, sessionVars, historyVars, wireVars, PacketInv
<1> QED
  BY <1>1, <1>2, <1>3, <1>4 DEF Next

\* A stopped sequence is used up by one packet at most.
LEMMA RestartStep ==
  ASSUME TypeOK, PositionInv, NewestInputWins, RestartInv, [Next]_vars
  PROVE  RestartInv'
<1>1. ASSUME NEW s \in Sessions, ControlWorker(s)
      PROVE  RestartInv'
  <2>1. UNCHANGED <<pc, current>>
    BY <1>1 DEF ControlWorker, loopVars
  <2>2. ASSUME NEW o \in Sessions, o # s
        PROVE  session'[o] = session[o] /\ workerPc'[o] = workerPc[o]
    BY <1>1, <2>2, CommandEffect
  <2> QED
    BY <1>1, <2>1, <2>2, CommandEffect DEF RestartInv
<1>2. CASE StreamingWorker
  <2>0. /\ UNCHANGED workerPc
        /\ \A s \in Sessions : session'[s].state = session[s].state
    BY <1>2, StreamingInputs DEF StreamingWorker
  <2>1. CASE /\ pc = "send" /\ pc' # "send" /\ current \in Sessions
             /\ session' = [session EXCEPT ![current].nextSequenceId = (@ + 1) % SequenceModulus]
    <3>1. (0 + 1) % SequenceModulus = 1
      BY SequenceModulusAssumption
    <3>2. session'[current].nextSequenceId = (session[current].nextSequenceId + 1) % SequenceModulus
      BY <2>1 DEF TypeOK, ClientSessionType
    <3>3. \A s \in Sessions \ {current} : session'[s] = session[s]
      BY <2>1 DEF TypeOK
    <3> QED
      BY <2>0, <2>1, <3>1, <3>2, <3>3 DEF RestartInv
  <2>2. CASE \A s \in Sessions :
               /\ session'[s].nextSequenceId = session[s].nextSequenceId
               /\ pc' = "send" /\ current' = s =>
                    (pc = "send" /\ current = s) \/ session[s].state = "Playing"
    BY <2>0, <2>2 DEF RestartInv
  <2> QED
    BY <1>2, <2>1, <2>2, StreamingEffect
<1>3. CASE InputWorker
  <2>1. UNCHANGED <<workerPc, pc, current>>
    BY <1>3 DEF InputWorker, loopVars
  <2> QED
    BY <1>3, <2>1, InputEffect DEF RestartInv
<1>4. CASE \/ Main \/ Clock \/ UNCHANGED vars
           \/ \E c \in Sessions \union Others, entityId \in Sessions, control \in ControlValues :
                SendControlInput(c, entityId, control)
  BY <1>4 DEF Main, Clock, SendControlInput, vars, sessionVars, loopVars, RestartInv
<1> QED
  BY <1>1, <1>2, <1>3, <1>4 DEF Next

\* A stopped entity with neutral controls is not moved by a late physics step.
LEMMA RestStep ==
  ASSUME TypeOK, PositionInv, NewestInputWins, RestInv, [Next]_vars
  PROVE  RestInv'
<1>1. ASSUME NEW s \in Sessions, ControlWorker(s)
      PROVE  RestInv'
  <2>1. ASSUME NEW o \in Sessions, o # s
        PROVE  /\ session'[o] = session[o] /\ workerPc'[o] = workerPc[o]
               /\ inputSinceStop'[o] = inputSinceStop[o]
    BY <1>1, <2>1, CommandEffect
  <2>2. session'[s].state = "Stopped" /\ workerPc'[s] = "serving" =>
          \/ ~session'[s].moved /\ session'[s].control = 0
          \/ /\ session[s].state = "Stopped" /\ workerPc[s] = "serving"
             /\ session'[s].moved = session[s].moved
             /\ session'[s].control = session[s].control
             /\ inputSinceStop'[s] = inputSinceStop[s]
    BY <1>1, CommandEffect
  <2> QED
    BY <2>1, <2>2 DEF RestInv
<1>2. CASE StreamingWorker
  <2>1. /\ UNCHANGED <<workerPc, inputSinceStop>>
        /\ \A s \in Sessions : session'[s].state = session[s].state
        /\ \A s \in Sessions : session'[s].control = session[s].control
    BY <1>2, StreamingInputs DEF StreamingWorker
  <2>2. \A s \in Sessions : session[s].control = 0 => session'[s].moved = session[s].moved
    <3>1. CASE Iterate \/ WaitForNextTick \/ WakeUp
      BY <3>1 DEF Iterate, WaitForNextTick, WakeUp
    <3>2. CASE Physics
      BY <3>2 DEF Physics, Update, StepPhysics, TypeOK, ClientSessionType
    <3>3. CASE SendPacket
      BY <3>3 DEF SendPacket, Update, TakeSequenceId, TypeOK, ClientSessionType
    <3> QED
      BY <1>2, <3>1, <3>2, <3>3 DEF StreamingWorker, Act
  <2> QED
    BY <2>1, <2>2 DEF RestInv
<1>3. CASE InputWorker
  <2>1. UNCHANGED workerPc
    BY <1>3 DEF InputWorker
  <2> QED
    BY <1>3, <2>1, InputEffect DEF RestInv
<1>4. CASE \/ Main \/ Clock \/ UNCHANGED vars
           \/ \E c \in Sessions \union Others, entityId \in Sessions, control \in ControlValues :
                SendControlInput(c, entityId, control)
  BY <1>4 DEF Main, Clock, SendControlInput, vars, sessionVars, historyVars, RestInv
<1> QED
  BY <1>1, <1>2, <1>3, <1>4 DEF Next

-----------------------------------------------------------------------------
(* The simulation and the clock *)

\* A command makes an entity play only from the present.
LEMMA CommandPace ==
  ASSUME TypeOK, NEW s \in Sessions, ControlWorker(s)
  PROVE  /\ sessions' \subseteq sessions
         /\ \A o \in Sessions : session'[o].state = "Playing" =>
              (session[o].state = "Playing" /\ ahead'[o] = ahead[o]) \/ ahead'[o] = 0
<1>0. /\ session \in [Sessions -> ClientSessionType] /\ session[s] \in ClientSessionType
      /\ ahead \in [Sessions -> Int]
  BY DEF TypeOK
<1>1. CASE CommandPlay(s)
  BY <1>0, <1>1 DEF CommandPlay, Update
<1>2. CASE CommandOther(s)
  BY <1>0, <1>2 DEF CommandOther, Update, Pause, Reset, SetRate, ClientSessionType
<1>3. CASE CommandStop(s)
  <2>1. UNCHANGED <<sessions, ahead>>
    BY <1>3 DEF CommandStop
  <2>2. PICK cs \in {StopState(session[s]), StopSequence(session[s]), StopEntity(session[s])} :
          session' = [session EXCEPT ![s] = cs]
    BY <1>3 DEF CommandStop, Update
  <2>3. cs.state \in {session[s].state, "Stopped"}
    BY <1>0 DEF StopState, StopSequence, StopEntity, ClientSessionType
  <2> QED
    BY <1>0, <2>1, <2>2, <2>3
<1>4. CASE Leave(s)
  BY <1>0, <1>4 DEF Leave, Update, StopSession, ClientSessionType
<1> QED
  BY <1>1, <1>2, <1>3, <1>4 DEF ControlWorker

\* The timer and a physics step keep the sum of what was done and what is owed.
LEMMA ActPace ==
  ASSUME TypeOK, PositionInv, PaceInv, StreamingWorker, Act
  PROVE  PaceInv'
<1>0. /\ elapsedTicks \in 1 .. MaxLag + 1 /\ MaxLag \in Nat
      /\ ahead \in [Sessions -> Int] /\ sessions \subseteq Sessions
      /\ UNCHANGED <<todo, sessions>>
      /\ \A s \in Sessions : session'[s].state = session[s].state
  BY StreamingAssumption, StreamingInputs DEF TypeOK, StreamingWorker, Act
<1>1. CASE WaitForNextTick
  BY <1>0, <1>1 DEF WaitForNextTick, LoopStep, PaceInv, Owes
<1>2. CASE WakeUp
  <2>1. /\ pc = "sleep" /\ pc' = "snapshot" /\ UNCHANGED elapsedTicks
        /\ \A s \in sessions :
             session[s].state = "Playing" => ahead'[s] = ahead[s] - elapsedTicks
    BY <1>0, <1>2 DEF WakeUp, LoopStep
  <2>2. \A s \in sessions : Owes(s)' /\ ~Owes(s)
    BY <1>0, <2>1 DEF Owes
  <2>3. ASSUME NEW s \in sessions, session[s].state = "Playing"
        PROVE  ahead'[s] + elapsedTicks \in 0 .. MaxLag + 1
    <3>1. ahead[s] + 0 \in 0 .. MaxLag + 1
      BY <2>2, <2>3 DEF PaceInv
    <3> QED
      BY <1>0, <2>1, <2>3, <3>1
  <2> QED
    BY <1>0, <2>1, <2>2, <2>3 DEF PaceInv
<1>3. CASE Physics
  <2>1. /\ pc = "step" /\ pc' = "physics" /\ current \in Sessions /\ current \notin todo
        /\ ahead' = [ahead EXCEPT ![current] = @ + elapsedTicks]
        /\ UNCHANGED elapsedTicks
    BY <1>3 DEF Physics, LoopStep, PositionInv, PaceInv
  <2>2. ASSUME NEW s \in sessions, session[s].state = "Playing"
        PROVE  (ahead'[s] + (IF Owes(s)' THEN elapsedTicks ELSE 0)) \in 0 .. MaxLag + 1
    <3>1. (ahead[s] + (IF Owes(s) THEN elapsedTicks ELSE 0)) \in 0 .. MaxLag + 1
      BY <2>2 DEF PaceInv
    <3>2. CASE s = current
      <4>1. Owes(s) /\ ~Owes(s)' /\ ahead'[s] = ahead[s] + elapsedTicks
        BY <1>0, <2>1, <3>2 DEF Owes
      <4> QED
        BY <1>0, <3>1, <4>1
    <3>3. CASE s # current
      <4>1. (Owes(s) <=> Owes(s)') /\ ahead'[s] = ahead[s]
        BY <1>0, <2>1, <3>3 DEF Owes
      <4> QED
        BY <3>1, <4>1
    <3> QED
      BY <3>2, <3>3
  <2> QED
    BY <1>0, <2>1, <2>2 DEF PaceInv
<1>4. CASE SendPacket
  BY <1>0, <1>4 DEF SendPacket, LoopStep, PaceInv, Owes
<1> QED
  BY <1>1, <1>2, <1>3, <1>4 DEF Act

\* So do the loops: an entity that is skipped does not play.
LEMMA IteratePace ==
  ASSUME TypeOK, PositionInv, PaceInv, StreamingWorker, Iterate
  PROVE  PaceInv'
<1>0. UNCHANGED <<sessions, session, elapsedTicks, ahead>>
  BY DEF StreamingWorker, Iterate
<1>1. SUFFICES /\ \A s \in sessions : session[s].state = "Playing" => (Owes(s)' <=> Owes(s))
               /\ pc' = "step" => current' \notin todo'
  BY <1>0 DEF PaceInv
<1>2. CASE StreamingLoop \/ TakeSnapshot \/ PhysicsDone \/ CollectDone \/ RecipientsDone
  BY <1>2 DEF StreamingLoop, TakeSnapshot, PhysicsDone, CollectDone, RecipientsDone,
     NextIteration, LoopStep, Owes
<1>3. ASSUME NEW s \in Sessions, PhysicsCheck(s) \/ Collect(s) \/ RecipientCheck(s)
      PROVE  /\ \A o \in sessions : session[o].state = "Playing" => (Owes(o)' <=> Owes(o))
             /\ pc' = "step" => current' \notin todo'
  BY <1>3 DEF PhysicsCheck, Collect, RecipientCheck, EnterIfPlaying, At, LoopStep, Owes
<1> QED
  BY <1>2, <1>3 DEF Iterate

\* Every step keeps the pace.
LEMMA PaceStep ==
  ASSUME TypeOK, PositionInv, NewestInputWins, PaceInv, [Next]_vars
  PROVE  PaceInv'
<1>0. elapsedTicks \in 1 .. MaxLag + 1 /\ MaxLag \in Nat /\ sessions \subseteq Sessions
  BY StreamingAssumption DEF TypeOK
<1>1. ASSUME NEW s \in Sessions, ControlWorker(s)
      PROVE  PaceInv'
  <2>1. UNCHANGED <<pc, todo, current, elapsedTicks>>
    BY <1>1 DEF ControlWorker, loopVars
  <2>2. \A o \in sessions : Owes(o)' <=> Owes(o)
    BY <2>1 DEF Owes
  <2> QED
    BY <1>0, <1>1, <2>1, <2>2, CommandPace DEF PaceInv
<1>2. CASE StreamingWorker
  BY <1>2, ActPace, IteratePace DEF StreamingWorker
<1>3. CASE InputWorker
  <2>1. /\ UNCHANGED <<sessions, pc, todo, current, elapsedTicks, ahead>>
        /\ \A s \in Sessions : session'[s].state = session[s].state
    BY <1>3, InputEffect DEF InputWorker, loopVars
  <2> QED
    BY <1>0, <2>1 DEF PaceInv, Owes
<1>4. CASE \/ Main \/ Clock \/ UNCHANGED vars
           \/ \E c \in Sessions \union Others, entityId \in Sessions, control \in ControlValues :
                SendControlInput(c, entityId, control)
  <2>1. UNCHANGED <<sessions, session, pc, todo, current, elapsedTicks, ahead>>
    BY <1>4 DEF Main, Clock, SendControlInput, vars, sessionVars, loopVars, historyVars
  <2> QED
    BY <2>1 DEF PaceInv, Owes
<1> QED
  BY <1>1, <1>2, <1>3, <1>4 DEF Next

-----------------------------------------------------------------------------
(* The inductive invariant, and the theorems *)

\* The workers start with nothing sent, taken or owed.
LEMMA StreamingInit == Init => StreamingInv
<1> SUFFICES ASSUME Init PROVE StreamingInv
  OBVIOUS
<1>1. /\ RegisteredSession.nextSequenceId = 0 /\ ~RegisteredSession.moved
      /\ RegisteredSession.control = 0 /\ RegisteredSession.state = "Stopped"
      /\ RegisteredSession.lastAppliedControlInputSequenceId = 0
  BY DEF RegisteredSession, RegisterUdpEndpoint, NewClientSession
<1>2. (0 + 0) % SequenceModulus = 0
  BY SequenceModulusAssumption
<1>3. NewestInputWins /\ ControlIsOwn /\ PacketInv /\ RestartInv /\ RestInv /\ PaceInv
  BY <1>1, <1>2 DEF Init, NewestInputWins, ControlIsOwn, PacketInv, RestartInv, RestInv, PaceInv
<1> QED
  BY <1>3, TypeInit DEF StreamingInv

\* Every step keeps the invariant.
LEMMA StreamingStep == StreamingInv /\ [Next]_vars => StreamingInv'
  BY TypeStep, InputStepInv, PacketStep, RestartStep, RestStep, PaceStep DEF StreamingInv

\* The invariant holds in every reachable state.
LEMMA Invariance == Spec => []StreamingInv
  BY StreamingInit, StreamingStep, PTL DEF Spec

\* The workers, the timer and the sessions keep their types.
THEOREM TypeCorrect == Spec => []TypeOK
  BY Invariance, PTL DEF StreamingInv

\* Whatever is reordered, repeated or sent for another session, an entity is driven by the
\* newest of the inputs its session was given, and by its own client.
THEOREM OwnControlDrives == Spec => []ControlIsOwn
  BY Invariance, PTL DEF StreamingInv

\* After a Stop at most one id is used up by a packet that was already on its way out.
THEOREM SequenceRestarts == Spec => []StoppedSequenceRestarts
<1>1. StreamingInv => StoppedSequenceRestarts
  BY DEF StreamingInv, TypeOK, RestartInv, StoppedSequenceRestarts
<1> QED
  BY <1>1, Invariance, PTL

\* After a Stop nothing but a later input moves the entity away from the origin.
THEOREM StoppedRests == Spec => []StoppedStaysAtOrigin
<1>1. StreamingInv => StoppedStaysAtOrigin
  BY DEF StreamingInv, TypeOK, RestInv, StoppedStaysAtOrigin
<1> QED
  BY <1>1, Invariance, PTL

\* However late the worker is, an entity that plays has been stepped for every tick.
THEOREM KeepsUp == Spec => []SimulationKeepsUp
<1>1. StreamingInv => SimulationKeepsUp
  BY DEF StreamingInv, TypeOK, PaceInv, Owes, SimulationKeepsUp
<1> QED
  BY <1>1, Invariance, PTL

\* A recipient's ids have the gaps of the network and of the sends that failed, and no other.
THEOREM NoOtherGaps == Spec => GapsAreFailedSends
<1> DEFINE Accounted(s) ==
      packet'[s] # packet[s] =>
        \/ packet'[s] = (packet[s] + failedSends[s] + 1) % SequenceModulus
        \/ packet'[s] = 0 /\ UNCHANGED pc
<1>1. ASSUME StreamingInv, [Next]_vars, NEW s \in Sessions
      PROVE  Accounted(s)
  <2>1. ASSUME NEW o \in Sessions, ControlWorker(o)
        PROVE  Accounted(s)
    <3>1. UNCHANGED pc /\ (Restart(o) \/ UNCHANGED wireVars)
      BY <1>1, <2>1, CommandIds DEF ControlWorker, loopVars, StreamingInv
    <3> QED
      BY <1>1, <3>1 DEF Restart, wireVars, StreamingInv, TypeOK
  <2>2. CASE StreamingWorker
    <3>1. CASE /\ current \in Sessions
               /\ SendTo(current, (session[current].nextSequenceId + 1) % SequenceModulus)
      BY <1>1, <3>1, SendIds DEF StreamingInv
    <3>2. CASE UNCHANGED wireVars
      BY <3>2 DEF wireVars
    <3> QED
      BY <1>1, <2>2, <3>1, <3>2, StreamingEffect DEF StreamingInv
  <2>3. CASE Main \/ InputWorker \/ Clock \/ UNCHANGED vars
    BY <2>3 DEF Main, InputWorker, Clock, vars, historyVars, wireVars
  <2>4. CASE \E c \in Sessions \union Others, entityId \in Sessions, control \in ControlValues :
               SendControlInput(c, entityId, control)
    BY <2>4 DEF SendControlInput, historyVars, wireVars
  <2> QED
    BY <1>1, <2>1, <2>2, <2>3, <2>4 DEF Next
<1>2. StreamingInv /\ [Next]_vars => [\A s \in Sessions : Accounted(s)]_vars
  BY <1>1
<1> QED
  BY <1>2, Invariance, PTL DEF Spec, GapsAreFailedSends

-----------------------------------------------------------------------------
(* Progress: what PlayingIsServed and ShutdownReturns rest on besides the      *)
(* scheduler and the clock.  Of the three threads only the streaming worker    *)
(* ever waits for anything, which is the time of its next tick; every step     *)
(* takes its thread further along a course of finitely many positions.         *)

\* What lies ahead of the streaming worker in an iteration.
LoopAhead ==
  [loop |-> 9, wait |-> 8, sleep |-> 7, snapshot |-> 6, physics |-> 5, step |-> 5,
   collect |-> 4, recipients |-> 3, send |-> 3, done |-> 0]

InBody == pc \in {"step", "send"}

\* The worker is nearer to the end of its course, or of its list, or of the loop's body.
GoesOn(before, after) ==
  \/ after < before
  \/ after = before /\ todo' \subseteq todo /\ todo' # todo
  \/ after = before /\ todo' = todo /\ InBody /\ ~InBody'

Clients ==
  \/ \E s \in Sessions : ControlWorker(s)
  \/ \E c \in Sessions \union Others, entityId \in Sessions, control \in ControlValues :
       SendControlInput(c, entityId, control)

Steady(s) == s \in sessions /\ session[s].state = "Playing" /\ session[s].dataRate = 60

\* The current iteration, if it has got that far, will come to s with a packet.
Due(s) ==
  \/ pc \in {"loop", "wait", "sleep", "snapshot"}
  \/ pc \in {"physics", "step"} /\ s \in snapshot
  \/ pc = "collect" /\ s \in snapshot /\ (s \in todo \/ entries # {})
  \/ pc \in {"recipients", "send"} /\ s \in todo
  \/ pc = "send" /\ current = s

\* Whom the iteration has missed is served in the next.
Distance(s) == LoopAhead[pc] + (IF Due(s) THEN 0 ELSE 9)

TurnStep ==
  \A s \in Sessions :
    Steady(s) /\ isRunning /\ ~SentTo(s) =>
      \/ GoesOn(Distance(s), Distance(s)')
      \/ /\ UNCHANGED <<pc, snapshot, todo, current, entries>>
         /\ Main \/ InputWorker \/ Clock \/ Clients

\* As long as a recipient plays at 60 Hz, every step of the streaming worker brings it
\* nearer to its next packet, the step that sends it excepted, and no step of another
\* thread takes it further away: it is passed over once at most, by the iteration that
\* its Play came into the middle of.
TurnComes == [][TurnStep]_vars

\* Once isRunning_ is false the loop's head is its end.
AheadAtStop(p) == IF p = "loop" THEN 1 ELSE LoopAhead[p]

InputAhead == [receive |-> 4, lookup |-> 3, apply |-> 2, loop |-> 1, done |-> 0]

MainAhead ==
  [running |-> 4, joinInput |-> 3, stopStreaming |-> 2, joinStreaming |-> 1, stopped |-> 0]

MainOn == mainPc' = mainPc \/ MainAhead[mainPc'] < MainAhead[mainPc]

InputOn == inputPc' = inputPc \/ InputAhead[inputPc'] < InputAhead[inputPc]

ShutdownStep ==
  /\ MainOn /\ InputOn
  /\ mainPc = "joinStreaming" =>
       UNCHANGED <<pc, todo>> \/ GoesOn(AheadAtStop(pc), AheadAtStop(pc'))
  /\ UNCHANGED <<mainPc, inputPc, pc, todo>> => Clock \/ Clients

\* main's shutdown only goes forwards, and each thread that it joins has been told before:
\* the receiver takes at most the input it is at, the streaming worker at most finishes its
\* iteration, and neither begins another.
ShutdownRunsDown == [][mainPc # "running" => ShutdownStep]_vars

\* The workers are told to end before they are joined, and whoever streams has an endpoint.
CourseInv ==
  /\ mainPc # "running" => ~inputIsRunning
  /\ mainPc = "joinStreaming" => ~isRunning
  /\ \A s \in Sessions : HasUdpEndpoint(session[s])

\* The courses, position by position.
LEMMA StreamingCourse ==
  /\ LoopAhead["loop"] = 9 /\ LoopAhead["wait"] = 8 /\ LoopAhead["sleep"] = 7
  /\ LoopAhead["snapshot"] = 6 /\ LoopAhead["physics"] = 5 /\ LoopAhead["step"] = 5
  /\ LoopAhead["collect"] = 4 /\ LoopAhead["recipients"] = 3 /\ LoopAhead["send"] = 3
  /\ LoopAhead["done"] = 0
  /\ InputAhead["receive"] = 4 /\ InputAhead["lookup"] = 3 /\ InputAhead["apply"] = 2
  /\ InputAhead["loop"] = 1 /\ InputAhead["done"] = 0
  /\ MainAhead["running"] = 4 /\ MainAhead["joinInput"] = 3 /\ MainAhead["stopStreaming"] = 2
  /\ MainAhead["joinStreaming"] = 1 /\ MainAhead["stopped"] = 0
  BY DEF LoopAhead, InputAhead, MainAhead

\* No thread takes a session's endpoint away.
LEMMA EndpointStays ==
  ASSUME TypeOK, PositionInv, NewestInputWins, [Next]_vars
  PROVE  \A s \in Sessions : session'[s].udpPort = session[s].udpPort
<1>0. session \in [Sessions -> ClientSessionType]
  BY DEF TypeOK
<1>1. ASSUME NEW s \in Sessions, ControlWorker(s)
      PROVE  \A o \in Sessions : session'[o].udpPort = session[o].udpPort
  <2>0. session[s] \in ClientSessionType
    BY <1>0
  <2>1. CASE CommandPlay(s)
    BY <1>0, <2>0, <2>1 DEF CommandPlay, Update, Play, ClientSessionType
  <2>2. CASE CommandOther(s)
    BY <1>0, <2>0, <2>2 DEF CommandOther, Update, Pause, Reset, SetRate, ClientSessionType
  <2>3. CASE CommandStop(s)
    <3>1. session'[s] \in {StopState(session[s]), StopSequence(session[s]), StopEntity(session[s])}
          /\ \A o \in Sessions \ {s} : session'[o] = session[o]
      BY <1>0, <2>3, ZenonT(60) DEF CommandStop, Update
    <3> QED
      BY <2>0, <3>1 DEF StopState, StopSequence, StopEntity, ClientSessionType
  <2>4. CASE Leave(s)
    BY <1>0, <2>0, <2>4 DEF Leave, Update, StopSession, ClientSessionType
  <2> QED
    BY <1>1, <2>1, <2>2, <2>3, <2>4 DEF ControlWorker
<1>2. CASE StreamingWorker
  <2>1. CASE Iterate \/ WaitForNextTick \/ WakeUp
    BY <2>1 DEF Iterate, WaitForNextTick, WakeUp
  <2>2. CASE Physics
    BY <1>0, <2>2 DEF Physics, LoopStep, Update, StepPhysics, PositionInv, ClientSessionType
  <2>3. CASE SendPacket
    BY <1>0, <2>3 DEF SendPacket, LoopStep, Update, TakeSequenceId, PositionInv, ClientSessionType
  <2> QED
    BY <1>2, <2>1, <2>2, <2>3 DEF StreamingWorker, Act
<1>3. CASE InputWorker
  <2>1. CASE Apply
    <3>1. session' = [session EXCEPT ![input.entityId] =
            ApplyControlInput(session[input.entityId], input.sequenceId, input.control)]
      BY <2>1 DEF Apply, Update
    <3>2. \A cs \in ClientSessionType : \A n, v : ApplyControlInput(cs, n, v).udpPort = cs.udpPort
      BY DEF ApplyControlInput, ClientSessionType
    <3> QED
      BY <1>0, <3>1, <3>2
  <2> QED
    BY <1>3, <2>1 DEF InputWorker, InputLoop, Receive, FindSession
<1>4. CASE Main \/ Clock \/ UNCHANGED vars
  BY <1>4 DEF Main, Clock, vars, sessionVars
<1>5. CASE \E c \in Sessions \union Others, entityId \in Sessions, control \in ControlValues :
             SendControlInput(c, entityId, control)
  BY <1>5 DEF SendControlInput, sessionVars
<1> QED
  BY <1>1, <1>2, <1>3, <1>4, <1>5 DEF Next

\* main's own steps: it tells a worker, and then joins it.
LEMMA MainCourse ==
  ASSUME TypeOK, CourseInv, Main
  PROVE  /\ mainPc' # "running" => ~inputIsRunning'
         /\ mainPc' = "joinStreaming" => ~isRunning'
         /\ UNCHANGED <<pc, todo, inputPc>>
         /\ MainAhead[mainPc'] < MainAhead[mainPc]
<1>1. UNCHANGED <<pc, todo, inputPc>>
  BY DEF Main
<1>2. CASE MainStep("running", "joinInput") /\ inputIsRunning' = FALSE
  BY <1>1, <1>2, StreamingCourse DEF MainStep
<1>3. CASE MainStep("joinInput", "stopStreaming") /\ UNCHANGED inputIsRunning
  BY <1>1, <1>3, StreamingCourse DEF MainStep, CourseInv
<1>4. CASE /\ MainStep("stopStreaming", "joinStreaming")
           /\ isRunning' = FALSE /\ UNCHANGED inputIsRunning
  BY <1>1, <1>4, StreamingCourse DEF MainStep, CourseInv
<1>5. CASE MainStep("joinStreaming", "stopped") /\ UNCHANGED inputIsRunning
  BY <1>1, <1>5, StreamingCourse DEF MainStep, CourseInv
<1> QED
  BY <1>2, <1>3, <1>4, <1>5, Zenon DEF Main

\* The other threads leave main and its orders alone.
LEMMA OthersCourse ==
  ASSUME StreamingWorker \/ InputWorker \/ Clock \/ Clients \/ UNCHANGED vars
  PROVE  UNCHANGED <<mainPc, isRunning, inputIsRunning>>
<1>1. CASE StreamingWorker
  BY <1>1 DEF StreamingWorker, inputVars
<1>2. CASE InputWorker
  BY <1>2 DEF InputWorker, loopVars
<1>3. CASE Clock \/ UNCHANGED vars
  BY <1>3 DEF Clock, vars, loopVars, inputVars
<1>4. CASE Clients
  BY <1>4 DEF Clients, ControlWorker, SendControlInput, loopVars, inputVars
<1> QED
  BY <1>1, <1>2, <1>3, <1>4

\* The workers are told in time.
LEMMA CourseStep ==
  ASSUME TypeOK, PositionInv, NewestInputWins, CourseInv, [Next]_vars
  PROVE  CourseInv'
<1>1. \A s \in Sessions : HasUdpEndpoint(session[s])'
  BY EndpointStays DEF CourseInv, HasUdpEndpoint
<1>2. CASE Main
  BY <1>1, <1>2, MainCourse DEF CourseInv
<1>3. CASE StreamingWorker \/ InputWorker \/ Clock \/ Clients \/ UNCHANGED vars
  BY <1>1, <1>3, OthersCourse DEF CourseInv
<1> QED
  BY <1>2, <1>3 DEF Next, Clients

\* The workers run, and everybody has registered, to begin with.
LEMMA CourseInvariance == Spec => [](StreamingInv /\ CourseInv)
<1>1. Init => CourseInv
  <2>1. HasUdpEndpoint(RegisteredSession)
    BY DEF HasUdpEndpoint, RegisteredSession, RegisterUdpEndpoint, NewClientSession, NoPort
  <2> QED
    BY <2>1 DEF Init, CourseInv
<1>2. StreamingInv /\ CourseInv /\ [Next]_vars => CourseInv'
  BY CourseStep DEF StreamingInv
<1> QED
  BY <1>1, <1>2, Invariance, PTL DEF Spec

\* What a step of the worker's loops does for a session that is to be served.
LEMMA IterateGoesOn ==
  ASSUME TypeOK, StreamingWorker, Iterate
  PROVE  /\ ~isRunning => GoesOn(AheadAtStop(pc), AheadAtStop(pc'))
         /\ \A s \in Sessions :
              Steady(s) /\ isRunning /\ ~SentTo(s) => GoesOn(Distance(s), Distance(s)')
<1>0. /\ todo \subseteq snapshot
      /\ UNCHANGED session
  BY DEF TypeOK, Iterate
<1>1. CASE StreamingLoop
  <2>1. pc = "loop" /\ pc' = (IF isRunning THEN "wait" ELSE "done")
    BY <1>1 DEF StreamingLoop, LoopStep
  <2> QED
    BY <2>1, StreamingCourse DEF GoesOn, AheadAtStop, Distance, Due
<1>2. CASE TakeSnapshot
  <2>1. pc = "snapshot" /\ pc' = "physics" /\ snapshot' = sessions
    BY <1>2 DEF TakeSnapshot, LoopStep
  <2> QED
    BY <2>1, StreamingCourse DEF GoesOn, AheadAtStop, Distance, Due, Steady
<1>3. CASE PhysicsDone
  <2>1. /\ pc = "physics" /\ pc' = "collect"
        /\ todo' = snapshot /\ snapshot' = snapshot
    BY <1>3 DEF PhysicsDone, LoopStep
  <2> QED
    BY <2>1, StreamingCourse DEF GoesOn, AheadAtStop, Distance, Due
<1>4. CASE CollectDone
  <2>1. CASE entries = {} /\ NextIteration("collect")
    BY <1>4, <2>1, StreamingCourse
       DEF CollectDone, NextIteration, LoopStep, GoesOn, AheadAtStop, Distance, Due
  <2>2. CASE entries # {} /\ LoopStep("collect", "recipients") /\ todo' = snapshot
    BY <1>4, <2>2, StreamingCourse DEF LoopStep, GoesOn, AheadAtStop, Distance, Due
  <2> QED
    BY <1>4, <2>1, <2>2 DEF CollectDone
<1>5. CASE RecipientsDone
  <2>1. pc = "recipients" /\ pc' = "loop" /\ todo = {}
    BY <1>5 DEF RecipientsDone, NextIteration, LoopStep
  <2> QED
    BY <2>1, StreamingCourse DEF GoesOn, AheadAtStop, Distance, Due
<1>6. ASSUME NEW o \in Sessions, PhysicsCheck(o)
      PROVE  /\ GoesOn(AheadAtStop(pc), AheadAtStop(pc'))
             /\ \A s \in Sessions : GoesOn(Distance(s), Distance(s)')
  <2>1. /\ pc = "physics" /\ pc' \in {"physics", "step"} /\ snapshot' = snapshot
        /\ o \in todo /\ todo' = todo \ {o}
    BY <1>6 DEF PhysicsCheck, EnterIfPlaying, At, LoopStep
  <2> QED
    BY <2>1, StreamingCourse DEF GoesOn, AheadAtStop, Distance, Due
<1>7. ASSUME NEW o \in Sessions, Collect(o)
      PROVE  /\ GoesOn(AheadAtStop(pc), AheadAtStop(pc'))
             /\ \A s \in Sessions : Steady(s) => GoesOn(Distance(s), Distance(s)')
  <2>1. /\ pc = "collect" /\ pc' = "collect" /\ snapshot' = snapshot
        /\ o \in todo /\ todo' = todo \ {o}
        /\ entries' = IF session[o].state = "Playing" THEN entries \union {o} ELSE entries
    BY <1>7 DEF Collect, At, LoopStep
  <2>2. \A s \in Sessions : Steady(s) /\ Due(s) => Due(s)'
    BY <1>0, <2>1 DEF Due, Steady
  <2>3. todo' \subseteq todo /\ todo' # todo
    BY <2>1
  <2> QED
    BY <2>1, <2>2, <2>3, StreamingCourse DEF GoesOn, AheadAtStop, Distance
<1>8. ASSUME NEW o \in Sessions, RecipientCheck(o)
      PROVE  /\ GoesOn(AheadAtStop(pc), AheadAtStop(pc'))
             /\ \A s \in Sessions : Steady(s) => GoesOn(Distance(s), Distance(s)')
  <2>1. /\ pc = "recipients" /\ pc' \in {"recipients", "send"}
        /\ session[o].state = "Playing" => pc' = "send" /\ current' = o
        /\ pc' = "send" => current' = o
        /\ o \in todo /\ todo' = todo \ {o}
    BY <1>8 DEF RecipientCheck, EnterIfPlaying, At, LoopStep
  <2>2. \A s \in Sessions : Steady(s) => (Due(s)' <=> Due(s))
    BY <2>1 DEF Due, Steady
  <2>3. todo' \subseteq todo /\ todo' # todo
    BY <2>1
  <2> QED
    BY <2>1, <2>2, <2>3, StreamingCourse DEF GoesOn, AheadAtStop, Distance
<1> QED
  BY <1>1, <1>2, <1>3, <1>4, <1>5, <1>6, <1>7, <1>8 DEF Iterate

\* So do the timer, a physics step and a packet.
LEMMA ActGoesOn ==
  ASSUME TypeOK, CourseInv, StreamingWorker, Act
  PROVE  /\ GoesOn(AheadAtStop(pc), AheadAtStop(pc'))
         /\ \A s \in Sessions :
              Steady(s) /\ isRunning /\ ~SentTo(s) => GoesOn(Distance(s), Distance(s)')
<1>0. UNCHANGED <<snapshot, todo, entries>>
  BY DEF Act
<1>1. CASE WaitForNextTick
  BY <1>0, <1>1, StreamingCourse
     DEF WaitForNextTick, LoopStep, GoesOn, AheadAtStop, Distance, Due
<1>2. CASE WakeUp
  BY <1>0, <1>2, StreamingCourse DEF WakeUp, LoopStep, GoesOn, AheadAtStop, Distance, Due
<1>3. CASE Physics
  <2>1. pc = "step" /\ pc' = "physics"
    BY <1>3 DEF Physics, LoopStep
  <2> QED
    BY <1>0, <2>1, StreamingCourse DEF GoesOn, AheadAtStop, Distance, Due, InBody
<1>4. CASE SendPacket
  <2>1. pc = "send" /\ pc' = "recipients"
    BY <1>4 DEF SendPacket, LoopStep
  <2>2. \A s \in Sessions : Steady(s) /\ ~SentTo(s) => current # s
    BY <2>1 DEF Steady, SentTo, IsDue, CourseInv
  <2>3. \A s \in Sessions : Steady(s) /\ ~SentTo(s) => (Due(s)' <=> Due(s))
    BY <1>0, <2>1, <2>2 DEF Due
  <2> QED
    BY <1>0, <2>1, <2>3, StreamingCourse DEF GoesOn, AheadAtStop, Distance, InBody
<1> QED
  BY <1>1, <1>2, <1>3, <1>4 DEF Act

\* The input worker's steps.
LEMMA InputGoesOn ==
  ASSUME InputWorker, ~inputIsRunning
  PROVE  UNCHANGED <<mainPc, pc, todo>> /\ InputAhead[inputPc'] < InputAhead[inputPc]
  BY StreamingCourse DEF InputWorker, InputLoop, Receive, FindSession, Apply, InputStep, loopVars

\* A recipient's turn always comes: no iteration passes over a session that plays all along,
\* whatever the commands, the inputs and the other sessions do in the meantime.
THEOREM EverybodysTurnComes == Spec => TurnComes
<1>1. ASSUME StreamingInv, CourseInv, Next  PROVE  TurnStep
  <2>1. CASE StreamingWorker
    BY <1>1, <2>1, IterateGoesOn, ActGoesOn DEF StreamingWorker, StreamingInv, TurnStep
  <2>2. CASE Main \/ InputWorker \/ Clock
    BY <2>2 DEF Main, InputWorker, Clock, loopVars, TurnStep
  <2>3. CASE Clients
    BY <2>3 DEF Clients, ControlWorker, SendControlInput, loopVars, TurnStep
  <2> QED
    BY <1>1, <2>1, <2>2, <2>3 DEF Next, Clients
<1>2. StreamingInv /\ CourseInv /\ [Next]_vars => [TurnStep]_vars
  BY <1>1
<1> QED
  BY <1>2, CourseInvariance, PTL DEF Spec, TurnComes

\* main's shutdown of the UDP plane (Server/Main.cpp) never begins an iteration or a receive
\* anew, so it has a fixed number of steps and list entries left.
THEOREM ShutdownGoesForwards == Spec => ShutdownRunsDown
<1>1. ASSUME StreamingInv, CourseInv, Next, mainPc # "running"
      PROVE  ShutdownStep
  <2>0. ~inputIsRunning /\ (mainPc = "joinStreaming" => ~isRunning) /\ TypeOK
    BY <1>1 DEF CourseInv, StreamingInv
  <2>1. CASE Main
    <3>1. UNCHANGED <<pc, todo, inputPc>> /\ MainAhead[mainPc'] < MainAhead[mainPc]
      BY <1>1, <2>0, <2>1, MainCourse
    <3>2. mainPc' # mainPc
      BY <2>1, Zenon DEF Main, MainStep
    <3> QED
      BY <3>1, <3>2 DEF ShutdownStep, MainOn, InputOn
  <2>2. CASE StreamingWorker
    <3>1. UNCHANGED <<mainPc, inputPc>>
      BY <2>2 DEF StreamingWorker, inputVars
    <3>2. mainPc = "joinStreaming" => GoesOn(AheadAtStop(pc), AheadAtStop(pc'))
      BY <1>1, <2>0, <2>2, IterateGoesOn, ActGoesOn DEF StreamingWorker
    <3>3. ~UNCHANGED <<pc, todo>>
      BY <2>2 DEF StreamingWorker, Iterate, Act, StreamingLoop, TakeSnapshot, PhysicsDone,
         CollectDone, RecipientsDone, PhysicsCheck, Collect, RecipientCheck, EnterIfPlaying, At,
         NextIteration, LoopStep, WaitForNextTick, WakeUp, Physics, SendPacket
    <3> QED
      BY <3>1, <3>2, <3>3 DEF ShutdownStep, MainOn, InputOn
  <2>3. CASE InputWorker
    BY <2>0, <2>3, InputGoesOn, StreamingCourse DEF ShutdownStep, MainOn, InputOn, TypeOK
  <2>4. CASE Clock \/ Clients
    <3>1. UNCHANGED <<mainPc, inputPc, pc, todo>>
      BY <2>4 DEF Clock, Clients, ControlWorker, SendControlInput, loopVars, inputVars
    <3> QED
      BY <2>4, <3>1 DEF ShutdownStep, MainOn, InputOn
  <2> QED
    BY <1>1, <2>1, <2>2, <2>3, <2>4 DEF Next, Clients
<1>2. StreamingInv /\ CourseInv /\ [Next]_vars => [mainPc # "running" => ShutdownStep]_vars
  BY <1>1
<1> QED
  BY <1>2, CourseInvariance, PTL DEF Spec, ShutdownRunsDown

=============================================================================
