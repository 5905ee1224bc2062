---------------------------- MODULE UdpStreaming ----------------------------
(***************************************************************************)
(* The UDP plane of the server: UdpStreamingService with its               *)
(* TimerCompensator, UdpControlInputReceiver, and main's shutdown of both. *)
(*                                                                         *)
(* Threads: main, the streaming worker, the control input worker, and the  *)
(* control worker of each session, whose commands change a ClientSession   *)
(* under the other two.  Sessions are those that have registered their     *)
(* endpoints; how they got there is ControlServer's subject.               *)
(*                                                                         *)
(* Time is counted in periods of the 60 Hz tick and relative to the timer: *)
(* "lag" is the number of whole periods that the clock is ahead of the     *)
(* tick last scheduled, -1 before that tick.                               *)
(***************************************************************************)
EXTENDS ClientSession, FiniteSets

CONSTANTS Sessions,
          Others,         \* clients of the server whose sessions are left out
          NoSession,      \* the streaming worker is at no session
          Commands,       \* what clients send: names of ClientSession's methods
          ControlValues,  \* values of control inputs
          MaxInputs,      \* bound on the control inputs sent
          MaxLag,         \* bound on the periods a worker is late
          MaxFailedSends, \* bound on the sends to one session that fail in a row
          OperatorStops   \* whether the operator may stop the server

ASSUME StreamingAssumption ==
  /\ IsFiniteSet(Sessions) /\ IsFiniteSet(Others)
  /\ NoSession \notin Sessions \union Others /\ Sessions \intersect Others = {}
  /\ Commands \subseteq {"Play", "Pause", "Stop", "Reset", "Hz30", "Hz60", "Leave"}
  /\ ControlValues \subseteq Int
  /\ MaxInputs \in Nat /\ MaxLag \in Nat /\ MaxFailedSends \in Nat
  /\ OperatorStops \in BOOLEAN

VARIABLES
  mainPc,
  sessions,        \* SessionManager::sessions_
  session,         \* the ClientSession objects
  workerPc,        \* control workers
  lag,             \* of the steady clock behind the timer's next tick
  isRunning,       \* UdpStreamingService::isRunning_
  pc,              \* the streaming worker
  elapsedTicks, tickCount, snapshot, todo, current, entries,  \* its local variables
  inputIsRunning,  \* UdpControlInputReceiver::isRunning_
  inputPc,         \* the control input worker
  input,           \* the packet it has received
  inputs,          \* every control input sent; one may arrive never, late, or twice
  \* History for the properties.
  packet,          \* the sequence id last sent to a session, 0 if none since its ids began
  failedSends,     \* the sends to it that failed since then
  ahead,           \* physics steps since Play, less the ticks since Play
  newest,          \* the highest id of the inputs a session has taken
  inputSinceStop   \* a session took an input after its last Stop

sessionVars == <<sessions, session, workerPc>>
loopVars    == <<isRunning, pc, elapsedTicks, tickCount, snapshot, todo, current, entries>>
inputVars   == <<inputIsRunning, inputPc, input>>
wireVars    == <<packet, failedSends>>
historyVars == <<wireVars, ahead, newest, inputSinceStop>>

vars == <<mainPc, sessionVars, lag, loopVars, inputVars, inputs, historyVars>>

\* Every client has an endpoint of its own; any positive port stands for it.
RegisteredSession == RegisterUdpEndpoint(NewClientSession, 1)

NoInput == [sender |-> NoSession, entityId |-> NoSession, sequenceId |-> 0, control |-> 0]

\* The inputs client c has sent; it numbers them from 1.
Sent(c) == Cardinality({ p \in inputs : p.sender = c })

Init ==
  /\ mainPc = "running"
  /\ sessions = Sessions
  /\ session = [s \in Sessions |-> RegisteredSession]
  /\ workerPc = [s \in Sessions |-> "serving"]
  /\ lag = 0
  /\ isRunning = TRUE /\ pc = "loop"
  /\ elapsedTicks = 1 /\ tickCount = 0 /\ snapshot = {} /\ todo = {} /\ current = NoSession
  /\ entries = {}
  /\ inputIsRunning = TRUE /\ inputPc = "loop" /\ input = NoInput
  /\ inputs = {}
  /\ packet = [s \in Sessions |-> 0]
  /\ failedSends = [s \in Sessions |-> 0]
  /\ ahead = [s \in Sessions |-> 0]
  /\ newest = [s \in Sessions |-> 0]
  /\ inputSinceStop = [s \in Sessions |-> FALSE]

-----------------------------------------------------------------------------
(* Control workers: what a command does to the session they share *)

WorkerStep(s, from, to) == workerPc[s] = from /\ workerPc' = [workerPc EXCEPT ![s] = to]

Update(s, cs) == session' = [session EXCEPT ![s] = cs]

\* The ids of s begin again.
Restart(s) == packet' = [packet EXCEPT ![s] = 0] /\ failedSends' = [failedSends EXCEPT ![s] = 0]

CommandPlay(s) ==
  /\ "Play" \in Commands
  /\ WorkerStep(s, "serving", "serving")
  /\ Update(s, Play(session[s]))
  /\ ahead' = IF session[s].state # "Playing" THEN [ahead EXCEPT ![s] = 0] ELSE ahead
  /\ UNCHANGED <<sessions, wireVars, inputSinceStop>>

\* One write: Pause, Reset or SetRate.
CommandOther(s) ==
  /\ WorkerStep(s, "serving", "serving")
  /\ \/ "Pause" \in Commands /\ Update(s, Pause(session[s])) /\ UNCHANGED wireVars
     \/ "Reset" \in Commands /\ Update(s, Reset(session[s])) /\ Restart(s)
     \/ "Hz30" \in Commands /\ Update(s, SetRate(session[s], 30)) /\ UNCHANGED wireVars
     \/ "Hz60" \in Commands /\ Update(s, SetRate(session[s], 60)) /\ UNCHANGED wireVars
  /\ UNCHANGED <<sessions, ahead, inputSinceStop>>

\* Mutant: the sequence is reset before the session is stopped.
CommandStop_SequenceFirst(s) ==
  /\ "Stop" \in Commands
  /\ \/ WorkerStep(s, "serving", "stopSequence") /\ Update(s, StopSequence(session[s]))
        /\ Restart(s) /\ UNCHANGED inputSinceStop
     \/ WorkerStep(s, "stopSequence", "stopEntity") /\ Update(s, StopState(session[s]))
        /\ UNCHANGED <<wireVars, inputSinceStop>>
     \/ WorkerStep(s, "stopEntity", "serving") /\ Update(s, StopEntity(session[s]))
        /\ UNCHANGED wireVars
        /\ inputSinceStop' = [inputSinceStop EXCEPT ![s] = FALSE]
  /\ UNCHANGED <<sessions, ahead>>

\* Stop: three writes, and other threads in between.
CommandStop(s) ==
  /\ "Stop" \in Commands
  /\ \/ WorkerStep(s, "serving", "stopSequence") /\ Update(s, StopState(session[s]))
        /\ UNCHANGED <<wireVars, inputSinceStop>>
     \/ WorkerStep(s, "stopSequence", "stopEntity") /\ Update(s, StopSequence(session[s]))
        /\ Restart(s) /\ UNCHANGED inputSinceStop
     \/ WorkerStep(s, "stopEntity", "serving") /\ Update(s, StopEntity(session[s]))
        /\ UNCHANGED wireVars
        /\ inputSinceStop' = [inputSinceStop EXCEPT ![s] = FALSE]
  /\ UNCHANGED <<sessions, ahead>>

\* The client is gone: RemoveSession, then StopSession.
Leave(s) ==
  /\ \/ /\ "Leave" \in Commands
        /\ WorkerStep(s, "serving", "leaving")
        /\ sessions' = sessions \ {s}
        /\ UNCHANGED session
     \/ /\ WorkerStep(s, "leaving", "done")
        /\ Update(s, StopSession(session[s]))
        /\ UNCHANGED sessions
  /\ UNCHANGED <<wireVars, ahead, inputSinceStop>>

ControlWorker(s) ==
  /\ CommandPlay(s) \/ CommandOther(s) \/ CommandStop(s) \/ Leave(s)
  /\ UNCHANGED <<mainPc, lag, loopVars, inputVars, inputs, newest>>

-----------------------------------------------------------------------------
(* UdpStreamingService::Worker *)

LoopStep(from, to) == pc = from /\ pc' = to

StreamingLoop ==
  /\ LoopStep("loop", IF isRunning THEN "wait" ELSE "done")
  /\ UNCHANGED <<snapshot, todo, current, entries>>

TakeSnapshot ==
  /\ LoopStep("snapshot", "physics")
  /\ snapshot' = sessions /\ todo' = sessions /\ entries' = {}
  /\ UNCHANGED current

\* The loops over the snapshot take its sessions in any order (an unordered_map's).
At(s) == s \in todo /\ todo' = todo \ {s}

\* At s the body of the loop is entered if s is playing.
EnterIfPlaying(s, from, to) ==
  \/ session[s].state = "Playing" /\ LoopStep(from, to) /\ current' = s
  \/ session[s].state # "Playing" /\ LoopStep(from, from) /\ UNCHANGED current

\* The end of an iteration is the end of its local variables.
NextIteration(from) ==
  LoopStep(from, "loop") /\ snapshot' = {} /\ entries' = {}

\* The state is read, and the entity locked only afterwards.
PhysicsCheck(s) ==
  /\ EnterIfPlaying(s, "physics", "step")
  /\ At(s)
  /\ UNCHANGED <<snapshot, entries>>

PhysicsDone ==
  /\ LoopStep("physics", "collect")
  /\ todo = {} /\ todo' = snapshot
  /\ UNCHANGED <<snapshot, current, entries>>

Collect(s) ==
  /\ LoopStep("collect", "collect")
  /\ At(s)
  /\ entries' = IF session[s].state = "Playing" THEN entries \union {s} ELSE entries
  /\ UNCHANGED <<snapshot, current>>

CollectDone ==
  /\ todo = {}
  /\ \/ entries = {} /\ NextIteration("collect") /\ UNCHANGED todo
     \/ /\ entries # {} /\ LoopStep("collect", "recipients") /\ todo' = snapshot
        /\ UNCHANGED <<snapshot, entries>>
  /\ UNCHANGED current

RecipientCheck(s) ==
  /\ EnterIfPlaying(s, "recipients", "send")
  /\ At(s)
  /\ UNCHANGED <<snapshot, entries>>

RecipientsDone ==
  /\ NextIteration("recipients")
  /\ todo = {}
  /\ UNCHANGED <<todo, current>>

\* What only moves the worker through its loops.
Iterate ==
  /\ \/ StreamingLoop \/ TakeSnapshot \/ PhysicsDone \/ CollectDone \/ RecipientsDone
     \/ \E s \in Sessions : PhysicsCheck(s) \/ Collect(s) \/ RecipientCheck(s)
  /\ UNCHANGED <<lag, session, elapsedTicks, tickCount, wireVars, ahead>>

\* Mutant: a tick that is due this very moment is waited for again.
WaitForNextTick_OffByOne ==
  /\ LoopStep("wait", "sleep")
  /\ elapsedTicks' = lag
  /\ lag' = -1
  /\ UNCHANGED <<session, tickCount, current, wireVars, ahead>>

\* The first tick after now: it counts every tick that was missed.
WaitForNextTick ==
  /\ LoopStep("wait", "sleep")
  /\ elapsedTicks' = lag + 1
  /\ lag' = -1
  /\ UNCHANGED <<session, tickCount, current, wireVars, ahead>>

\* sleep_until returns, late perhaps.  Only the parity of tickCount is ever used.
WakeUp ==
  /\ LoopStep("sleep", "snapshot")
  /\ lag >= 0
  /\ tickCount' = (tickCount + elapsedTicks) % 2
  /\ ahead' = [s \in Sessions |->
                 IF s \in sessions /\ session[s].state = "Playing"
                 THEN ahead[s] - elapsedTicks ELSE ahead[s]]
  /\ UNCHANGED <<lag, session, elapsedTicks, current, wireVars>>

\* Mutant: one step an iteration, however late it is.
Physics_OneStep ==
  /\ LoopStep("step", "physics")
  /\ Update(current, StepPhysics(session[current]))
  /\ ahead' = [ahead EXCEPT ![current] = @ + 1]
  /\ current' = NoSession
  /\ UNCHANGED <<lag, elapsedTicks, tickCount, wireVars>>

\* elapsedTicks steps in a row; to "moved" they are one.
Physics ==
  /\ LoopStep("step", "physics")
  /\ Update(current, StepPhysics(session[current]))
  /\ ahead' = [ahead EXCEPT ![current] = @ + elapsedTicks]
  /\ current' = NoSession
  /\ UNCHANGED <<lag, elapsedTicks, tickCount, wireVars>>

\* Mutant: every recipient skips the odd ticks.
IsDue_AnyRate(cs) == tickCount = 0 /\ HasUdpEndpoint(cs)

\* A recipient at 30 Hz skips the odd ticks.
IsDue(cs) == ~(cs.dataRate = 30 /\ tickCount # 0) /\ HasUdpEndpoint(cs)

\* SendTo takes the whole packet, or fails and is only reported: the id is gone.
SendTo(s, sequenceId) ==
  \/ /\ packet' = [packet EXCEPT ![s] = sequenceId]
     /\ failedSends' = [failedSends EXCEPT ![s] = 0]
  \/ /\ failedSends[s] < MaxFailedSends
     /\ failedSends' = [failedSends EXCEPT ![s] = @ + 1]
     /\ UNCHANGED packet

\* Mutant: the id is taken before the rate is looked at.
SendPacket_TakesFirst ==
  LET next == TakeSequenceId(session[current]) IN
  /\ LoopStep("send", "recipients")
  /\ Update(current, next)
  /\ IF IsDue(session[current]) THEN SendTo(current, next.nextSequenceId) ELSE UNCHANGED wireVars
  /\ current' = NoSession
  /\ UNCHANGED <<lag, elapsedTicks, tickCount, ahead>>

\* Taking the id and sending the packet are one step: what is sent after a Reset in between
\* is, to the other threads and to the client, a packet sent before it that comes late.
SendPacket ==
  LET next == TakeSequenceId(session[current]) IN
  /\ LoopStep("send", "recipients")
  /\ \/ /\ IsDue(session[current])
        /\ Update(current, next)
        /\ SendTo(current, next.nextSequenceId)
     \/ /\ ~IsDue(session[current])
        /\ UNCHANGED <<session, wireVars>>
  /\ current' = NoSession
  /\ UNCHANGED <<lag, elapsedTicks, tickCount, ahead>>

Act ==
  /\ WaitForNextTick \/ WakeUp \/ Physics \/ SendPacket
  /\ UNCHANGED <<snapshot, todo, entries>>

StreamingWorker ==
  /\ Iterate \/ Act
  /\ UNCHANGED <<mainPc, sessions, workerPc, isRunning, inputVars, inputs, newest, inputSinceStop>>

-----------------------------------------------------------------------------
(* UdpControlInputReceiver::ReceiveWorker *)

InputStep(from, to) == inputPc = from /\ inputPc' = to

InputLoop ==
  /\ InputStep("loop", IF inputIsRunning THEN "receive" ELSE "done")
  /\ UNCHANGED <<input, session, newest, inputSinceStop>>

\* Mutant: no SetReceiveTimeout.
Receive_NoTimeout ==
  /\ InputStep("receive", "lookup")
  /\ input' \in inputs
  /\ UNCHANGED <<session, newest, inputSinceStop>>

\* ReceiveFrom returns a packet, or nothing after its timeout.
Receive ==
  /\ \/ InputStep("receive", "lookup") /\ input' \in inputs
     \/ InputStep("receive", "loop") /\ UNCHANGED input
  /\ UNCHANGED <<session, newest, inputSinceStop>>

\* GetSession, and the comparison of the sender with the registered endpoint.
FindSession ==
  /\ \/ /\ InputStep("lookup", "apply")
        /\ input.entityId \in sessions /\ input.sender = input.entityId
        /\ UNCHANGED input
     \/ /\ InputStep("lookup", "loop")
        /\ input.entityId \notin sessions \/ input.sender # input.entityId
        /\ input' = NoInput
  /\ UNCHANGED <<session, newest, inputSinceStop>>

Apply ==
  LET s == input.entityId
      new == input.sequenceId > newest[s] IN
  /\ InputStep("apply", "loop")
  /\ Update(s, ApplyControlInput(session[s], input.sequenceId, input.control))
  /\ newest' = IF new THEN [newest EXCEPT ![s] = input.sequenceId] ELSE newest
  /\ inputSinceStop' = [inputSinceStop EXCEPT ![s] = @ \/ new]
  /\ input' = NoInput

InputWorker ==
  /\ InputLoop \/ Receive \/ FindSession \/ Apply
  /\ UNCHANGED <<mainPc, sessions, workerPc, lag, loopVars, inputIsRunning, inputs>>
  /\ UNCHANGED <<wireVars, ahead>>

-----------------------------------------------------------------------------
(* main: controlInputReceiver.Stop(), streamingService.Stop() *)

MainStep(from, to) == mainPc = from /\ mainPc' = to

Main ==
  /\ \/ OperatorStops /\ MainStep("running", "joinInput") /\ inputIsRunning' = FALSE
        /\ UNCHANGED isRunning
     \/ MainStep("joinInput", "stopStreaming") /\ inputPc = "done"
        /\ UNCHANGED <<inputIsRunning, isRunning>>
     \/ MainStep("stopStreaming", "joinStreaming") /\ isRunning' = FALSE
        /\ UNCHANGED inputIsRunning
     \/ MainStep("joinStreaming", "stopped") /\ pc = "done"
        /\ UNCHANGED <<inputIsRunning, isRunning>>
  /\ UNCHANGED <<sessionVars, lag, pc, elapsedTicks, tickCount, snapshot, todo, current, entries,
                 inputPc, input, inputs, historyVars>>

-----------------------------------------------------------------------------
\* UdpReceiver::SendControlInput of the client c, which may have learnt a wrong id
\* from its first Spawn.
SendControlInput(c, entityId, control) ==
  /\ Cardinality(inputs) < MaxInputs
  /\ inputs' = inputs \union
       {[sender |-> c, entityId |-> entityId, sequenceId |-> Sent(c) + 1, control |-> control]}
  /\ UNCHANGED <<mainPc, sessionVars, lag, loopVars, inputVars, historyVars>>

Clock ==
  /\ lag < MaxLag
  /\ lag' = lag + 1
  /\ UNCHANGED <<mainPc, sessionVars, loopVars, inputVars, inputs, historyVars>>

Next ==
  \/ Main \/ StreamingWorker \/ InputWorker \/ Clock
  \/ \E s \in Sessions : ControlWorker(s)
  \/ \E c \in Sessions \union Others, entityId \in Sessions, control \in ControlValues :
       SendControlInput(c, entityId, control)

Spec == Init /\ [][Next]_vars

\* Threads are scheduled, sleeps and receive timeouts end, time passes, and a command
\* that was begun is finished.  Which commands come, and when the operator stops, is open.
Fairness ==
  /\ WF_vars(StreamingWorker)
  /\ WF_vars(InputWorker /\ inputPc # "receive")
  /\ SF_vars(InputWorker /\ inputPc = "receive" /\ inputPc' = "loop")
  /\ WF_vars(Main /\ mainPc # "running")
  /\ WF_vars(Clock)
  /\ \A s \in Sessions : WF_vars(ControlWorker(s) /\ workerPc[s] # "serving")

FairSpec == Spec /\ Fairness

-----------------------------------------------------------------------------
(* Properties *)

\* Positions, the timer and the sessions have their types; the timer never schedules a
\* tick that is over (elapsedTicks is at least 1).
TypeOK ==
  /\ mainPc \in {"running", "joinInput", "stopStreaming", "joinStreaming", "stopped"}
  /\ sessions \subseteq Sessions
  /\ session \in [Sessions -> ClientSessionType]
  /\ workerPc \in [Sessions -> {"serving", "stopSequence", "stopEntity", "leaving", "done"}]
  /\ lag \in -1 .. MaxLag
  /\ isRunning \in BOOLEAN
  /\ pc \in {"loop", "wait", "sleep", "snapshot", "physics", "step", "collect", "recipients",
             "send", "done"}
  /\ elapsedTicks \in 1 .. MaxLag + 1
  /\ tickCount \in {0, 1}
  /\ snapshot \subseteq Sessions /\ todo \subseteq snapshot /\ entries \subseteq snapshot
  /\ current \in Sessions \union {NoSession}
  /\ inputIsRunning \in BOOLEAN
  /\ inputPc \in {"loop", "receive", "lookup", "apply", "done"}
  /\ input \in inputs \union {NoInput}
  /\ inputs \subseteq [sender : Sessions \union Others, entityId : Sessions,
                       sequenceId : 1 .. MaxInputs, control : ControlValues]
  /\ packet \in [Sessions -> 0 .. SequenceModulus - 1]
  /\ failedSends \in [Sessions -> 0 .. MaxFailedSends]
  /\ ahead \in [Sessions -> Int]
  /\ newest \in [Sessions -> 0 .. MaxInputs]
  /\ inputSinceStop \in [Sessions -> BOOLEAN]

\* The ids that a recipient never gets to see, and that its MetricsCollector counts as
\* lost, are those of packets the network lost and of sends that failed, one for each:
\* none goes to a skipped tick, a pause or a change of rate.  Only a Reset or a Stop makes
\* them begin again.
GapsAreFailedSends ==
  [][\A s \in Sessions :
       packet'[s] # packet[s] =>
         \/ packet'[s] = (packet[s] + failedSends[s] + 1) % SequenceModulus
         \/ packet'[s] = 0 /\ UNCHANGED pc]_vars

\* At the end of an iteration an entity that plays has been stepped at least once for
\* every tick since Play, however late the worker was, and was never stepped for more
\* than one late iteration that Play came into the middle of.
SimulationKeepsUp ==
  pc = "loop" =>
    \A s \in sessions : session[s].state = "Playing" => ahead[s] \in 0 .. MaxLag + 1

\* Once a Stop has been carried out the next stream starts from the beginning: a worker
\* that was past its check of the state uses up one id, and never a second.
StoppedSequenceRestarts ==
  \A s \in sessions :
    session[s].state = "Stopped" /\ workerPc[s] = "serving" => session[s].nextSequenceId \in {0, 1}

\* A stopped entity rests at the origin unless a control input came after the Stop: a
\* physics step that was already under way does not move it.
StoppedStaysAtOrigin ==
  \A s \in sessions :
    session[s].state = "Stopped" /\ workerPc[s] = "serving" /\ session[s].moved =>
      inputSinceStop[s]

\* The session numbers the inputs it has taken as its client did.
NewestInputWins ==
  \A s \in Sessions : session[s].lastAppliedControlInputSequenceId = newest[s]

\* What drives an entity is the newest of the inputs that its session was given, and its
\* own client sent it: inputs may be reordered and repeated, and some client may take
\* another session's id for its own.
ControlIsOwn ==
  \A s \in Sessions :
    session[s].control # 0 =>
      \E p \in inputs :
        /\ p.sender = s /\ p.entityId = s /\ p.sequenceId = newest[s]
        /\ Clamp(p.control, -ControlLimit, ControlLimit) = session[s].control

SentTo(s) == pc = "send" /\ current = s /\ IsDue(session[s])

\* A recipient that plays at 60 Hz is sent packets again and again; whether SendTo takes
\* them is not the worker's to say.
PlayingIsServed ==
  \A s \in Sessions :
    []<>(\/ SentTo(s)
         \/ s \notin sessions \/ session[s].state # "Playing" \/ session[s].dataRate # 60
         \/ ~isRunning)

\* main's shutdown of the UDP plane returns.
ShutdownReturns == (mainPc # "running") ~> (mainPc = "stopped")

=============================================================================
