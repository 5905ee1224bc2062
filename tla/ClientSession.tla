--------------------------- MODULE ClientSession ---------------------------
(***************************************************************************)
(* The state of one Server::ClientSession and its methods, as operators    *)
(* from a session record to a session record.  Each method is one critical *)
(* section or one atomic store of the code, so the modules that compose    *)
(* sessions with threads apply it in one step.                             *)
(*                                                                         *)
(* Data abstraction.  The pair (throttle_, yaw_) is one integer "control": *)
(* what matters is whether it is neutral (0) and that it is clamped.  The  *)
(* kinematic state (position, heading, speed, velocity) is one Boolean     *)
(* "moved": FALSE stands for the origin at rest, which is what Stop        *)
(* restores and what a physics step with neutral controls leaves alone.    *)
(* The socket itself and isControlConnectionClosed_ belong to the module   *)
(* that owns the connection.                                               *)
(***************************************************************************)
EXTENDS Integers

CONSTANT SequenceModulus  \* nextSequenceId_ is unsigned: 2^64 in the code

ASSUME SequenceModulusAssumption == SequenceModulus \in Nat \ {0, 1}

SessionStates == {"Stopped", "Playing", "Paused"}

DataRates == {30, 60}

NoPort == 0

ControlLimit == 1

Controls == -ControlLimit .. ControlLimit

ClientSessionType ==
  [ state          : SessionStates,
    dataRate       : DataRates,
    nextSequenceId : Nat,
    udpPort        : Nat,
    moved          : BOOLEAN,
    control        : Controls,
    lastAppliedControlInputSequenceId : Nat ]

NewClientSession ==
  [ state          |-> "Stopped",
    dataRate       |-> 30,
    nextSequenceId |-> 0,
    udpPort        |-> NoPort,
    moved          |-> FALSE,
    control        |-> 0,
    lastAppliedControlInputSequenceId |-> 0 ]

-----------------------------------------------------------------------------
(* Commands of the control channel *)

Play(cs) ==
  IF cs.state \in {"Stopped", "Paused"} THEN [cs EXCEPT !.state = "Playing"] ELSE cs

Pause(cs) ==
  IF cs.state = "Playing" THEN [cs EXCEPT !.state = "Paused"] ELSE cs

\* Stop is three separate writes in the code: state_, then nextSequenceId_,
\* then the entity under entityMutex_.
StopState(cs) == [cs EXCEPT !.state = "Stopped"]

StopSequence(cs) == [cs EXCEPT !.nextSequenceId = 0]

\* Mutant: the controls are kept.
StopEntity_KeepsControl(cs) == [cs EXCEPT !.moved = FALSE]

StopEntity(cs) == [cs EXCEPT !.moved = FALSE, !.control = 0]

Stop(cs) == StopEntity(StopSequence(StopState(cs)))

Reset(cs) == [cs EXCEPT !.nextSequenceId = 0]

SetRate(cs, hz) ==
  IF hz \in DataRates THEN [cs EXCEPT !.dataRate = hz] ELSE cs

RegisterUdpEndpoint(cs, port) == [cs EXCEPT !.udpPort = port]

\* The state part of StopSession; closing the socket is the caller's.
StopSession(cs) == [cs EXCEPT !.state = "Stopped"]

-----------------------------------------------------------------------------
(* Streaming and control input *)

HasUdpEndpoint(cs) == cs.udpPort # NoPort

\* GetNextSequenceId: fetch_add(1) + 1; the value sent is the new one.
TakeSequenceId(cs) == [cs EXCEPT !.nextSequenceId = (@ + 1) % SequenceModulus]

Clamp(value, low, high) ==
  IF value < low THEN low ELSE IF value > high THEN high ELSE value

\* Mutant: an input that was overtaken is applied.
ApplyControlInput_AnyOrder(cs, sequenceId, control) ==
  [cs EXCEPT !.lastAppliedControlInputSequenceId = sequenceId,
             !.control = Clamp(control, -ControlLimit, ControlLimit)]

ApplyControlInput(cs, sequenceId, control) ==
  IF sequenceId <= cs.lastAppliedControlInputSequenceId
  THEN cs
  ELSE [cs EXCEPT !.lastAppliedControlInputSequenceId = sequenceId,
                  !.control = Clamp(control, -ControlLimit, ControlLimit)]

\* With neutral controls an entity at rest at the origin stays there; any other
\* step leaves the origin (or may: an entity that has moved is not tracked).
StepPhysics(cs) == [cs EXCEPT !.moved = @ \/ cs.control # 0]
=============================================================================
