----------------------------- MODULE Membership -----------------------------
(***************************************************************************)
(* What the clients and the rest of the server may rely on of              *)
(* TcpControlServer with its SessionManager and its sessions: who is a     *)
(* member, who may stream, and who has been told of whom by the time a     *)
(* session counts as visible, or is removed.  Threads, queues, sockets and *)
(* the order in which a broadcast goes through its recipients are left     *)
(* out.                                                                    *)
(***************************************************************************)
CONSTANT Sessions

VARIABLES
  phase,      \* of the server: "off", "up", "stopping", "stopped"
  stage,      \* of each session, from "absent" to "gone", in one direction only
  streaming,  \* sessions that play or pause
  listening,  \* sessions whose client is still reached by what it is sent
  audience,   \* those a session announces itself to when it registers
  told,       \* the sessions each client was sent the Spawn of
  toldGone    \* and the Despawn of

vars == <<phase, stage, streaming, listening, audience, told, toldGone>>

Stages == {"absent", "joined", "registered", "visible", "leaving", "removed", "gone"}

Members == { s \in Sessions : stage[s] \in {"joined", "registered", "visible", "leaving"} }

Init ==
  /\ phase = "off"
  /\ stage = [s \in Sessions |-> "absent"]
  /\ streaming = {} /\ listening = {}
  /\ audience = [s \in Sessions |-> {}]
  /\ told = [s \in Sessions |-> {}] /\ toldGone = [s \in Sessions |-> {}]

-----------------------------------------------------------------------------
(* The server *)

Phase(from, to) ==
  /\ phase = from /\ phase' = to
  /\ UNCHANGED <<stage, streaming, listening, audience, told, toldGone>>

Open == Phase("off", "up")

StopBegins == Phase("up", "stopping")

\* Nobody is left behind.
StopEnds == Phase("stopping", "stopped") /\ \A s \in Sessions : stage[s] \in {"absent", "gone"}

-----------------------------------------------------------------------------
(* A session *)

Stage(s, from, to) == stage[s] \in from /\ stage' = [stage EXCEPT ![s] = to]

Join(s) ==
  /\ phase \in {"up", "stopping"}
  /\ Stage(s, {"absent"}, "joined")
  /\ UNCHANGED <<phase, streaming, listening, audience, told, toldGone>>

Register(s) ==
  /\ Stage(s, {"joined"}, "registered")
  /\ UNCHANGED <<phase, streaming, listening, audience, told, toldGone>>

\* A session announces itself to those that are there when it looks.
Gather(s) ==
  /\ stage[s] = "registered"
  /\ audience' = [audience EXCEPT ![s] = Members \ {s}]
  /\ UNCHANGED <<phase, stage, streaming, listening, told, toldGone>>

\* Of the two that get to know each other, s is the one that has just registered.  It
\* counts as visible once it and whoever else is visible know of each other.
Meet(s) ==
  /\ stage[s] = "registered"
  /\ \E d, o \in Sessions :
       /\ s \in {d, o} /\ stage[d] # "absent" /\ stage[o] # "absent"
       /\ \/ UNCHANGED told
          \/ d \in listening /\ told' = [told EXCEPT ![d] = @ \union {o}]
  /\ \/ UNCHANGED stage
     \/ /\ stage' = [stage EXCEPT ![s] = "visible"]
        /\ \A v \in listening :
             stage[v] = "visible" /\ s \in listening => s \in told'[v] /\ v \in told'[s]
  /\ UNCHANGED <<phase, streaming, listening, audience, toldGone>>

Stream(s) ==
  /\ stage[s] = "visible"
  /\ streaming' = streaming \union {s}
  /\ UNCHANGED <<phase, stage, listening, audience, told, toldGone>>

\* By its own command, or by the server, which also closes its connection.
Halt(s) ==
  /\ streaming' = streaming \ {s}
  /\ listening' \in {listening, listening \ {s}}
  /\ UNCHANGED <<phase, stage, audience, told, toldGone>>

Leave(s) ==
  /\ Stage(s, {"joined", "visible"}, "leaving")
  /\ UNCHANGED <<phase, streaming, listening, audience, told, toldGone>>

TellDeparture(s) ==
  /\ stage[s] = "leaving"
  /\ \E d \in listening : toldGone' = [toldGone EXCEPT ![d] = @ \union {s}]
  /\ UNCHANGED <<phase, stage, streaming, listening, audience, told>>

\* Whoever it announced itself to and is still there knows that it went.
Remove(s) ==
  /\ Stage(s, {"leaving"}, "removed")
  /\ \A d \in audience[s] \intersect Members \intersect listening : s \in toldGone[d]
  /\ UNCHANGED <<phase, streaming, listening, audience, told, toldGone>>

Finish(s) ==
  /\ Stage(s, {"removed"}, "gone")
  /\ streaming' = streaming \ {s}
  /\ listening' = listening \ {s}
  /\ UNCHANGED <<phase, audience, told, toldGone>>

-----------------------------------------------------------------------------
(* The clients' ends *)

Connect(s) ==
  /\ stage[s] = "absent"
  /\ listening' = listening \union {s}
  /\ UNCHANGED <<phase, stage, streaming, audience, told, toldGone>>

HangUp ==
  /\ listening' \subseteq listening
  /\ UNCHANGED <<phase, stage, streaming, audience, told, toldGone>>

Next ==
  \/ Open \/ StopBegins \/ StopEnds \/ HangUp
  \/ \E s \in Sessions :
       \/ Join(s) \/ Register(s) \/ Gather(s) \/ Meet(s) \/ Stream(s) \/ Halt(s)
       \/ Leave(s) \/ TellDeparture(s) \/ Remove(s) \/ Finish(s) \/ Connect(s)

Spec == Init /\ [][Next]_vars
=============================================================================
