------------------------ MODULE ConnectionLifecycle ------------------------
(***************************************************************************)
(* What a user of Client::GameClient sees of it: a state to poll, and when *)
(* that state may change.  A connection that was up is reported as         *)
(* Reconnecting only after it was lost, never because the client itself    *)
(* closed it; and once the user has left and the client has said so, it    *)
(* stays Disconnected until the user asks again.                           *)
(***************************************************************************)
CONSTANTS Connections, NoConnection

VARIABLES
  state,       \* what GetConnectionState returns
  wanted,      \* the user's last call was Connect
  connection,  \* the last connection that was set up
  lost         \* connections that broke

vars == <<state, wanted, connection, lost>>

Init ==
  /\ state = "Disconnected"
  /\ wanted = FALSE
  /\ connection = NoConnection
  /\ lost = {}

Ask == wanted' = TRUE /\ UNCHANGED <<state, connection, lost>>

Leave == wanted' = FALSE /\ UNCHANGED <<state, connection, lost>>

\* The client is still at it, or the user wants it to be.
Active == wanted \/ state # "Disconnected"

SetUp(c) ==
  /\ Active
  /\ c # connection
  /\ connection' = c
  /\ UNCHANGED <<state, wanted, lost>>

Report ==
  /\ Active
  /\ connection # NoConnection
  /\ state' = "Connected"
  /\ UNCHANGED <<wanted, connection, lost>>

Lose(c) == lost' = lost \union {c} /\ UNCHANGED <<state, wanted, connection>>

Notice ==
  /\ state = "Connected"
  /\ connection \in lost
  /\ state' = "Reconnecting"
  /\ UNCHANGED <<wanted, connection, lost>>

Disconnect ==
  /\ ~wanted
  /\ state' = "Disconnected"
  /\ UNCHANGED <<wanted, connection, lost>>

Next ==
  \/ Ask \/ Leave \/ Report \/ Notice \/ Disconnect
  \/ \E c \in Connections : SetUp(c) \/ Lose(c)

Spec == Init /\ [][Next]_vars
=============================================================================
