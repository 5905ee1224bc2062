-------------------------- MODULE MCControlServer --------------------------
(***************************************************************************)
(* Small instances of ControlServer.                                       *)
(***************************************************************************)
EXTENDS ControlServer, TLC

OnePort == {1}

AnyPort == {NoPort, 1}

NoCommands == {}

\* A command that starts a stream, one that halts it, and a message type nobody knows.
SomeCommands == { Message(type, 0) : type \in {"Play", "Stop", "Other"} }

\* Nothing tells two connections apart when no client is bound to leave.
Symmetry == Permutations(Sessions)
=============================================================================
