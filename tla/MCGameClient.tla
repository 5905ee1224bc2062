---------------------------- MODULE MCGameClient ----------------------------
(***************************************************************************)
(* Small instances of GameClient: a reconnect that fails halfway and the   *)
(* next one that succeeds take three connections.                          *)
(***************************************************************************)
EXTENDS GameClient

ThreeConnections == 1 .. 3

TwoConnections == 1 .. 2
=============================================================================
