--------------------------- MODULE MCSharedWorld ---------------------------
(***************************************************************************)
(* Small instances of SharedWorld.                                         *)
(***************************************************************************)
EXTENDS SharedWorld

OnePort == {1}

PlayOnly == { Message("Play", 0) }
=============================================================================
