---------------------------- MODULE MCStreamSync ----------------------------
(***************************************************************************)
(* Small instances of StreamSync.  Bounds are plain numbers, in the .cfg.  *)
(***************************************************************************)
EXTENDS StreamSync
=============================================================================
