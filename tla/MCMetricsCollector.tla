------------------------- MODULE MCMetricsCollector -------------------------
(***************************************************************************)
(* A small instance of MetricsCollector.                                   *)
(***************************************************************************)
EXTENDS MetricsCollector

\* The server's clock was behind the client's, or ahead of it for a while.
FewTimestamps == {0, 2}
=============================================================================
