--------------------------- MODULE MCUdpStreaming ---------------------------
(***************************************************************************)
(* Small instances of UdpStreaming.                                        *)
(***************************************************************************)
EXTENDS UdpStreaming

AllCommands == {"Play", "Pause", "Stop", "Reset", "Hz30", "Hz60", "Leave"}

\* To the left, and further to the right than the limit.
Left == {-1}

LeftAndFarRight == {-1, 2}

=============================================================================
