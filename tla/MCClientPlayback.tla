--------------------------- MODULE MCClientPlayback ---------------------------
(* An instance of ClientPlayback for TLC: two flows, the first one marked. *)
EXTENDS ClientPlayback

MCFlows == 1 .. 2
MCSizes == {0, 1}
MCMarked == {1}
MCTraffic == {1}
===============================================================================
