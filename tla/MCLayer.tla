------------------------------- MODULE MCLayer -------------------------------
(* Layer for TLC: four events and three blocking commands. *)
EXTENDS Layer
==============================================================================
