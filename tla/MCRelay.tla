------------------------------- MODULE MCRelay -------------------------------
(* An instance of Relay for TLC: two messages from each side, one injected. *)
EXTENDS Relay
==============================================================================
