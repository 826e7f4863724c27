------------------------- MODULE MCConnectionHandler -------------------------
(* The handler with its watchdog for TLC: two servers at an address with one  *)
(* slot.  The second is reached over UDP.                                     *)
EXTENDS Watchdog

CONSTANTS s1, s2
MCServers == {s1, s2}
MCUdp == {s2}
==============================================================================
