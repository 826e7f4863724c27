----------------------------- MODULE MCClientTls -----------------------------
(* ClientTls and NextLayer for TLC: a Start, two Data, one client close, one other event. *)
EXTENDS ClientTls

CONSTANTS start, data1, data2, closed, other
MCEvents == {start, data1, data2, closed, other}
MCData == {data1, data2}
MCClosed == {closed}
==============================================================================
