---------------------------- MODULE MCFlowControl ----------------------------
(* FlowControl for TLC: two flows to two hosts, or one flow, one client. *)
EXTENDS FlowControl, TLC

CONSTANTS f1, f2, d1, d2
MCFlows == {f1, f2}
MCDomains == {d1, d2}
MCDomain == (f1 :> d1) @@ (f2 :> d2)
OneFlow == {f1}
OneDomain == {d1}
OneDomainOf == f1 :> d1
Nobody == {}
==============================================================================
