---------------------------- MODULE MCProxyServers ----------------------------
(* ProxyServers for TLC: a DNS server and a TCP proxy at one address, two local modes. *)
EXTENDS ProxyServers, TLC

CONSTANTS dns, proxy, curl, wget, a
MCSpecs == {dns, proxy, curl, wget}
MCLocal == {curl, wget}
MCListens == dns :> {<<a, "tcp">>, <<a, "udp">>} @@ proxy :> {<<a, "tcp">>}
             @@ curl :> {} @@ wget :> {}
==============================================================================
