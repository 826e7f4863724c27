---------------------------- MODULE MCHttpStream ----------------------------
(* Values for the checks of HttpStream: what the checks of a message find and  *)
(* the hooks in which an addon answers itself.                                 *)
EXTENDS HttpStream

MCVerdicts == {"ok", "invalid", "nohost", "limit", "stream", "expect", "eager", "lazy",
               "websocket", "rawtcp", "unwanted"}
MCPlain == {"ok", "stream"}
MCEveryHook == {"requestheaders", "request", "http_connect"}
MCNoHook == {}
=============================================================================
