------------------------------ MODULE HttpStream ------------------------------
(***************************************************************************)
(* proxy/layers/http/__init__.py HttpStream: one request and its response.  *)
(*                                                                         *)
(* The stream is a pair of state machines, client_state and server_state,   *)
(* driven by the events of two connections, which pauses at every hook and  *)
(* while a server connection is made.  Events that arrive during a pause    *)
(* wait in the queue (Layer.tla) and are handled, in order, in the step     *)
(* that ends the pause.  The object is one record; each operator below      *)
(* takes it and returns what the code leaves, up to the next pause.         *)
(*                                                                         *)
(* After a CONNECT or a response of status 101 the stream is a tunnel, and  *)
(* passes everything on to a child layer (NextLayer.tla, Relay.tla), which  *)
(* is represented by what it is told and by the commands it may yield.      *)
(*                                                                         *)
(* Left out: trailers and body contents.                                    *)
(***************************************************************************)
EXTENDS Naturals, Sequences, SequencesExt, FiniteSets

CONSTANTS
    MaxData,       \* bound: body chunks a side sends
    MaxErrors,     \* bound: protocol errors a connection raises for the stream
    Verdicts,      \* what a message is: see RequestVerdicts and ResponseVerdicts
    AddonResponds  \* the hooks in which an addon may set flow.response

ASSUME BoundAssumption == MaxData \in Nat /\ MaxErrors \in Nat
ASSUME VerdictAssumption == "ok" \in Verdicts /\ Verdicts \subseteq STRING
ASSUME AddonAssumption == AddonResponds \subseteq {"requestheaders", "request", "http_connect"}

\* eager and lazy: a CONNECT, under that connection_strategy; lazy also in upstream
\* mode.  websocket, rawtcp and unwanted: a 101, and what the options make of it.
Connects == {"eager", "lazy"}
Switches == {"websocket", "rawtcp", "unwanted"}
DataVerdicts == Verdicts \cap {"ok", "limit", "stream"}
RequestVerdicts == Verdicts \cap ({"ok", "limit", "stream", "nohost", "invalid", "expect"}
                                  \cup Connects)
ResponseVerdicts == Verdicts \cap ({"ok", "limit", "stream", "invalid"} \cup Switches)

VARIABLES
    stream,   \* the HttpStream object and its flow
    client,   \* what the client connection has sent: its phase, chunks and errors
    upstream  \* the same for the server connection

vars == <<stream, client, upstream>>

HookNames == {"requestheaders", "request", "responseheaders", "response", "error",
              "http_connect", "http_connected", "http_connect_error"}

ClientStates == {"wait_for_request_headers", "consume_request_body",
                 "stream_request_body", "done", "errored"}
ServerStates == {"uninitialized", "wait_for_response_headers", "consume_response_body",
                 "stream_response_body", "done", "errored"}

\* Where the generator is paused; "ready" when it is not.
Pauses == {"ready", "requestheaders", "request", "requestStreamed", "responseheaders",
           "localResponseheaders", "response", "rejectRequestHeaders", "rejectRequest",
           "rejectResponseHeaders", "rejectResponse", "killed", "protocolError", "connect",
           "http_connect", "http_connected", "http_connect_error", "open"}

\* What the generator has in its local variables there.
Args == {"none", "end", "expect", "invalid", "limit", "streamed", "eager", "lazy",
         "consume", "headers", "data", "client", "top"}

ClientEvents ==
    [type : {"RequestHeaders"}, verdict : RequestVerdicts, end : BOOLEAN]
    \cup [type : {"RequestData"}, verdict : DataVerdicts]
    \cup [type : {"RequestEndOfMessage", "RequestProtocolError"}]
ServerEvents ==
    [type : {"ResponseHeaders"}, verdict : ResponseVerdicts, end : BOOLEAN]
    \cup [type : {"ResponseData", "DataReceived"}, verdict : DataVerdicts]
    \cup [type : {"ResponseEndOfMessage", "ResponseProtocolError", "ConnectionClosed"}]

\* raw: what the child layer of a tunnel sends.
ToClient == {"continue", "headers", "data", "end", "error", "close", "raw"}
ToServer == {"headers", "data", "end", "error", "close", "raw"}
ToChild == {"start", "clientData", "serverData", "clientClosed", "serverClosed", "error"}

TypeOK ==
    /\ stream \in [client : ClientStates, server : ServerStates,
                   pc : Pauses, arg : Args, queue : Seq(ClientEvents \cup ServerEvents),
                   error : {"none", "killed", "other"}, live : BOOLEAN, response : BOOLEAN,
                   refused : BOOLEAN, switch : Switches \cup {"no"}, passthrough : BOOLEAN,
                   reqStream : BOOLEAN, respStream : BOOLEAN, dropped : BOOLEAN,
                   raising : BOOLEAN, raised : {"none", "both", "unexpected"},
                   toClient : Seq(ToClient), toServer : Seq(ToServer), toChild : Seq(ToChild),
                   hooks : [HookNames -> Nat], killedAt : Pauses \cup {"none"}]
    /\ client \in [phase : {"idle", "body", "ending", "ended", "tunnel", "closed", "failed"},
                   data : 0 .. MaxData, raw : 0 .. MaxData, errors : 0 .. MaxErrors]
    /\ upstream \in [phase : {"idle", "body", "ending", "switching", "switched", "ended",
                              "tunnel", "closed", "failed"},
                     data : 0 .. MaxData, raw : 0 .. MaxData, errors : 0 .. MaxErrors]

Init ==
    /\ stream = [client |-> "wait_for_request_headers", server |-> "uninitialized",
                 pc |-> "ready", arg |-> "none", queue |-> <<>>,
                 error |-> "none", live |-> FALSE, response |-> FALSE,
                 refused |-> FALSE, switch |-> "no", passthrough |-> FALSE,
                 reqStream |-> FALSE, respStream |-> FALSE, dropped |-> FALSE,
                 raising |-> FALSE, raised |-> "none",
                 toClient |-> <<>>, toServer |-> <<>>, toChild |-> <<>>,
                 hooks |-> [h \in HookNames |-> 0], killedAt |-> "none"]
    /\ client = [phase |-> "idle", data |-> 0, raw |-> 0, errors |-> 0]
    /\ upstream = client

-----------------------------------------------------------------------------
\* Commands.

SendClient(s, m) == [s EXCEPT !.toClient = Append(@, m)]
SendServer(s, m) == [s EXCEPT !.toServer = Append(@, m)]

\* yield a hook and be paused at pc, with arg to go on with.
Hook(s, name, pc, arg) ==
    [s EXCEPT !.hooks[name] = @ + 1, !.pc = pc, !.arg = arg]

Raise(s, why) ==
    [s EXCEPT !.raising = TRUE, !.raised = IF @ = "none" THEN why ELSE @]

\* Mutant: only the client's half is marked as errored.
ClientErrored(s) == [s EXCEPT !.client = "errored", !.live = FALSE]
BothErrored(s) == [s EXCEPT !.client = "errored", !.server = "errored", !.live = FALSE]

\* check_killed: by an addon or the user, or by a client whose error is queued.
ClientGone(s) == \E i \in DOMAIN s.queue : s.queue[i].type = "RequestProtocolError"
\* Mutant: flow.error is not looked at after a hook.
StoppedByClient(s) == ClientGone(s)
Stopped(s) == s.error = "killed" \/ ClientGone(s)

Stop(s) == BothErrored(SendClient(s, "error"))

CheckedKilled(s, emitErrorHook) ==
    LET t == [s EXCEPT !.error = IF @ = "none" THEN "other" ELSE @]
    IN  IF emitErrorHook THEN Hook(t, "error", "killed", "none") ELSE Stop(t)

-----------------------------------------------------------------------------
\* handle_protocol_error and make_server_connection.

\* What the callers of make_server_connection do after it failed.
AfterFailure(s, caller) ==
    CASE caller = "headers" -> [s EXCEPT !.client = "errored",
                                         !.server = "wait_for_response_headers"]
      [] caller = "data"    -> [s EXCEPT !.client = "errored"]
      [] OTHER              -> s

\* Mutant: an answered flow may still get an error.
NeedUnlessErrored(s) == ~(s.client = "errored" \/ s.server = "errored")
\* Mutant: an error that was already reported is reported again.
NeedUnlessAnswered(s) == s.server # "done"
NeedErrorHook(s) == ~(s.client = "errored" \/ s.server \in {"done", "errored"})

\* Mutant: the error goes upstream whether or not the request has.
TalkingBefore(s, type) ==
    type = "RequestProtocolError" /\ s.server \notin {"done", "errored"}
TalkingUpstream(s, type) ==
    /\ type = "RequestProtocolError"
    /\ s.client \in {"stream_request_body", "done"}
    /\ s.server \notin {"done", "errored"}

\* The rest of handle_protocol_error, after its ErrorHook.
ProtocolErrorHandled(s, type) ==
    IF Stopped(s)
    THEN CheckedKilled(s, FALSE)
    ELSE LET told == IF type = "ResponseProtocolError" /\ s.client # "errored"
                     THEN SendClient(s, "error") ELSE s
         IN  [told EXCEPT !.server = IF type = "ResponseProtocolError" THEN "errored" ELSE @,
                          !.live = FALSE, !.dropped = TRUE]

HandleProtocolError(s, type, caller) ==
    LET t == IF TalkingUpstream(s, type)
             THEN SendServer([s EXCEPT !.client = "errored"], "error") ELSE s
    IN  IF NeedErrorHook(s)
        THEN Hook([t EXCEPT !.error = "other"], "error", "protocolError",
                  IF type = "RequestProtocolError" THEN "client" ELSE caller)
        ELSE AfterFailure(ProtocolErrorHandled(t, type), caller)

MakeServerConnection(s, caller) == [s EXCEPT !.pc = "connect", !.arg = caller]

StartRequestStream(s, caller) ==
    IF s.response THEN Raise(s, "both") ELSE MakeServerConnection(s, caller)

-----------------------------------------------------------------------------
\* The end of an exchange.

\* _handle_event = self.passthrough, and the child layer is started.
Passthrough(s) == [s EXCEPT !.passthrough = TRUE, !.toChild = Append(@, "start")]

\* A 101: the flow of a WebSocket stays live; without a layer to upgrade to the
\* client is disconnected.
Switched(s) ==
    CASE s.switch = "websocket" -> SendClient(Passthrough(s), "end")
      [] s.switch = "rawtcp"    -> SendClient(Passthrough([s EXCEPT !.live = FALSE]), "end")
      [] s.switch = "unwanted"  -> BothErrored(SendClient(s, "close"))

\* Mutant: both halves announce the end of the message.
FlowDoneTwice(s) ==
    SendClient(SendClient([s EXCEPT !.live = FALSE, !.dropped = TRUE], "end"), "end")
FlowDone(s) ==
    IF s.switch # "no" THEN Switched(s)
    ELSE SendClient([s EXCEPT !.live = FALSE, !.dropped = TRUE], "end")

SendResponse(s, alreadyStreamed) ==
    Hook(s, "response", "response", IF alreadyStreamed THEN "streamed" ELSE "none")

StartResponseStream(s) ==
    [SendClient(s, "headers") EXCEPT !.server = "stream_response_body"]

-----------------------------------------------------------------------------
\* The state functions.

RequestHeaders(s, e) ==
    LET t == [s EXCEPT !.live = TRUE, !.reqStream = e.verdict = "stream" /\ ~e.end]
    IN  CASE e.verdict = "invalid" ->
               Hook([t EXCEPT !.error = "other"],
                    "requestheaders", "rejectRequestHeaders", "invalid")
          [] e.verdict \in Connects ->
               Hook([t EXCEPT !.client = "done"], "http_connect", "http_connect", e.verdict)
          [] e.verdict = "nohost" ->
               SendClient([t EXCEPT !.client = "errored"], "error")
          [] e.verdict = "limit" /\ ~e.end ->
               Hook(t, "requestheaders", "rejectRequestHeaders", "limit")
          [] OTHER -> Hook(t, "requestheaders", "requestheaders",
                           CASE e.verdict = "expect" -> "expect"
                             [] e.verdict # "expect" /\ e.end -> "end"
                             [] OTHER -> "none")

ConsumeRequestBody(s, e) ==
    CASE e.type = "RequestEndOfMessage" ->
           Hook([s EXCEPT !.client = "done"], "request", "request", "none")
      [] e.verdict = "limit" ->
           Hook([s EXCEPT !.error = "other"], "error", "rejectRequest", "limit")
      [] e.verdict = "stream" -> StartRequestStream([s EXCEPT !.reqStream = TRUE], "data")
      [] OTHER -> s

StreamRequestBody(s, e) ==
    IF e.type = "RequestEndOfMessage"
    THEN Hook(s, "request", "requestStreamed", "none")
    ELSE SendServer(s, "data")

ResponseHeaders(s, e) ==
    LET t == [s EXCEPT !.response = TRUE, !.respStream = e.verdict = "stream" /\ ~e.end,
                       !.switch = IF e.verdict \in Switches THEN e.verdict ELSE "no"]
    IN  CASE e.verdict = "limit" /\ ~e.end ->
               Hook(t, "responseheaders", "rejectResponseHeaders", "limit")
          [] e.verdict = "invalid" ->
               Hook(SendServer([t EXCEPT !.error = "other"], "close"),
                    "error", "rejectResponse", "invalid")
          [] OTHER -> Hook(t, "responseheaders", "responseheaders",
                           IF e.end THEN "end" ELSE "none")

ConsumeResponseBody(s, e) ==
    CASE e.type = "ResponseEndOfMessage" -> SendResponse(s, FALSE)
      [] e.verdict = "limit" ->
           Hook([s EXCEPT !.error = "other"], "error", "rejectResponse", "limit")
      [] e.verdict = "stream" ->
           SendClient(StartResponseStream([s EXCEPT !.respStream = TRUE]), "data")
      [] OTHER -> s

StreamResponseBody(s, e) ==
    IF e.type = "ResponseEndOfMessage" THEN SendResponse(s, TRUE) ELSE SendClient(s, "data")

\* Mutant: the end of the client's half of a tunnel is not translated.
TranslatedExceptEnd(e) ==
    CASE e.type = "RequestData"                                    -> "clientData"
      [] e.type \in {"ResponseData", "DataReceived"}               -> "serverData"
      [] e.type \in {"ResponseEndOfMessage", "ConnectionClosed"}   -> "serverClosed"
      [] OTHER                                                     -> "error"
\* passthrough: what the child layer is told.  Errors are passed on as they are, and
\* no child layer expects them.
Translated(e) ==
    CASE e.type = "RequestData"                                    -> "clientData"
      [] e.type \in {"ResponseData", "DataReceived"}               -> "serverData"
      [] e.type = "RequestEndOfMessage"                            -> "clientClosed"
      [] e.type \in {"ResponseEndOfMessage", "ConnectionClosed"}   -> "serverClosed"
      [] OTHER                                                     -> "error"

\* What the expect decorators of the state functions let through.
StateFunction(s, e) ==
    LET request  == {"RequestData", "RequestEndOfMessage"}
        response == {"ResponseData", "ResponseEndOfMessage"}
    IN  CASE e.type \in {"RequestProtocolError", "ResponseProtocolError"} ->
               HandleProtocolError(s, e.type, "top")
          [] e.type \in request \cup {"RequestHeaders"} /\ s.client = "errored" -> s
          [] e.type \in response \cup {"ResponseHeaders"} /\ s.server = "errored" -> s
          [] e.type = "RequestHeaders" /\ s.client = "wait_for_request_headers" ->
               RequestHeaders(s, e)
          [] e.type \in request /\ s.client = "consume_request_body" -> ConsumeRequestBody(s, e)
          [] e.type \in request /\ s.client = "stream_request_body" -> StreamRequestBody(s, e)
          [] e.type = "ResponseHeaders" /\ s.server = "wait_for_response_headers" ->
               ResponseHeaders(s, e)
          [] e.type \in response /\ s.server = "consume_response_body" -> ConsumeResponseBody(s, e)
          [] e.type \in response /\ s.server = "stream_response_body" -> StreamResponseBody(s, e)
          [] OTHER -> Raise(s, "unexpected")

\* _handle_event, which is passthrough in a tunnel.
Handle(s, e) ==
    IF s.passthrough THEN [s EXCEPT !.toChild = Append(@, Translated(e))]
    ELSE StateFunction(s, e)

-----------------------------------------------------------------------------
\* What follows each pause.

AfterRequestHeaders(s) ==
    LET t == IF s.arg = "expect" THEN SendClient(s, "continue") ELSE s
    IN  CASE Stopped(s) -> CheckedKilled(s, TRUE)
          [] ~Stopped(s) /\ s.reqStream /\ s.arg # "end" -> StartRequestStream(t, "headers")
          [] OTHER -> [t EXCEPT !.client = "consume_request_body",
                                !.server = "wait_for_response_headers"]

AfterRequest(s) ==
    CASE Stopped(s) -> CheckedKilled(s, TRUE)
      [] ~Stopped(s) /\ s.response ->
           Hook(s, "responseheaders", "localResponseheaders", "none")
      [] OTHER -> MakeServerConnection(s, "consume")

\* Mutant: the end of a streamed request ends the flow.
AfterRequestEndsAll(s) == FlowDone(SendServer([s EXCEPT !.client = "done"], "end"))
AfterRequestStreamed(s) ==
    LET t == SendServer([s EXCEPT !.client = "done"], "end")
    IN  IF s.server = "done" THEN FlowDone(t) ELSE t

AfterResponseHeaders(s) ==
    CASE Stopped(s) -> CheckedKilled(s, TRUE)
      [] ~Stopped(s) /\ s.respStream /\ s.arg # "end" -> StartResponseStream(s)
      [] OTHER -> [s EXCEPT !.server = "consume_response_body"]

AfterLocalResponseHeaders(s) ==
    IF Stopped(s) THEN CheckedKilled(s, TRUE) ELSE SendResponse(s, FALSE)

\* Mutant: the end of an answered request is not told.
AfterResponseNeverDone(s) ==
    IF Stopped(s) THEN CheckedKilled(s, FALSE)
    ELSE SendClient([s EXCEPT !.server = "done"], "headers")
AfterResponse(s) ==
    LET t == [s EXCEPT !.server = "done"]
        u == IF s.arg = "streamed" THEN t ELSE SendClient(t, "headers")
    IN  CASE Stopped(t) -> CheckedKilled(t, FALSE)
          [] ~Stopped(t) /\ s.client = "done" -> FlowDone(u)
          [] OTHER -> u

\* The rejections of check_invalid and check_body_size.
AfterRejectedHeaders(s, pc) ==
    Hook([s EXCEPT !.error = IF s.arg = "limit" THEN "other" ELSE @], "error", pc, s.arg)

AfterRejectedRequest(s) ==
    LET t == SendClient(s, "error")
    IN  IF s.arg = "invalid" THEN BothErrored(t)
        ELSE ClientErrored(t)

AfterRejectedResponse(s) ==
    LET t == BothErrored(SendClient(s, "error"))
    IN  IF s.arg = "limit" THEN SendServer(t, "error") ELSE t

AfterProtocolError(s) ==
    IF s.arg = "client" THEN ProtocolErrorHandled(s, "RequestProtocolError")
    ELSE AfterFailure(ProtocolErrorHandled(s, "ResponseProtocolError"), s.arg)

\* handle_connect_finish, up to its hook.
ConnectFinish(s) ==
    IF s.refused THEN Hook(s, "http_connect_error", "http_connect_error", "none")
    ELSE Hook([s EXCEPT !.response = TRUE], "http_connected", "http_connected", "none")

\* Mutant: a kill is not looked at.
AfterConnectHookKilled(s) ==
    IF s.arg = "eager" /\ ~s.response THEN [s EXCEPT !.pc = "open"] ELSE ConnectFinish(s)
\* handle_connect: an addon may have answered the CONNECT.
AfterConnectHook(s) ==
    CASE Stopped(s) -> CheckedKilled(s, FALSE)
      [] ~Stopped(s) /\ s.arg = "eager" /\ ~s.response -> [s EXCEPT !.pc = "open"]
      [] OTHER -> ConnectFinish(s)

\* Nobody looks whether the flow was killed meanwhile.
AfterConnected(s) == SendClient(SendClient(Passthrough(s), "headers"), "end")
AfterConnectRefused(s) ==
    SendClient(SendClient([s EXCEPT !.client = "errored", !.live = FALSE], "headers"), "end")

Connected(s) ==
    LET t == SendServer(s, "headers")
    IN  CASE s.arg = "consume" -> SendServer(t, "end")
          [] s.arg = "headers" -> [t EXCEPT !.client = "stream_request_body",
                                            !.server = "wait_for_response_headers"]
          [] s.arg = "data"    -> SendServer([t EXCEPT !.client = "stream_request_body"], "data")

NotConnected(s) == HandleProtocolError(s, "ResponseProtocolError", s.arg)

\* Layer.__continue: go on from the pause at pc, then handle the queued events
\* until the next pause or an exception.
Drain(s) ==
    FoldLeft(LAMBDA t, e : IF t.pc = "ready" /\ ~t.raising
                           THEN Handle([t EXCEPT !.queue = Tail(@)], e) ELSE t,
             s, s.queue)

AfterPause(s, pc) ==
    CASE pc = "requestheaders"        -> AfterRequestHeaders(s)
      [] pc = "request"               -> AfterRequest(s)
      [] pc = "requestStreamed"       -> AfterRequestStreamed(s)
      [] pc = "responseheaders"       -> AfterResponseHeaders(s)
      [] pc = "localResponseheaders"  -> AfterLocalResponseHeaders(s)
      [] pc = "response"              -> AfterResponse(s)
      [] pc = "rejectRequestHeaders"  -> AfterRejectedHeaders(s, "rejectRequest")
      [] pc = "rejectResponseHeaders" -> AfterRejectedHeaders(s, "rejectResponse")
      [] pc = "rejectRequest"         -> AfterRejectedRequest(s)
      [] pc = "rejectResponse"        -> AfterRejectedResponse(s)
      [] pc = "killed"                -> Stop(s)
      [] pc = "protocolError"         -> AfterProtocolError(s)
      [] pc = "http_connect"          -> AfterConnectHook(s)
      [] pc = "http_connected"        -> AfterConnected(s)
      [] pc = "http_connect_error"    -> AfterConnectRefused(s)

Unpaused == [stream EXCEPT !.pc = "ready", !.raising = FALSE]

-----------------------------------------------------------------------------
\* The hook task reports that the hook is over.
HookCompleted ==
    /\ stream.pc \notin {"ready", "connect", "open"}
    /\ stream' = Drain(AfterPause(Unpaused, stream.pc))
    /\ UNCHANGED <<client, upstream>>

\* HttpLayer answers the GetHttpConnection command.
ConnectionMade ==
    /\ stream.pc = "connect"
    /\ stream' = Drain(Connected(Unpaused))
    /\ UNCHANGED <<client, upstream>>

ConnectionRefused ==
    /\ stream.pc = "connect"
    /\ stream' = Drain(NotConnected(Unpaused))
    /\ UNCHANGED <<client, upstream>>

\* The reply to the OpenConnection of a CONNECT: a failure makes a 502 of it.
ServerOpened ==
    /\ stream.pc = "open"
    /\ stream' = Drain(ConnectFinish(Unpaused))
    /\ upstream' = [upstream EXCEPT !.phase = "tunnel"]
    /\ UNCHANGED client

ServerNotOpened ==
    /\ stream.pc = "open"
    /\ stream' = Drain(ConnectFinish([Unpaused EXCEPT !.response = TRUE, !.refused = TRUE]))
    /\ UNCHANGED <<client, upstream>>

\* Layer.handle_event; HttpLayer no longer routes events to a dropped stream.
Deliver(e) ==
    /\ ~stream.dropped
    /\ stream' = IF stream.pc = "ready"
                 THEN Handle([stream EXCEPT !.raising = FALSE], e)
                 ELSE [stream EXCEPT !.queue = Append(@, e)]

\* A CONNECT has no end: what follows it is the tunnel, which HTTP/2 need not wait for.
ClientHeaders(v, end) ==
    /\ client.phase = "idle"
    /\ v \in {"expect"} \cup Connects => ~end
    /\ Deliver([type |-> "RequestHeaders", verdict |-> v, end |-> end])
    /\ client' = [client EXCEPT !.phase = CASE v \in Connects -> "tunnel"
                                            [] v \notin Connects /\ end -> "ending"
                                            [] OTHER -> "body"]
    /\ UNCHANGED upstream

ClientData(v) ==
    /\ client.phase = "body" /\ client.data < MaxData
    /\ Deliver([type |-> "RequestData", verdict |-> v])
    /\ client' = [client EXCEPT !.data = @ + 1]
    /\ UNCHANGED upstream

ClientEnd ==
    /\ client.phase \in {"body", "ending"}
    /\ Deliver([type |-> "RequestEndOfMessage"])
    /\ client' = [client EXCEPT !.phase = "ended"]
    /\ UNCHANGED upstream

Told(m) == Contains(stream.toClient, m)

\* Http1Server.make_pipe: when the 101 has been sent, what the client sends is raw.
ClientPiped == client.phase = "tunnel" \/ (client.phase = "ended" /\ stream.passthrough)

ClientRaw ==
    /\ ClientPiped /\ client.raw < MaxData
    /\ Deliver([type |-> "RequestData", verdict |-> "ok"])
    /\ client' = [client EXCEPT !.raw = @ + 1]
    /\ UNCHANGED upstream

ClientCloses ==
    /\ ClientPiped
    /\ Deliver([type |-> "RequestEndOfMessage"])
    /\ client' = [client EXCEPT !.phase = "closed"]
    /\ UNCHANGED upstream

\* Not through a pipe, but HTTP/2 can reset the stream of a CONNECT.
ClientFails ==
    /\ client.phase \notin {"idle", "closed"} /\ client.errors < MaxErrors
    /\ ~(client.phase = "ended" /\ stream.passthrough)
    /\ Deliver([type |-> "RequestProtocolError"])
    /\ client' = [client EXCEPT !.phase = "failed", !.errors = @ + 1]
    /\ UNCHANGED upstream

\* The server side hears of the stream with its RequestHeaders; once the proxy
\* has reset the stream or closed the connection, only the end of it is heard.
Contacted == Contains(stream.toServer, "headers")
Abandoned == Contains(stream.toServer, "error") \/ Contains(stream.toServer, "close")

ServerHeaders(v, end) ==
    /\ upstream.phase = "idle" /\ Contacted /\ ~Abandoned
    /\ v \in Switches => end
    /\ Deliver([type |-> "ResponseHeaders", verdict |-> v, end |-> end])
    /\ upstream' = [upstream EXCEPT !.phase = CASE v \in Switches -> "switching"
                                                [] v \notin Switches /\ end -> "ending"
                                                [] OTHER -> "body"]
    /\ UNCHANGED client

ServerData(v) ==
    /\ upstream.phase = "body" /\ upstream.data < MaxData /\ ~Abandoned
    /\ Deliver([type |-> "ResponseData", verdict |-> v])
    /\ upstream' = [upstream EXCEPT !.data = @ + 1]
    /\ UNCHANGED client

\* A response that ends before its request leaves the stream registered with the
\* upstream connection, which then reports its own end for the stream.
ServerEnd ==
    /\ upstream.phase \in {"body", "ending", "switching"} /\ ~Abandoned
    /\ Deliver([type |-> "ResponseEndOfMessage"])
    /\ upstream' = [upstream EXCEPT
           !.phase = CASE @ = "switching" -> "switched"
                       [] @ # "switching" /\ Contains(stream.toServer, "end") -> "closed"
                       [] OTHER -> "ended"]
    /\ UNCHANGED client

\* Http1Client.make_pipe: when the request has been sent and the 101 has come.  (What the
\* server sends between the two is not followed.)
ServerPiped ==
    \/ upstream.phase = "tunnel"
    \/ upstream.phase = "switched" /\ Contains(stream.toServer, "end")

\* HttpLayer knows the connection a CONNECT has opened as the stream's own.
RawType(http, own) == IF Contacted THEN http ELSE own

ServerRaw ==
    /\ ServerPiped /\ upstream.raw < MaxData /\ ~Abandoned
    /\ Deliver([type |-> RawType("ResponseData", "DataReceived"), verdict |-> "ok"])
    /\ upstream' = [upstream EXCEPT !.raw = @ + 1]
    /\ UNCHANGED client

ServerCloses ==
    /\ ServerPiped
    /\ Deliver([type |-> RawType("ResponseEndOfMessage", "ConnectionClosed")])
    /\ upstream' = [upstream EXCEPT !.phase = "closed"]
    /\ UNCHANGED client

ServerFails ==
    /\ upstream.phase # "closed" /\ ~ServerPiped
    /\ upstream.errors < MaxErrors /\ Contacted
    /\ Deliver([type |-> "ResponseProtocolError"])
    /\ upstream' = [upstream EXCEPT !.phase = "failed", !.errors = @ + 1]
    /\ UNCHANGED client

\* The child layer sends or closes, in reply to what it was told or to its own hooks;
\* what it says to the server of a CONNECT goes past the stream.
ChildSpeaks(m) ==
    /\ stream.passthrough
    /\ \/ ~Told(m) /\ ~Told("error") /\ stream' = SendClient(stream, m)
       \/ /\ stream.switch # "no" /\ ~Contains(stream.toServer, m) /\ ~Abandoned
          /\ stream' = SendServer(stream, m)
    /\ UNCHANGED <<client, upstream>>

\* The child layer opens the connection that a lazy CONNECT did not.
ChildOpens ==
    /\ stream.passthrough /\ stream.switch = "no" /\ upstream.phase = "idle"
    /\ upstream' = [upstream EXCEPT !.phase = "tunnel"]
    /\ UNCHANGED <<stream, client>>

\* Flow.kill, by an addon in a hook or by the user at any moment after the
\* first hook has shown the flow.
Killable ==
    /\ stream.live /\ stream.error # "killed"
    /\ stream.hooks["requestheaders"] + stream.hooks["http_connect"] > 0

Kill ==
    /\ Killable
    /\ stream' = [stream EXCEPT !.error = "killed", !.live = FALSE, !.killedAt = stream.pc]
    /\ UNCHANGED <<client, upstream>>

\* An addon sets flow.response in a hook that precedes the server connection; the
\* answer to a CONNECT may refuse it.
AddonResponse ==
    /\ stream.pc \in AddonResponds /\ ~stream.response
    /\ \E refused \in BOOLEAN :
         /\ refused => stream.pc = "http_connect"
         /\ stream' = [stream EXCEPT !.response = TRUE, !.refused = refused]
    /\ UNCHANGED <<client, upstream>>

\* An addon sets request.stream or response.stream in the hook for the headers.
AddonStream ==
    /\ "stream" \in Verdicts
    /\ \/ /\ stream.pc = "requestheaders"
          /\ stream' = [stream EXCEPT !.reqStream = TRUE]
       \/ /\ stream.pc = "responseheaders"
          /\ stream' = [stream EXCEPT !.respStream = TRUE]
    /\ UNCHANGED <<client, upstream>>

Next ==
    \/ HookCompleted \/ ConnectionMade \/ ConnectionRefused \/ ServerOpened \/ ServerNotOpened
    \/ \E end \in BOOLEAN : \/ \E v \in RequestVerdicts : ClientHeaders(v, end)
                           \/ \E v \in ResponseVerdicts : ServerHeaders(v, end)
    \/ \E v \in DataVerdicts : ClientData(v) \/ ServerData(v)
    \/ ClientEnd \/ ClientFails \/ ServerEnd \/ ServerFails
    \/ ClientRaw \/ ClientCloses \/ ServerRaw \/ ServerCloses
    \/ ChildOpens \/ \E m \in {"raw", "error"} : ChildSpeaks(m)
    \/ Kill \/ AddonResponse \/ AddonStream

Spec == Init /\ [][Next]_vars

-----------------------------------------------------------------------------
Fired(h) == stream.hooks[h] > 0
Count(seq, m) == Cardinality({i \in DOMAIN seq : seq[i] = m})

\* The hook documentation (_hooks.py): every flow receives either an error or a
\* response event, but not both.
ErrorXorResponse == ~(Fired("error") /\ Fired("response"))

\* The part of it that holds: once the response hook has run no error hook
\* follows, and a response hook after an error hook is only ever that of an
\* exchange the client has given up.
ErrorIsFinal ==
    [][/\ Fired("response") => stream'.hooks["error"] = stream.hooks["error"]
       /\ Fired("error") /\ stream'.hooks["response"] > stream.hooks["response"]
            => client.errors > 0]_vars

\* No hook fires twice for a flow, whatever fails or is killed while another
\* hook of it runs; only an exchange the client has given up can report a second
\* error.  "CONNECT requests [...] do not generate the usual HTTP handler events".
HooksFireOnce ==
    /\ \A h \in HookNames : stream.hooks[h] <= 1 \/ (h = "error" /\ client.errors > 0)
    /\ Fired("http_connect") =>
          \A h \in HookNames : Fired(h) => h \in {"http_connect", "http_connected",
                                                 "http_connect_error"}

\* The hooks of a flow tell one story, however its failures interleave with them.
HookStory == []HooksFireOnce /\ ErrorIsFinal

\* The state functions are never called with an event they do not expect, unless
\* an addon's response met a streamed request, or the pipe of a 101 for a client that
\* is gone reports its own end as that of the response.
ExpectedEvents ==
    stream.raised = "unexpected" => stream.switch # "no" /\ stream.dropped /\ client.errors > 0

\* The client gets the end of a message only if the response hook has run, no
\* error hook has, and the request was read to its end.  (An exception in a state
\* function strands the queue, after which the stream may answer out of order.)
EndIsEarned ==
    Told("end") /\ stream.raised = "none" =>
        IF Fired("http_connect") THEN Fired("http_connected") # Fired("http_connect_error")
        ELSE /\ Fired("response") /\ Fired("request") /\ ~Fired("error")
             /\ client.phase \in {"ended", "closed", "failed"}

\* One head, one end, one error.  Only for a killed flow, a client that is gone or a
\* server that fails twice can a later failure report the error again.
OneAnswer ==
    /\ Count(stream.toClient, "headers") <= 1
    /\ Count(stream.toClient, "end") <= 1
    /\ Count(stream.toClient, "error") > 1 =>
           stream.error = "killed" \/ client.errors > 0 \/ upstream.errors > 1

\* After the end of a message Http1Server has moved on to the client's next
\* stream and asserts that it gets nothing more for this one.  Only a
\* failure of either peer that was queued behind the last hook can still follow,
\* unless the stream is a tunnel, which has nothing to send before.
EndIsLast ==
    /\ \A i \in DOMAIN stream.toClient :
          stream.toClient[i] = "end" /\ i < Len(stream.toClient) =>
              \/ stream.toClient[i + 1] = "error" /\ client.errors + upstream.errors > 0
              \/ stream.passthrough
    /\ \A i \in DOMAIN stream.toClient :
          stream.toClient[i] = "raw" => \E j \in 1 .. i : stream.toClient[j] = "end"

\* The client is told one coherent story, however the exchange fails: it is answered
\* once, by an end the hooks have seen, and after the end comes nothing more of it.
ClientStory == OneAnswer /\ EndIsEarned /\ EndIsLast

\* Headers come before anything else, and after the end or the abort no more body.
RequestInOrder ==
    \A i \in DOMAIN stream.toServer :
        /\ stream.toServer[i] = "headers" <=> i = 1
        /\ stream.toServer[i] \in {"end", "error", "close"} =>
               \A j \in i + 1 .. Len(stream.toServer) : stream.toServer[j] \notin {"data", "end"}

\* A flow that is killed in a hook before its request was sent never has
\* its request sent, nor one killed in the response hooks its response.
KillInHookHolds ==
    /\ stream.killedAt \in {"requestheaders", "request", "rejectRequestHeaders"} =>
           ~Contacted
    /\ stream.killedAt \in {"responseheaders", "localResponseheaders"} => ~Told("headers")
    /\ stream.killedAt = "response" => ~Told("end")
    /\ stream.killedAt = "http_connect" => ~stream.passthrough /\ upstream.phase = "idle"

\* Upstream sees a well-formed request or none, and nothing passes a hook in which the
\* flow was killed.
ServerStory == RequestInOrder /\ KillInHookHolds

\* When both peers have said all they will and no hook is running, a flow that an
\* addon has seen has had its error or its response, and the client, unless it
\* is gone, has been told the end of it.
NobodyLeftWaiting ==
    /\ stream.pc = "ready" /\ stream.raised = "none"
    /\ Fired("requestheaders") \/ Fired("http_connect")
    /\ client.phase \in {"ended", "tunnel", "closed", "failed"}
    /\ upstream.phase \in {"ended", "switched", "tunnel", "closed", "failed"} \/ Abandoned \/ ~Contacted
    => /\ Fired("requestheaders") => Fired("error") \/ Fired("response")
       /\ Told("end") \/ Told("error") \/ Told("close") \/ client.phase = "failed"

\* A tunnel misses nothing: its child layer has been started, and has then been told,
\* once, in order and in its own terms, whatever the peers have sent, also while the
\* hooks that lead to it were still running, and when they stopped.  A failure of a
\* peer, be it the reset of a CONNECT's stream or one queued behind the last hook before
\* an upgrade, it is not told as an end but as the protocol error it does not expect.
Heard(what) == Count(stream.toChild, what)
One(happened) == IF happened THEN 1 ELSE 0
TunnelStory ==
    stream.passthrough =>
        /\ Head(stream.toChild) = "start" /\ Heard("start") = 1
        /\ Heard("clientData") = client.raw
        /\ Heard("serverData") = upstream.raw
        /\ Heard("clientClosed") = One(client.phase = "closed")
        /\ Heard("serverClosed") = One(upstream.phase = "closed")
        /\ Heard("error") = client.errors + upstream.errors
        /\ \A i \in DOMAIN stream.toChild :
              stream.toChild[i] \in {"clientClosed", "serverClosed"} =>
                 \A j \in i .. Len(stream.toChild) : stream.toChild[j] #
                     (IF stream.toChild[i] = "clientClosed" THEN "clientData" ELSE "serverData")
=============================================================================
