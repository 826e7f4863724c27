------------------------------- MODULE HttpPool -------------------------------
(***************************************************************************)
(* The connection pool of proxy/layers/http/__init__.py HttpLayer, with the *)
(* protocol objects it hands requests to (_http1.py, _http2.py) and the     *)
(* tunnel below a new connection (proxy/tunnel.py, tls.py ServerTLSLayer).  *)
(*                                                                          *)
(* A stream that has its request asks for a connection (GetHttpConnection)  *)
(* and is paused until the reply.  The layer finds it a connection, lets it *)
(* wait for one that is being opened, or opens one.  Commands are executed  *)
(* while they are yielded, so everything below happens in one step with the *)
(* event that causes it: the pool is one record, and the operators take it  *)
(* and return what the code leaves.                                         *)
(*                                                                          *)
(* A request is one event: HttpStream.tla has the order of its parts.  A    *)
(* stream is represented by what the pool sees of it.                       *)
(***************************************************************************)
EXTENDS Naturals, Sequences, FiniteSets, FiniteSetsExt, SequencesExt

CONSTANTS
    Streams,      \* the streams of one client connection, in the order they come to ask
    Addrs,        \* server addresses (with everything connection_spec_matches compares)
    Limits,       \* what an HTTP/2 server may set MAX_CONCURRENT_STREAMS to
    Provisional,  \* provisional_max_concurrency
    NoAddr        \* the address of a context server that is not known yet

ASSUME LimitAssumption == Provisional \in Nat /\ Limits \subseteq Nat
ASSUME StreamAssumption == Streams \subseteq Nat
ASSUME AddrAssumption == NoAddr \notin Addrs

VARIABLES
    pool,   \* the HttpLayer: see Pool
    alpn,   \* what the client speaks: "h1" or "h2"
    secure  \* the addresses that are reached over TLS

vars == <<pool, alpn, secure>>

Protocols == {"h1", "h2"}
Status == {"closed", "open"}

\* What HttpClient's OpenConnection has come to: the server's reply is awaited, then the
\* TLS layer is paused at a hook or waits for the handshake.  While it is pending the
\* connection is a key of waiting_for_establishment.
Stages == {"connect", "tls_start", "handshake", "tls_established", "tls_failed", "done"}

\* An entry of `connections` and the layers it leads to.  gone: its ConnectionClosed
\* is in the queue of a TLS layer that is paused.  busy: Http1Client.stream_id or
\* Http2Client.streams.  queue: Http2Client.stream_queue.
Connection ==
    [addr : Addrs \cup {NoAddr}, status : Status, error : BOOLEAN, alpn : Protocols,
     stage : Stages, gone : BOOLEAN, waiting : Seq(Streams),
     busy : SUBSET Streams, queue : Seq(Streams), limit : Nat]

\* A stream is waiting while its GetHttpConnection is in command_sources; left is
\* set when the client has reset it meanwhile.
Stream ==
    [state : {"new", "waiting", "sent", "answered", "failed", "reset"},
     addr : Addrs \cup {NoAddr}, left : BOOLEAN]

\* context.server until it is a key of `connections`.
Context == [addr : Addrs \cup {NoAddr}, status : Status, error : BOOLEAN,
            alpn : Protocols, known : BOOLEAN]

Pool == [conns : Seq(Connection), stream : [Streams -> Stream], context : Context,
         crashed : BOOLEAN]

Elems(s) == {s[i] : i \in DOMAIN s}

\* context.server: not connected (regular mode, lazy strategy), connected eagerly, or
\* with an error.
Contexts ==
    {[addr |-> a, status |-> "open", error |-> FALSE, alpn |-> p, known |-> FALSE] :
        a \in Addrs, p \in Protocols}
    \cup {[addr |-> a, status |-> "closed", error |-> e, alpn |-> "h1", known |-> FALSE] :
            a \in Addrs, e \in BOOLEAN}
    \cup {[addr |-> NoAddr, status |-> "closed", error |-> FALSE, alpn |-> "h1",
           known |-> FALSE]}

Init ==
    /\ alpn \in Protocols /\ secure \in SUBSET Addrs
    /\ \E context \in Contexts :
         /\ context.alpn = "h2" => context.addr \in secure
         /\ pool = [conns |-> <<>>, context |-> context, crashed |-> FALSE,
                    stream |-> [s \in Streams |->
                                  [state |-> "new", addr |-> NoAddr, left |-> FALSE]]]

-----------------------------------------------------------------------------
\* The protocol objects.

Outcome(p, s, state) == [p EXCEPT !.stream[s].state = state]

HasFree(k) == Cardinality(k.busy) < k.limit

\* A queued stream that can go: its events are replayed, which for one that was reset
\* meanwhile opens and closes it.
Resumed(k, s, stream) ==
    CASE ~HasFree(k)                -> [k EXCEPT !.queue = Append(@, s)]
      [] HasFree(k) /\ stream[s].left -> k
      [] OTHER                      -> [k EXCEPT !.busy = @ \cup {s}]

\* Mutant: nothing is resumed when a stream ends.
NothingResumed(p, c) == p
\* can_resume_queue, again after each event that is replayed.
ResumeQueue(p, c) ==
    LET step(k, s) == Resumed(k, s, p.stream)
    IN  [p EXCEPT !.conns[c] = FoldLeft(step, [@ EXCEPT !.queue = <<>>], @.queue)]

\* RequestHeaders to RequestEndOfMessage: Http1Client.send, Http2Client._handle_event.
Deliver(p, s, c) ==
    LET k == p.conns[c] IN
    CASE k.alpn = "h1" /\ k.busy \subseteq {s}  -> [p EXCEPT !.conns[c].busy = {s}]
      [] k.alpn = "h1" /\ ~(k.busy \subseteq {s}) -> [p EXCEPT !.crashed = TRUE]
      [] k.alpn = "h2" /\ HasFree(k)  -> [p EXCEPT !.conns[c].busy = @ \cup {s}]
      [] k.alpn = "h2" /\ ~HasFree(k) -> [p EXCEPT !.conns[c].queue = Append(@, s)]

\* RequestProtocolError: HTTP/1 gives the connection up, HTTP/2 resets the stream, or
\* queues the reset behind the request.  A closed connection ignores it.
Reset(p, s, c) ==
    CASE p.conns[c].status = "closed" -> p
      [] p.conns[c].status = "open" /\ p.conns[c].alpn = "h1" ->
           [p EXCEPT !.conns[c].status = "closed", !.conns[c].busy = {}]
      [] OTHER -> ResumeQueue([p EXCEPT !.conns[c].busy = @ \ {s}], c)

-----------------------------------------------------------------------------
\* The replies to GetHttpConnection.

\* command_sources.pop: a second reply to the same command is a KeyError.
Replied(p, s, state) ==
    IF p.stream[s].state = "waiting" THEN Outcome(p, s, state)
    ELSE [p EXCEPT !.crashed = TRUE]

\* (None, err): the stream answers its client with an error.
Fail(p, s) == Replied(p, s, "failed")

\* (connection, None): the stream sends its request, and a reset that was queued.
Use(p, s, c) ==
    LET sent == Deliver(Replied(p, s, "sent"), s, c)
    IN  IF p.stream[s].left THEN Reset(Outcome(sent, s, "reset"), s, c) ELSE sent

Pending(k) == k.stage # "done"

Entry(addr, status, protocol, waiting) ==
    [addr |-> addr, status |-> status, error |-> FALSE, alpn |-> protocol,
     stage |-> IF waiting = <<>> THEN "done" ELSE "connect", gone |-> FALSE,
     waiting |-> waiting,
     busy |-> {}, queue |-> <<>>, limit |-> Provisional]

\* A connection that is being opened; its protocol is not known yet.
Open(p, s) ==
    [p EXCEPT !.conns = Append(@, Entry(p.stream[s].addr, "closed", "h1", <<s>>))]

\* context.server becomes an entry of `connections`.
Adopt(p) ==
    [p EXCEPT !.conns = Append(@, Entry(p.context.addr, p.context.status,
                                        p.context.alpn, <<>>)),
              !.context.known = TRUE]

\* Mutant: nobody looks whether the client is multiplexing onto HTTP/1.
H2ToH1Never(k) == FALSE
H2ToH1(k) == alpn = "h2" /\ k.alpn # "h2"

\* What a suitable connection in the pool is good for.
Reuse(p, s, c) ==
    LET k == p.conns[c] IN
    CASE Pending(k)              -> [p EXCEPT !.conns[c].waiting = Append(@, s)]
      [] ~Pending(k) /\ k.error  -> Fail(p, s)
      [] OTHER                   -> Use(p, s, c)

\* Mutant: a failed connection is passed over like a closed one.
SuitableUnlessFailed(p, s) ==
    {c \in DOMAIN p.conns :
        LET k == p.conns[c] IN
        /\ k.addr = p.stream[s].addr
        /\ Pending(k) \/ (k.status = "open" /\ ~H2ToH1(k))}
\* Connections are looked at in the order in which they were made; one that has
\* closed without an error, or may not be shared, is passed over.
Suitable(p, s) ==
    {c \in DOMAIN p.conns :
        LET k == p.conns[c] IN
        /\ k.addr = p.stream[s].addr
        /\ Pending(k) \/ k.error \/ (k.status = "open" /\ ~H2ToH1(k))}

MakeConnection(p, s) ==
    LET matches == ~p.context.known /\ p.context.addr = p.stream[s].addr IN
    CASE matches /\ p.context.error -> Fail(p, s)
      [] matches /\ ~p.context.error /\ p.context.status = "open" ->
           Use(Adopt(p), s, Len(p.conns) + 1)
      [] OTHER -> Open(p, s)

\* get_connection, with and without reuse.
GetConnection(p, s) ==
    IF Suitable(p, s) # {} THEN Reuse(p, s, Min(Suitable(p, s))) ELSE MakeConnection(p, s)
GetUnused(p, s) == MakeConnection(p, s)

\* op for each of the waiting streams, the pool between two of them evaluated once.
InTurn(op(_, _), p, waiting) ==
    FoldLeft(LAMBDA r, s : CHOOSE t \in {op(q, s) : q \in {r}} : TRUE, p, waiting)

\* Mutant: those behind the first waiter are forgotten when HTTP/1 was negotiated.
RegisterFirstOnly(p, c) ==
    LET k == p.conns[c]
        q == [p EXCEPT !.conns[c].stage = "done", !.conns[c].waiting = <<>>]
    IN  CASE k.error               -> InTurn(Fail, q, k.waiting)
          [] ~k.error /\ H2ToH1(k) -> Use(q, Head(k.waiting), c)
          [] OTHER -> InTurn(LAMBDA r, s : Use(r, s, c), q, k.waiting)
\* register_connection.
RegisterConnection(p, c) ==
    LET k == p.conns[c]
        q == [p EXCEPT !.conns[c].stage = "done", !.conns[c].waiting = <<>>]
    IN  CASE k.error -> InTurn(Fail, q, k.waiting)
          [] ~k.error /\ H2ToH1(k) ->
               InTurn(GetUnused, Use(q, Head(k.waiting), c), Tail(k.waiting))
          [] OTHER -> InTurn(LAMBDA r, s : Use(r, s, c), q, k.waiting)

-----------------------------------------------------------------------------
\* Events.

Established(c) == ~Pending(pool.conns[c]) /\ pool.conns[c].status = "open"

\* A stream reaches make_server_connection.  An HTTP/1 client sends its next request
\* when the last one is answered, and not after an error.
Request(s, a) ==
    /\ pool.stream[s].state = "new"
    /\ \A t \in Streams : t < s => pool.stream[t].state # "new"
    /\ alpn = "h1" => \A t \in Streams : pool.stream[t].state \in {"new", "answered"}
    /\ pool' = GetConnection([pool EXCEPT !.stream[s].state = "waiting",
                                          !.stream[s].addr = a], s)
    /\ UNCHANGED <<alpn, secure>>

\* The client resets a stream: a paused stream queues that, another passes it on.
ClientReset(s) ==
    LET p == [pool EXCEPT !.stream[s].left = TRUE] IN
    /\ ~pool.stream[s].left
    /\ \/ pool.stream[s].state = "waiting" /\ pool' = p
       \/ /\ pool.stream[s].state = "sent"
          /\ LET at == {c \in DOMAIN pool.conns :
                          s \in pool.conns[c].busy \cup Elems(pool.conns[c].queue)}
             IN  pool' = IF at = {} THEN Outcome(p, s, "reset")
                         ELSE Reset(Outcome(p, s, "reset"), s, Min(at))
    /\ UNCHANGED <<alpn, secure>>

At(c, stage) == pool.conns[c].stage = stage

\* The transport is there; the server runs a hook before it replies.
TransportOpens(c) ==
    /\ At(c, "connect")
    /\ pool.conns[c].status = "closed" /\ ~pool.conns[c].error
    /\ pool' = [pool EXCEPT !.conns[c].status = "open"]
    /\ UNCHANGED <<alpn, secure>>

\* The attempt fails: the server notes the error, and runs a hook before it replies.
AttemptFails(c) ==
    /\ At(c, "connect") /\ ~pool.conns[c].error
    /\ pool' = [pool EXCEPT !.conns[c].status = "closed", !.conns[c].error = TRUE]
    /\ UNCHANGED <<alpn, secure>>

\* The reply to the OpenConnection is HttpClient's, which registers the connection, or
\* the TLS layer's, which starts the handshake.
Connected(c) ==
    /\ At(c, "connect")
    /\ LET k == pool.conns[c] IN
       \/ k.error /\ pool' = RegisterConnection(pool, c)
       \/ k.status = "open" /\ k.addr \notin secure /\ pool' = RegisterConnection(pool, c)
       \/ k.status = "open" /\ k.addr \in secure
             /\ pool' = [pool EXCEPT !.conns[c].stage = "tls_start"]
    /\ UNCHANGED <<alpn, secure>>

\* on_handshake_error, up to its hook.
HandshakeError(p, c) == [p EXCEPT !.conns[c].error = TRUE, !.conns[c].stage = "tls_failed"]

\* The tls_start_server hook is over.  Without a TLS context the connection is closed,
\* and its end is awaited, if it has not come already.
HandshakeStarts(c) ==
    /\ At(c, "tls_start")
    /\ \E context \in BOOLEAN :
         LET p == [pool EXCEPT !.conns[c].stage = "handshake",
                               !.conns[c].status = IF context THEN @ ELSE "closed"]
         IN  pool' = IF pool.conns[c].gone THEN HandshakeError(p, c) ELSE p
    /\ UNCHANGED <<alpn, secure>>

\* The server completes the handshake, and chooses the protocol, or fails it.
HandshakeCompletes(c, protocol) ==
    /\ At(c, "handshake") /\ pool.conns[c].status = "open"
    /\ pool' = [pool EXCEPT !.conns[c].stage = "tls_established", !.conns[c].alpn = protocol]
    /\ UNCHANGED <<alpn, secure>>

HandshakeFails(c) ==
    /\ At(c, "handshake") /\ pool.conns[c].status = "open"
    /\ pool' = HandshakeError(pool, c)
    /\ UNCHANGED <<alpn, secure>>

\* The server closes the connection, or its task is cancelled; a paused TLS layer queues
\* that.
TunnelCloses(c) ==
    /\ pool.conns[c].stage \in {"tls_start", "handshake", "tls_established", "tls_failed"}
    /\ ~pool.conns[c].gone
    /\ LET p == [pool EXCEPT !.conns[c].status = "closed", !.conns[c].gone = TRUE]
       IN  pool' = IF At(c, "handshake") THEN HandshakeError(p, c) ELSE p
    /\ UNCHANGED <<alpn, secure>>

\* The streams in flight get a ResponseProtocolError; the queue is not looked at.
Closed(p, c) ==
    [p EXCEPT !.conns[c].status = "closed", !.conns[c].busy = {},
              !.stream = [s \in Streams |->
                            IF s \in p.conns[c].busy /\ ~p.stream[s].left
                            THEN [p.stream[s] EXCEPT !.state = "failed"] ELSE p.stream[s]]]

\* Mutant: _handshake_finished does not reply to an OpenConnection that has failed.
RepliesUnlessFailed(c) ==
    /\ At(c, "tls_established")
    /\ pool' = RegisterConnection(pool, c)
    /\ UNCHANGED <<alpn, secure>>
\* The hook is over and the OpenConnection is replied to; then a queued close follows.
HandshakeFinished(c) ==
    /\ \/ /\ At(c, "tls_established")
          /\ \E p \in {RegisterConnection(pool, c)} :
                pool' = IF pool.conns[c].gone THEN Closed(p, c) ELSE p
       \/ /\ At(c, "tls_failed")
          /\ pool' = RegisterConnection([pool EXCEPT !.conns[c].status = "closed"], c)
    /\ UNCHANGED <<alpn, secure>>

\* The end of a response.  HTTP/1: mark_done keeps the connection for another request
\* or closes it, always after a request that came in as HTTP/2.
Responded(p, c, s, keep) ==
    LET q == [Outcome(p, s, "answered") EXCEPT !.conns[c].busy = @ \ {s}] IN
    CASE q.conns[c].alpn = "h2" -> ResumeQueue(q, c)
      [] q.conns[c].alpn = "h1" /\ keep /\ alpn = "h1" -> q
      [] OTHER -> [q EXCEPT !.conns[c].status = "closed"]

Respond(c, s) ==
    /\ Established(c) /\ s \in pool.conns[c].busy
    /\ \E keep \in BOOLEAN : pool' = Responded(pool, c, s, keep)
    /\ UNCHANGED <<alpn, secure>>

\* An HTTP/2 server resets a stream.
ServerReset(c, s) ==
    /\ Established(c) /\ pool.conns[c].alpn = "h2" /\ s \in pool.conns[c].busy
    /\ pool' = ResumeQueue([Outcome(pool, s, "failed") EXCEPT !.conns[c].busy = @ \ {s}], c)
    /\ UNCHANGED <<alpn, secure>>

\* An HTTP/2 server announces its limit.
Settings(c, limit) ==
    /\ Established(c) /\ pool.conns[c].alpn = "h2" /\ limit # pool.conns[c].limit
    /\ pool' = ResumeQueue([pool EXCEPT !.conns[c].limit = limit], c)
    /\ UNCHANGED <<alpn, secure>>

\* The server closes, ends its HTTP/2 session or violates the protocol.
ServerCloses(c) ==
    /\ Established(c)
    /\ pool' = Closed(pool, c)
    /\ UNCHANGED <<alpn, secure>>

\* context.server closes before it is used, or sends before it is asked: it becomes an
\* entry, which HTTP/1 closes at once.
ContextEvent ==
    /\ ~pool.context.known /\ pool.context.status = "open"
    /\ \/ pool' = [pool EXCEPT !.context.status = "closed"]
       \/ pool' = LET p == Adopt(pool) IN
                  IF pool.context.alpn = "h2" THEN p ELSE Closed(p, Len(p.conns))
    /\ UNCHANGED <<alpn, secure>>

Next ==
    \/ \E s \in Streams : ClientReset(s) \/ \E a \in Addrs : Request(s, a)
    \/ \E c \in DOMAIN pool.conns :
         \/ TransportOpens(c) \/ AttemptFails(c) \/ Connected(c) \/ ServerCloses(c)
         \/ HandshakeStarts(c) \/ \E protocol \in Protocols : HandshakeCompletes(c, protocol)
         \/ HandshakeFails(c) \/ TunnelCloses(c) \/ HandshakeFinished(c)
         \/ \E s \in Streams : Respond(c, s) \/ ServerReset(c, s)
         \/ \E limit \in Limits : Settings(c, limit)
    \/ ContextEvent

Spec == Init /\ [][Next]_vars

\* The server replies to every OpenConnection in the end (ConnectionHandler.tla says
\* when), hooks return, and no peer leaves a handshake open for ever.
Attempts == \E c \in DOMAIN pool.conns :
    \/ TransportOpens(c) \/ AttemptFails(c) \/ Connected(c) \/ HandshakeStarts(c)
    \/ At(c, "handshake") /\ TunnelCloses(c)
    \/ HandshakeFails(c) \/ HandshakeFinished(c)
    \/ \E protocol \in Protocols : HandshakeCompletes(c, protocol)
Fairness == WF_vars(Attempts)
FairSpec == Spec /\ Fairness

-----------------------------------------------------------------------------
(* Properties *)

TypeOK == pool \in Pool /\ alpn \in Protocols /\ secure \subseteq Addrs

\* However attempts, protocols and resets interleave, an HTTP/1 connection carries one
\* exchange at a time, and no GetHttpConnection is answered twice: the assertion in
\* Http1Client.send holds and command_sources has every entry that is popped.
ExchangesSeparate ==
    /\ ~pool.crashed
    /\ \A c \in DOMAIN pool.conns : pool.conns[c].alpn = "h1" =>
          Cardinality(pool.conns[c].busy) <= 1 /\ pool.conns[c].queue = <<>>

\* A stream that waits for a reply waits once, in the list of one connection that is
\* still being made.
Waits(s) ==
    \E c \in DOMAIN pool.conns :
        /\ Pending(pool.conns[c])
        /\ s \in Elems(pool.conns[c].waiting)
        /\ IsInjective(pool.conns[c].waiting)
        /\ \A d \in DOMAIN pool.conns \ {c} : s \notin Elems(pool.conns[d].waiting)

\* A request that was handed to a connection and has no outcome is in flight on an
\* open connection, or is queued where the limit is used up, or was queued when the
\* connection closed: Http2Client tells only the streams it has opened.
Underway(s) ==
    \E c \in DOMAIN pool.conns :
        LET k == pool.conns[c] IN
        \/ s \in k.busy /\ k.status = "open"
        \/ s \in Elems(k.queue) /\ (k.status = "open" => Cardinality(k.busy) >= k.limit)

\* No stream is forgotten between its request for a connection and its answer,
\* whatever becomes of connections, protocols and limits meanwhile, but in a queue whose
\* connection has closed.
NobodyForgotten ==
    \A s \in Streams : CASE pool.stream[s].state = "waiting" -> Waits(s)
                        [] pool.stream[s].state = "sent"    -> Underway(s)
                        [] OTHER                            -> TRUE

\* Connection.error says that "new connections to the particular endpoint should not
\* be attempted".  None is, once an attempt has failed, except for the streams that
\* register_connection sends away from an HTTP/1 connection, which it no longer checks.
SentAway == \E c \in DOMAIN pool.conns :
    /\ Pending(pool.conns[c]) /\ ~Pending(pool'.conns[c])
    /\ H2ToH1(pool'.conns[c])
NoAttemptAfterError ==
    [][\A c \in DOMAIN pool'.conns \ DOMAIN pool.conns, d \in DOMAIN pool.conns :
          pool.conns[d].error => pool'.conns[c].addr # pool.conns[d].addr \/ SentAway]_vars

\* Every request for a connection gets its reply.
WaitersAnswered ==
    \A s \in Streams : (pool.stream[s].state = "waiting") ~> (pool.stream[s].state # "waiting")

==============================================================================
