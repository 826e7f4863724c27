-------------------------------- MODULE Relay --------------------------------
(***************************************************************************)
(* The layers that relay messages between a client and a server:            *)
(* proxy/layers/tcp.py, udp.py and websocket.py, between the two reading    *)
(* tasks of proxy/server.py, which change the connections' state when a     *)
(* peer closes, not when the layer gets to hear of it.                      *)
(*                                                                          *)
(* The layer pauses at every hook and while the server is connected; what   *)
(* arrives meanwhile is queued and replayed (Layer.tla).  One message or    *)
(* close is handled per step, and nothing arrives while a queue is being    *)
(* replayed.  A message is its number among those of its side; one that an  *)
(* addon drops counts as passed on.  WebSocket frames are messages here:    *)
(* fragments, pings and the extensions are left out.                        *)
(***************************************************************************)
EXTENDS Naturals, Sequences, FiniteSets

CONSTANTS
    MaxData,    \* bound: messages a side sends
    MaxInject   \* bound: messages the user injects

ASSUME BoundAssumption == MaxData \in Nat /\ MaxInject \in Nat

VARIABLES
    kind,      \* which of the layers it is
    relay,     \* the layer object: see Layer
    state,     \* Connection.state of each side
    reading,   \* the sides whose task in handle_connection still reads
    stopped,   \* history: the sides that have closed, or sent a close frame
    injected   \* how many messages the user has injected

relayVars == <<kind, relay, state, reading, stopped, injected>>

Sides == {"client", "server"}
Other(s) == CHOOSE t \in Sides : t # s

Open == {"read", "write"}
Closed == {}

RelayEvents == [type : {"data", "closed"}, side : Sides, n : Nat]

\* at: the hook or command the layer is paused at.  flow: there is one, it is not being
\* ignored.  draining: __continue goes through the queue.  taken, passed: history, the
\* messages that came in, and those for which SendData was yielded.
Layer ==
    [phase : {"start", "relay", "done"}, flow : BOOLEAN, linked : BOOLEAN,
     at : {"none", "start", "open", "message", "error", "end"}, event : RelayEvents,
     queue : Seq(RelayEvents), draining : BOOLEAN,
     hooks : [{"start", "message", "error", "end"} -> Nat], live : BOOLEAN,
     taken : [Sides -> Nat], passed : [Sides -> Seq(Nat)], crashed : BOOLEAN]

Close(side) == [type |-> "closed", side |-> side, n |-> 0]
Numbered(side, n) == [type |-> "data", side |-> side, n |-> n]
NoEvent == Close("client")    \* while no message is held by its hook

-----------------------------------------------------------------------------
\* The layer.  Operators on [r : Layer, state : ...] return what the code leaves.

Pause(x, at) == [x EXCEPT !.r.at = at, !.r.draining = FALSE]
Hook(x, name) == [Pause(x, name) EXCEPT !.r.hooks[name] = @ + 1]

\* CloseConnection: the connection's task is cancelled.
CloseConnections(x, sides) ==
    [x EXCEPT !.state = [s \in Sides |-> IF s \in sides THEN Closed ELSE @[s]]]

\* CloseTcpConnection(half_close=True); a connection without CAN_WRITE is left alone.
HalfClose(x, s) == [x EXCEPT !.state[s] = @ \ {"write"}]

\* SendData: to a peer that was sent an EOF it is a RuntimeError in server_event, which
\* drops what is left of the generator.  A connection that has closed ignores it.
Send(x, e) ==
    IF x.state[Other(e.side)] = {"read"}
    THEN [x EXCEPT !.r.crashed = TRUE, !.r.draining = FALSE]
    ELSE [x EXCEPT !.r.passed[e.side] = Append(@, e.n)]

Message(x, e) ==
    IF x.r.flow THEN Hook([x EXCEPT !.r.event = e], "message") ELSE Send(x, e)

\* The flow has ended.
Ended(x) == IF x.r.flow THEN Hook(x, "end") ELSE x

\* Mutant: nobody looks at the other direction.
AllDoneAtOnce(x) == TRUE
\* Both connections' state when the event is handled, which may be long after it arrived.
AllDone(x) == \A s \in Sides : "read" \notin x.state[s]

\* Mutant: the layer does not leave relay_messages.
TcpClosedStays(x, e) ==
    IF AllDone(x) THEN Ended(CloseConnections(x, Sides)) ELSE HalfClose(x, Other(e.side))
TcpClosed(x, e) ==
    IF AllDone(x) THEN Ended(CloseConnections([x EXCEPT !.r.phase = "done"], Sides))
    ELSE HalfClose(x, Other(e.side))

\* Mutant: the layer does not leave relay_messages.
UdpClosedStays(x, e) == Ended(CloseConnections(x, {Other(e.side)}))
UdpClosed(x, e) == Ended(CloseConnections([x EXCEPT !.r.phase = "done"], {Other(e.side)}))

WebSocketClosed(x) == Ended(CloseConnections(x, Sides))

\* _handle_event.
Handle(x, e) ==
    CASE x.r.phase = "done"                        -> x
      [] x.r.phase # "done" /\ e.type = "data"     -> Message(x, e)
      [] x.r.phase # "done" /\ e.type = "closed" /\ kind = "tcp" -> TcpClosed(x, e)
      [] x.r.phase # "done" /\ e.type = "closed" /\ kind = "udp" -> UdpClosed(x, e)
      [] OTHER                                     -> WebSocketClosed(x)

\* handle_event for anything but the reply to a pause.
Arrived(x, e) ==
    IF x.r.at # "none" THEN [x EXCEPT !.r.queue = Append(@, e)]
    ELSE Handle([x EXCEPT !.r.draining = FALSE], e)

\* start, from the point where the hook is over.
Connect(x) == IF x.r.linked THEN [x EXCEPT !.r.phase = "relay"] ELSE Pause(x, "open")

\* Mutant: __continue does not look at the queue.
ContinuedUndrained(x) == [x EXCEPT !.r.at = "none", !.r.event = NoEvent]
\* __continue: the reply resumes the generator, then the queue is replayed.
Continued(x) == [x EXCEPT !.r.at = "none", !.r.event = NoEvent, !.r.draining = TRUE]

-----------------------------------------------------------------------------

x0 == [r |-> relay, state |-> state]
Becomes(x) == relay' = x.r /\ state' = x.state

RelayInit ==
    /\ kind \in {"tcp", "udp", "websocket"}
    /\ reading \in {{"client"}, Sides}
    /\ state = [s \in Sides |-> IF s \in reading THEN Open ELSE Closed]
    /\ stopped = {} /\ injected = 0
    /\ \E flow \in BOOLEAN :
         LET new == [phase |-> "start", flow |-> flow, linked |-> reading = Sides,
                     at |-> "none", event |-> NoEvent, queue |-> <<>>,
                     draining |-> FALSE, crashed |-> FALSE, live |-> flow,
                     hooks |-> [h \in {"start", "message", "error", "end"} |-> 0],
                     taken |-> [s \in Sides |-> 0], passed |-> [s \in Sides |-> <<>>]]
             x == [r |-> new, state |-> state]
         IN  /\ kind = "websocket" => flow /\ new.linked
             /\ relay = IF flow THEN Hook(x, "start").r ELSE Connect(x).r

\* Nothing else happens while a queue is replayed.
Idle == ~(relay.draining /\ relay.queue # <<>>)

Incoming(s) ==
    LET n == relay.taken[s] + 1
    IN  Becomes(Arrived([x0 EXCEPT !.r.taken[s] = n], Numbered(s, n)))

\* handle_connection reads something; after a cancellation once more, perhaps.
Data(s) ==
    /\ Idle /\ s \in reading
    /\ relay.taken[s] < MaxData
    /\ Incoming(s)
    /\ UNCHANGED <<kind, reading, stopped, injected>>

\* The peer closes, or the task is cancelled: by CloseConnection, by a timeout, by a
\* write error, or because the client has gone.
Ends(s) ==
    /\ Idle /\ s \in reading
    /\ \E cancelled \in BOOLEAN :
         /\ state[s] = Closed => cancelled
         /\ LET left == IF ~cancelled /\ kind # "udp" THEN state[s] \ {"read"} ELSE Closed
                x == [x0 EXCEPT !.state[s] = left]
            IN  Becomes(Arrived(x, Close(s)))
    /\ reading' = reading \ {s}
    /\ stopped' = stopped \cup {s}
    /\ UNCHANGED <<kind, injected>>

\* A WebSocket close frame.
CloseFrame(s) ==
    /\ Idle /\ s \in reading \ stopped
    /\ kind = "websocket"
    /\ Becomes(Arrived(x0, Close(s)))
    /\ stopped' = stopped \cup {s}
    /\ UNCHANGED <<kind, reading, injected>>

\* inject.tcp, inject.udp, inject.websocket.
Inject(s) ==
    /\ Idle /\ relay.flow
    /\ injected < MaxInject
    /\ injected' = injected + 1
    /\ Incoming(s)
    /\ UNCHANGED <<kind, reading, stopped>>

\* The reply to a hook.
HookReturns ==
    /\ \/ /\ relay.at = "start"
          /\ Becomes(Connect(Continued(x0)))
       \/ /\ relay.at = "message"
          /\ Becomes(Send(Continued(x0), relay.event))
       \/ /\ relay.at = "error"
          /\ Becomes(CloseConnections([Continued(x0) EXCEPT !.r.phase = "done"], {"client"}))
       \/ /\ relay.at = "end"
          /\ Becomes([Continued(x0) EXCEPT !.r.live = FALSE,
                        !.r.phase = IF kind = "websocket" THEN "done" ELSE @])
    /\ UNCHANGED <<kind, reading, stopped, injected>>

Opened ==
    /\ relay.at = "open"
    /\ Becomes([Continued(x0) EXCEPT !.r.phase = "relay", !.r.linked = TRUE,
                                     !.state["server"] = Open])
    /\ reading' = reading \cup {"server"}
    /\ UNCHANGED <<kind, stopped, injected>>

\* The error path does not touch flow.live.
OpenFails ==
    /\ relay.at = "open"
    /\ Becomes(IF relay.flow THEN Hook(x0, "error")
               ELSE CloseConnections([Continued(x0) EXCEPT !.r.phase = "done"], {"client"}))
    /\ UNCHANGED <<kind, reading, stopped, injected>>

Replay ==
    /\ relay.draining /\ relay.queue # <<>>
    /\ Becomes(Handle([x0 EXCEPT !.r.queue = Tail(@)], Head(relay.queue)))
    /\ UNCHANGED <<kind, reading, stopped, injected>>

RelayNext ==
    \/ \E s \in Sides : Data(s) \/ Ends(s) \/ CloseFrame(s) \/ Inject(s)
    \/ HookReturns \/ Opened \/ OpenFails \/ Replay

RelaySpec == RelayInit /\ [][RelayNext]_relayVars

\* Hooks return and connection attempts end; a cancelled task runs.
RelayFairness ==
    /\ WF_relayVars(HookReturns) /\ WF_relayVars(Opened \/ OpenFails) /\ WF_relayVars(Replay)
    /\ \A s \in Sides : WF_relayVars(state[s] = Closed /\ Ends(s))
RelayFairSpec == RelaySpec /\ RelayFairness

-----------------------------------------------------------------------------
(* Properties *)

RelayTypeOK ==
    /\ kind \in {"tcp", "udp", "websocket"}
    /\ relay \in Layer
    /\ state \in [Sides -> SUBSET Open]
    /\ reading \subseteq Sides /\ stopped \subseteq Sides
    /\ injected \in 0 .. MaxInject

\* The layer is two channels: each side's messages are passed on in order and without
\* a gap until the last side, or with UDP and WebSocket any side, has stopped, however
\* hooks and closes interleave.  It holds up to the step in which a message injected
\* towards a half-closed peer makes the layer crash.
Pipes == INSTANCE Channels WITH
    halfClose <- kind = "tcp",
    taken     <- relay.taken,
    passed    <- relay.passed,
    sending   <- Sides \ stopped,
    linked    <- relay.linked,
    cut       <- relay.phase = "done" \/ relay.at \in {"error", "end"}
Channelled == Pipes!Init /\ [][relay'.crashed \/ Pipes!Next]_(Pipes!vars)

\* "Every TCP flow will receive either a tcp_error or a tcp_end event, but not both"
\* (and UDP): no hook follows either of them.
Over == relay.hooks["end"] + relay.hooks["error"] > 0
OneEnd == [][Over => relay'.hooks = relay.hooks]_relayVars

\* Once both sides have stopped the flow gets its end, one end, and is no longer live,
\* in the end; only after tcp_error or udp_error, which leaves flow.live alone, it stays
\* live.
FlowEnds ==
    /\ OneEnd
    /\ (stopped = Sides) ~>
        (/\ relay.phase = "done" /\ relay.at = "none"
         /\ relay.flow => Over /\ (relay.live => relay.hooks["error"] > 0))

\* A message that came in is passed on, unless the relay ends first or has crashed.
Delivered ==
    \A s \in Sides : \A n \in 1 .. MaxData + MaxInject :
        (relay.taken[s] >= n)
            ~> (Len(relay.passed[s]) >= n \/ relay.phase = "done" \/ relay.crashed)

==============================================================================
