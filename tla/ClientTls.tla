------------------------------ MODULE ClientTls ------------------------------
(***************************************************************************)
(* proxy/layers/tls.py ClientTLSLayer over proxy/tunnel.py TunnelLayer: the *)
(* TLS handshake with the client, in front of the NextLayer it wraps.       *)
(* Until the tunnel is open everything meant for the child is kept; the     *)
(* layer itself pauses at up to four of its own commands, and what arrives  *)
(* then waits in the queue of Layer.handle_event.  A stack without TLS is   *)
(* the NextLayer alone.                                                     *)
(***************************************************************************)
EXTENDS Naturals, Sequences, SequencesExt


CONSTANTS Events, Commands, None, Data, Closed, StartEvent   \* as in NextLayer.tla

ASSUME KindAssumption ==
    /\ Data \cup Closed \subseteq Events
    /\ StartEvent \in Events \ (Data \cup Closed)
    /\ Data \cap Closed = {}

\* The client's connection is closed once.
ASSUME CloseAssumption == \E e \in Events : Closed = {e}

VARIABLES asking, askingQueue, events, chosen, replayed, rebound, pc, closing,
          asksOnStart, fed, stranded
VARIABLES paused, generator, mode, queue, outstanding, created,
          arrived, begun, raised
VARIABLE tls      \* the layer and what its client has sent: see TlsRec

Inner == INSTANCE NextLayer
ownVars == <<asking, askingQueue, events, chosen, replayed, rebound, pc, closing,
             asksOnStart, fed, stranded>>
innerVars == <<ownVars, paused, generator, mode, queue, outstanding, created,
               arrived, begun, raised>>
vars == <<innerVars, tls>>

Elems(s) == {s[i] : i \in DOMAIN s}

\* Bytes and events as they reach the layer.  load is what they hold for the child: of
\* the last handshake flight and of a record the decrypted data and close_notify.
Kinds == {"start", "hello", "junk", "finish", "record", "closed", "other"}
Raws == [kind : Kinds, load : Seq(Events)]
Bytes == {"hello", "junk", "finish", "record"}

TlsRec ==
    [used : BOOLEAN,                 \* there is such a layer in the stack
     late : BOOLEAN,                 \* the client was gone when it was started
     connected : BOOLEAN,            \* conn.connected: both directions open
     tunnel : {"inactive", "establishing", "open", "closed"},
     parsed : BOOLEAN,               \* client_hello_parsed
     engine : BOOLEAN,               \* self.tls is set
     at : {"none", "clienthello", "server", "tls_start", "tls_established",
           "tls_failed"},            \* the blocking command, if any
     early : Seq(Events),            \* decrypted with the handshake's last bytes
     kept : Seq(Events),             \* _event_queue
     waiting : Seq(Raws),            \* _paused_event_queue
     draining : BOOLEAN,             \* __continue works on that queue
     give : Seq(Events),             \* still to be passed to the child in this step
     notified : BOOLEAN,             \* RECEIVED_SHUTDOWN
     errored : BOOLEAN,              \* event_to_child is errored
     hung : BOOLEAN,                 \* the layer has sent CloseConnection
     seen : SUBSET Kinds,            \* history: what has arrived
     sent : Seq(Events)]             \* history: what it held for the child

TypeOK == Inner!TypeOK /\ tls \in TlsRec

\* A TunnelLayer's child is NextLayer(context), which does not ask on Start.
Init ==
    /\ Inner!Init
    /\ \E used, late, connected \in BOOLEAN :
         /\ used => ~asksOnStart
         /\ late => used /\ ~connected
         /\ ~connected => used
         /\ tls = [used |-> used, late |-> late, connected |-> connected,
                   tunnel |-> "inactive", parsed |-> FALSE, engine |-> FALSE,
                   at |-> "none", early |-> <<>>, kept |-> <<>>, waiting |-> <<>>,
                   draining |-> FALSE, give |-> <<>>, notified |-> FALSE,
                   errored |-> FALSE, hung |-> FALSE, seen |-> {}, sent |-> <<>>]

-----------------------------------------------------------------------------
(* What the layer does with an event; each operator returns the layers' next *)
(* states, as there may be several outcomes.                                 *)

\* Mutant: what comes during the handshake goes straight to the child.
ToChildAtOnce(t, s) ==
    IF t.errored THEN t ELSE [t EXCEPT !.give = @ \o s]

\* event_to_child, for each of s in turn.
ToChild(t, s) ==
    IF t.errored THEN t
    ELSE IF t.tunnel = "establishing" THEN [t EXCEPT !.kept = @ \o s]
    ELSE [t EXCEPT !.give = @ \o s]

Pause(t, command) == [t EXCEPT !.at = command]

\* on_handshake_error up to its hook.
Fail(t) == Pause(t, "tls_failed")

\* do_handshake: wants more, or fails.
Handshake(t) == {t, Fail(t)}

\* Mutant: the shutdown of the TLS session is passed on but not remembered.
DecryptForgetful(t, load) == ToChild(t, load)

\* receive_data: what the TLS session decrypts goes to the child.
Decrypt(t, load) ==
    [ToChild(t, load) EXCEPT !.notified = @ \/ Elems(load) \cap Closed # {}]

\* A handler that raises ends the drain of the queue with it.
Raised(t) == [t EXCEPT !.draining = FALSE]

\* Bytes after the tunnel left the handshake: without a TLS session AttributeError.
Receive(t, r) == IF t.engine THEN Decrypt(t, r.load) ELSE Raised(t)

\* receive_handshake_data: wait for the ClientHello, then feed the TLS session.
ReceiveHandshake(t, r) ==
    IF ~t.parsed THEN
        IF r.kind = "hello" THEN {Pause([t EXCEPT !.parsed = TRUE], "clienthello")}
                            ELSE {Fail(t)}
    ELSE IF r.kind = "finish" THEN
        {Pause([t EXCEPT !.early = r.load], "tls_established"), Fail(t)}
    ELSE {Fail(t)}

\* ConnectionClosed for the client.
ReceiveClose(t) ==
    IF t.tunnel = "establishing" THEN Fail(t)
    ELSE LET told == IF t.tunnel = "open" /\ ~t.notified
                     THEN ToChild(t, <<CHOOSE e \in Closed : TRUE>>) ELSE t
         IN  [told EXCEPT !.tunnel = "closed"]

Start(t) ==
    ToChild(IF t.late THEN t ELSE [t EXCEPT !.tunnel = "establishing"], <<StartEvent>>)

\* TunnelLayer._handle_event.
Handle(t, r) ==
    IF r.kind = "start" THEN {Start(t)}
    ELSE IF r.kind = "closed" THEN {ReceiveClose(t)}
    ELSE IF r.kind = "other" THEN {ToChild(t, r.load)}
    ELSE IF t.tunnel = "establishing" THEN ReceiveHandshake(t, r)
    ELSE {Receive(t, r)}

\* start_tls, once the server has been dealt with.
StartTls(t) == Pause(t, "tls_start")

\* The reply to tls_start_client: without a context the connection is closed; one that
\* is no longer open in both directions fails the handshake.
TlsStarted(t) ==
    LET ready == [t EXCEPT !.engine = TRUE]
        refused == Fail([t EXCEPT !.connected = FALSE, !.hung = TRUE])
    IN  {refused} \cup (IF t.connected THEN Handshake(ready) ELSE {Fail(ready)})

\* Mutant: what was kept during the handshake is forgotten.
EstablishedForgetful(t) ==
    LET full == Decrypt(t, t.early)
    IN  {[full EXCEPT !.tunnel = "open", !.give = <<>>, !.kept = <<>>, !.early = <<>>]}

\* The reply to tls_established_client: decrypt what came with the handshake, which is
\* kept like everything else, open the tunnel and replay.
Established(t) ==
    LET full == Decrypt(t, t.early)
    IN  {[full EXCEPT !.tunnel = "open", !.give = full.kept, !.kept = <<>>, !.early = <<>>]}

\* Mutant: the client's connection is left open after a failed handshake.
FailedLeftOpen(t) ==
    {[t EXCEPT !.errored = TRUE, !.tunnel = "closed", !.kept = <<>>]}

\* The reply to tls_failed_client: close, and swallow what was kept and all that follows.
Failed(t) ==
    {[t EXCEPT !.hung = TRUE, !.errored = TRUE, !.connected = FALSE,
               !.tunnel = "closed", !.kept = <<>>]}

\* The generator goes on when its command is answered.
Resume(t) ==
    LET r == [t EXCEPT !.at = "none"] IN
    CASE t.at = "clienthello" -> {StartTls(r), Pause(r, "server")}
      [] t.at = "server" -> {StartTls(r)}
      [] t.at = "tls_start" -> TlsStarted(r)
      [] t.at = "tls_established" -> Established(r)
      [] t.at = "tls_failed" -> Failed(r)

-----------------------------------------------------------------------------

\* Neither layer is executing.
Quiet == tls.give = <<>> /\ ~tls.draining /\ Inner!Idle

\* Mutant: an event for the paused layer overtakes those that wait.
DeliverInFront(r, t) ==
    IF t.at = "none" THEN tls' \in Handle(t, r)
    ELSE tls' = [t EXCEPT !.waiting = <<r>> \o @]

\* Layer.handle_event of the TLS layer.
Deliver(r, t) ==
    IF t.at = "none" THEN tls' \in Handle(t, r)
    ELSE tls' = [t EXCEPT !.waiting = Append(@, r)]

New(S) == S \ Elems(tls.sent)

\* A record or a last flight holds at most one piece of data and a close_notify.
Loads ==
    {d \o c : d \in {<<>>} \cup {<<e>> : e \in New(Data)},
              c \in {<<>>} \cup {<<e>> : e \in New(Closed)}}

\* What the client and the rest of the proxy may send next.  A client ends its part of
\* the handshake when it has been answered and sends nothing after close_notify; bytes stop
\* with the connection.
MaySend(kind) ==
    /\ kind \notin tls.seen \/ kind \in {"record", "other"}
    /\ (kind = "start") = (tls.seen = {})
    /\ kind \in Bytes => ~tls.hung /\ "closed" \notin tls.seen /\ New(Closed) # {}
    /\ kind = "finish" => tls.engine /\ tls.at = "none" /\ ~tls.errored
    /\ kind = "record" => "finish" \in tls.seen

LoadsOf(kind) ==
    CASE kind = "start" -> {<<StartEvent>>}
      [] kind = "finish" -> Loads
      [] kind = "record" -> Loads \ {<<>>}
      [] kind = "closed" -> {IF New(Closed) = {} THEN <<>> ELSE <<CHOOSE e \in Closed : TRUE>>}
      [] kind = "other" -> {<<e>> : e \in New(Events \ (Data \cup Closed \cup {StartEvent}))}
      [] OTHER -> {<<>>}

\* Something arrives.
Arrive(kind) ==
    /\ tls.used /\ Quiet /\ MaySend(kind)
    /\ \E load \in LoadsOf(kind) :
         Deliver([kind |-> kind, load |-> load],
                 [tls EXCEPT !.seen = @ \cup {kind}, !.sent = @ \o load,
                             !.connected = @ /\ kind # "closed"])
    /\ UNCHANGED innerVars

\* The reply to the layer's own command.
TlsHookDone ==
    /\ Quiet /\ tls.at # "none"
    /\ tls' \in {[t EXCEPT !.draining = TRUE] : t \in Resume(tls)}
    /\ UNCHANGED innerVars

\* event_to_child for the next event.
GiveNext ==
    /\ tls.give # <<>> /\ Inner!Idle
    /\ Inner!Feed(Head(tls.give))
    /\ tls' = [tls EXCEPT !.give = Tail(@)]

\* __continue: the next event that waited, until the layer pauses again.
DrainWaiting ==
    /\ tls.draining /\ tls.give = <<>> /\ Inner!Idle
    /\ IF tls.at = "none" /\ tls.waiting # <<>>
       THEN tls' \in Handle([tls EXCEPT !.waiting = Tail(@)], Head(tls.waiting))
       ELSE tls' = [tls EXCEPT !.draining = FALSE]
    /\ UNCHANGED innerVars

\* What a queue of the paused layer holds for the child.
Contents(s) == FlattenSeq([i \in DOMAIN s |-> s[i].load])

\* What an exception leaves behind in this layer: the events it was passing on, in
\* _event_queue or in its hands, and, in __continue, the rest of its own queue.
LeftBehind ==
    Elems(tls.give) \cup (IF tls.draining THEN Elems(Contents(tls.waiting)) ELSE {})

\* The chosen layer raises: the exception leaves this layer's handler, too.  (What is left
\* in _event_queue is not looked at again, nor is tunnel_state, if it was the child's
\* ConnectionClosed that raised and "closed" was not reached: no bytes follow.)
ChildRaises ==
    /\ Inner!ChildRaises(LeftBehind)
    /\ tls' = [tls EXCEPT !.give = <<>>, !.draining = FALSE]

\* The child works by itself; a reply to one of its commands comes from the loop.
ChildWorks ==
    \/ ChildRaises
    \/ /\ \/ Inner!Steps \/ Inner!ChildRuns
          \/ Quiet /\ (Inner!HookCompleted \/ Inner!ChildCompleted)
       /\ UNCHANGED tls

\* Without the TLS layer events reach NextLayer directly.
Plain == ~tls.used /\ (\E e \in Events : Inner!Feed(e)) /\ UNCHANGED tls

Next ==
    \/ \E kind \in Kinds : Arrive(kind)
    \/ TlsHookDone \/ GiveNext \/ DrainWaiting
    \/ ChildWorks \/ Plain

Spec == Init /\ [][Next]_vars

\* Hooks and commands are answered, generators are finite.
Fairness ==
    /\ WF_vars(TlsHookDone) /\ WF_vars(GiveNext) /\ WF_vars(DrainWaiting)
    /\ WF_vars(Inner!HookCompleted /\ Quiet /\ UNCHANGED tls)
    /\ WF_vars(Inner!Steps /\ UNCHANGED tls)
    /\ WF_vars(Inner!Child!Finish /\ UNCHANGED <<ownVars, tls>>)
    /\ WF_vars(Inner!ChildCompleted /\ Quiet /\ UNCHANGED tls)
FairSpec == Spec /\ Fairness

-----------------------------------------------------------------------------
(* Properties *)

Sent == IF tls.used THEN tls.sent ELSE fed

WithoutClose(s) ==
    FlattenSeq([i \in DOMAIN s |-> IF s[i] \in Closed THEN <<>> ELSE <<s[i]>>])
Failing == tls.errored \/ tls.at = "tls_failed"

\* Where something that was sent and has not been passed on is, unless nobody looks for it.
Held == tls.give \o tls.kept \o tls.early \o Contents(tls.waiting)

\* Whatever pauses, keeps, queues and replays there are between the socket and the layer
\* that is chosen in the end, that layer gets what was sent, all of it, once and in order:
\* across the handshake and its hooks, with what came in the handshake's own bytes, and
\* across the choice of the layer.  After a failed handshake it gets nothing.  (A client
\* that was gone before the layer started is not announced as closed.)  Exceptions of the
\* chosen layer are the one end of this: what they left behind is named, and all else that
\* was sent is still passed on.
SentInOrder ==
    /\ Inner!HandedOver
    /\ tls.used =>
         IF Failing THEN fed = <<>>
         ELSE IF tls.late THEN stranded = {} => fed \o tls.give = WithoutClose(tls.sent)
         ELSE /\ stranded = {} => fed \o Held = tls.sent
              /\ Elems(tls.sent) \subseteq Elems(fed) \cup Elems(Held) \cup stranded

\* Nothing is left where nobody would look for it again: when the layers are at rest the
\* queue belongs to a running hook, and what is kept to a running handshake.  No exception
\* of the child interferes: the child does not run before the queue is empty.
NothingLeftBehind ==
    Quiet /\ tls.used =>
        /\ tls.waiting # <<>> => tls.at # "none" \/ tls.errored
        /\ tls.kept # <<>> => tls.tunnel = "establishing"

ClientStream == SentInOrder /\ NothingLeftBehind

\* A client that goes away, in the middle of the handshake, by close_notify, or before a
\* layer was chosen, is not forgotten: once no hook is running the chosen layer has been
\* told or its connection is being closed, unless an exception of the chosen layer left
\* this very close behind.
ClientGoneNoticed ==
    Quiet /\ ~asking /\ tls.at = "none" /\ ~tls.late =>
        \A e \in Closed \cap Elems(Sent) :
            closing \/ tls.hung \/ e \in Elems(arrived) \/ e \in stranded

\* What an exception of the chosen layer keeps from being handled: what it left behind in
\* NextLayer or above, what is queued in the layer itself, and what NextLayer keeps until
\* data let it repeat the replay that was broken off.
Lost(e) ==
    \/ e \in stranded
    \/ raised /\ e \in Elems(queue)
    \/ stranded # {} /\ e \in Elems(events)

\* Once the layer is chosen it handles whatever is sent, but what its exceptions lose.
SentIsHandled ==
    \A e \in Events :
        (chosen /\ e \in Elems(Sent)) ~> (e \in Elems(begun) /\ generator # e) \/ Lost(e)

==============================================================================
