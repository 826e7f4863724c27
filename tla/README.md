# TLA+ models of BetterMITM

BetterMITM is an intercepting proxy: an asyncio program that accepts client
connections, lets stacks of *layers* (generators that take events and yield
commands) turn their bytes into flows, shows every step of a flow to *addons*
through hooks, and lets users hold, change, resume and kill flows from a web
interface. This directory holds TLA+ specifications of its control logic, the
TLC configurations that check them, and machine-checked proofs of the results
that do not depend on the size of the instance.

Paths below are relative to `src/BetterMITM/`.

## Inventory

| Component (source) | State | Operations | Modelled by |
| --- | --- | --- | --- |
| Layer protocol (`proxy/layer.py`) | `_paused` command and generator, `_paused_event_queue` | `handle_event`, `__process`, `__continue` | `Layer`, `Mailbox` |
| NextLayer (`proxy/layer.py`) | kept `events`, chosen `layer`, the rebound `_handle` | `handle_event`, `_ask` and its replay | `NextLayer` |
| Client TLS (`proxy/tunnel.py`, `layers/tls.py`) | `tunnel_state`, `_event_queue`, the TLS object, `client_hello_parsed` | handshake, its hooks, buffering, `receive_data`, `receive_close`, `event_to_child` | `ClientTls` |
| Flow control (`flow.py`, `addons/advanced_interceptor.py`, `proxy/mode_servers.py`, `tools/web/app.py`) | `intercepted`, `live`, `error`, `_resume_event`, `_backup`; `flow_states`, paused connections, skip counters | intercept, resume, kill, backup, revert, `wait_for_resume`, the interceptor's verdict, auto-resume, the web handlers | `FlowControl` |
| HTTP stream (`proxy/layers/http/__init__.py`, class HttpStream) | `client_state`, `server_state`, the flow's error and live flags, the child layer | the state functions, hooks, `check_*`, `handle_protocol_error`, streaming, CONNECT, upgrades, passthrough | `HttpStream` |
| HTTP layer and its pool (same file, HttpLayer; `_http1.py`, `_http2.py`) | `streams`, `connections`, `waiting_for_establishment`, `command_sources`, `stream_queue` | event routing, `get_connection`, `register_connection`, keep-alive, the stream limit | `HttpPool` |
| TLS to a server (`proxy/tunnel.py`, `layers/tls.py` ServerTLSLayer) | `tunnel_state`, `_event_queue` | handshake, its hooks and failures | `HttpPool` |
| Connection handler (`proxy/server.py`) | `transports`, tasks, `max_conns`, connection states | `handle_client`, `open_connection`, `handle_connection`, `server_event`, `close_connection`, timeout | `ConnectionHandler` |
| Timeout watchdog (same file; disarmed in `mode_servers.py`) | `last_activity`, `can_timeout`, `blocker` | `watch`, `disarm`, `register_activity`, `on_timeout` | `Watchdog` |
| TCP, UDP and WebSocket layers (`layers/tcp.py`, `udp.py`, `websocket.py`) | the flow, the rebound `_handle_event`, the connections' state | relay, half-close, injection, failure to connect | `Relay`, `Channels` |
| Server instances (`addons/proxyserver.py`, `mode_servers.py`) | `_instances`, lock, sockets, the redirector | `configure`, `setup_servers`, `update`, start, stop | `ProxyServers` |
| Flow store and view (`addons/view.py`) | `_store`, `_view`, filter, order, cached keys, focus, settings | add, update, remove, clear, refilter, reorder, reverse, focus | `View` |
| Client replay (`addons/clientplayback.py`) | queue, `inflight`, the playback task | `check`, start, stop, `playback`, the replay handler's hooks | `ClientPlayback` |
| Everything else | see `PROJECT.json`, "components", with the reason it is left out | | not modelled |

How the parts interact:

* `ConnectionHandler.server_event` feeds every event to the outermost layer and
  executes the commands the layers yield. It never suspends, so an event with
  everything the layers do about it is one step of the event loop.
* A blocking command (a hook, opening a connection) pauses the *layer* that
  yielded it, not the program: other layers run on, events for the paused one
  queue up. The reply arrives as an event (`HookCompleted`,
  `OpenConnectionCompleted`) from a task of its own.
* A hook's task runs the addons and then waits while the flow is intercepted
  (`ProxyConnectionHandler.handle_hook`). Users act on the same Flow object at
  any time, between any two steps of the loop; the view and client replay keep
  the same objects.
* Connections have a task each. Layers close a connection by cancelling its
  task, and the cancellation arrives at whatever that task awaits. The task
  changes a connection's state when the peer closes; the layer may read that
  state before it gets to the event that tells of the close.
* Changes of options ask for an update of the server instances; updates take
  turns at a lock.

What is hard here is not parallelism (there is one thread) but everything that
may happen at an await: the order in which replies, queued events, kills,
resumes, cancellations, peer closes and timeouts interleave. Nothing is
persisted in a way the control logic depends on, so there is no crash recovery.
`PROJECT.json` lists under "hazards" each place where one of these bites, with
the properties that cover it.

What makes each component correct, in a sentence: a layer handles events once,
in order, and never strands one; what a client sends reaches the layer that is
chosen for it as if that layer had been there from the start, through the TLS
handshake and through the choice; a held flow is released by a resume and by
nothing else, and a killed one goes nowhere; an HTTP exchange fires its hooks
in order and tells each side one coherent story, however it fails; a request
waiting for a pooled connection is answered, once; every opened connection gets
its hooks in pairs and its answer, and nothing outlives the client; a relay
drops no message before its end, which comes once; the view is searchable and
its focus and settings agree with it; a replayed flow is in flight once and the
replay queue drains; a server that stays configured goes on running, and the
last change of the options is in force in the end.

## Modules

Which module uses which:

    Mailbox  <- Layer (refines it) <- NextLayer (INSTANCE) <- ClientTls (INSTANCE)
    Channels <- Relay (refines it)
    View     <- ClientPlayback (EXTENDS)
    ConnectionHandler <- Watchdog (EXTENDS, restricts it)
    FlowControl, HttpStream, HttpPool, ProxyServers

`Mailbox` is the abstract specification of an event-driven component: items
arrive, wait in one inbox, and are handled one at a time in arrival order. A step
that breaks it may leave items in the inbox while nothing is handled; from then on
only that none is lost or handled twice is promised.

`Layer` is `proxy/layer.py`'s pause protocol. `paused`, `generator` and `queue`
are `_paused.command`, `_paused.generator` and `_paused_event_queue`; `mode` says
which of `handle_event`'s two loops is running. One action is one step of the
generator protocol: start a generator, queue an event, resume at a reply, yield
a blocking command, finish, replay the next queued event, or raise, in which case
the exception leaves `handle_event` with the queue as it is (`server_event` logs
it and goes on).

`NextLayer` composes the placeholder layer with a `Layer` instance for the chosen
one. Three paths lead an event to the chosen layer: kept before the hook
(`events`), arrived during it (`askingQueue`), arrived after `_handle` was
rebound. The module models the hook, the replay of the kept events (whose
commands may pause the chosen layer meanwhile), the rebinding and the drain of
the queue. `asksOnStart` is the constructor's `ask_on_start`. The chosen layer may raise
(`ChildRaises`), and its exception leaves NextLayer's handler as well: a replay that is
broken off has neither cleared `events` nor rebound `_handle`, so the next data asks
again and all kept events are replayed once more; what is in `askingQueue` stays
there. `stranded` is the history of what exceptions have so left behind.

`ClientTls` is `ClientTLSLayer` over `TunnelLayer`, in front of an instance of
`NextLayer`; a stack without TLS is the same module with the layer left out
(`tls.used`). The record `tls` holds the tunnel's state, the hook or command the
layer is paused at, the events the tunnel keeps for its child (`kept`) and the
ones `Layer.handle_event` queues while it is paused (`waiting`), what is still to
be passed on in the current step (`give`), and whether the client was gone before
the layer started (`late`). Bytes are what they hold for the child: a
ClientHello, rubbish, the last flight of the handshake (with data behind it,
perhaps), a record with data and close_notify. An exception of the chosen layer goes
through this layer, too: it breaks off the loop over `_event_queue` and the drain of the
layer's own queue, and what is left in them joins `stranded` (`LeftBehind`).
`CloseAssumption` says that there is one
close: a connection is closed once, and for the child a close_notify and the end of
the connection are the same event.

`FlowControl` puts `flow.py` between the proxy, which takes each flow through a
request and a response hook, the addons, and the users. A flow record holds
`intercepted`, `live`, whether the error is the kill message, and the state of
`_resume_event` (not made, clear, set). The hook's task passes the addons, calls
`wait_for_resume` and completes. The interceptor's decision is modelled with its
queue limit, skip counters, paused connections and modes; URL and content
matching are constants or a free choice. Scripts and mock responses write
`flow.intercepted` directly, as in the code. Every web handler that acts on a
flow is an action.

`HttpStream` is one exchange. The object is a record; the operators of the module
take it and return what the code leaves up to its next pause, and the actions
are arrivals from the two connections, replies to hooks, the outcome of the
connection attempt, kills and the addons' answers. The queue and its drain are
those of `Layer`. Bodies are chunks with a size verdict; headers are a verdict,
which includes `expect: 100-continue`, CONNECT under both connection strategies,
and a 101 for a WebSocket, for raw TCP, or for neither. After a CONNECT or a 101
the stream passes everything on to a child layer, of which the module keeps what
it has been told, and which may close either side or raise at will.

`HttpPool` is HttpLayer with the protocol objects below it: `connections` and
`waiting_for_establishment` are the entries `conns` with their `stage` and
`waiting`, `command_sources` the streams whose state is `waiting`. A connection
goes through the stages of `OpenConnection` and, at a secure address, of the
ServerTLSLayer's handshake with its two or three hooks; it fails at any of them,
or turns out to speak HTTP/1 or HTTP/2. `Http1Client` and `Http2Client` are
`busy`, `queue` and `limit`. A request is one event here; `HttpStream` has
the order of its parts.

`ConnectionHandler` is `proxy/server.py`. `task[c]` is the await at which the task
of a connection stands, `cancelled[c]` that a cancellation is pending,
`transport[c]` its entry in `transports`. `Cancelled` is what the task does with
`CancelledError` at each await. The layers are the environment: they may open,
close and half-close connections at any time.

`Watchdog` EXTENDS it with the `TimeoutWatchdog`: each step of the handler also does to
the watchdog what the code does in it (`Watched`), and the timeout, which
`ConnectionHandler` lets strike at any time, needs the watchdog's consent. There is no
clock: `quiet` stands for `last_activity + timeout < time.time()` and becomes true
whenever it likes. `can_timeout` is set when `Blockers`, whose number is `blocker`, is
empty; `watch()`, which looks at it only before it sleeps, is the variable `watch`.

`Relay` is `tcp.py`, `udp.py` and `websocket.py`, which share their structure and
differ in how they end, between the reading tasks of the two connections. The
variable `state` is changed by the tasks, `relay` by the layer, which may be
paused at a hook while messages and closes queue up. `Channels` is what a relay
promises: a one-way channel for each side that passes messages on in order and
without a gap until it is cut, and when it may be cut. `Relay` refines it.

`View` is the flow list of the user interfaces: a list sorted by keys that are
cached per flow and order, while the flows change underneath. Two orders stand for
the four, one whose key never changes and one whose key may. `ClientPlayback`
EXTENDS it: replayed flows are the same objects that live traffic works on, users
hold, resume, kill, edit, revert and remove, and the view shows. The playback task reads
`client_replay_concurrency` for each flow it takes, and the option may change at any time:
with each flow the model chooses anew whether the replay is awaited or gets a task of its
own. A stream is reduced to its beginning, one hook that may hold it (the request's), its
response and its end; the server of a replay may fall silent instead (`Silent`), and
nothing times out then, as a `ReplayHandler` never runs `handle_client` with its watchdog. A
stream remembers whether its flow was killed under it (`killed`), because a revert takes
that mark from the flow.

`ProxyServers` is `Servers.update` with the instances it keeps: sockets that are
opened one by one, starts and stops that fail half-way, the single local
redirector, options that change while an update awaits a bind or waits for the
lock, and the first update, which reads the options before the running hook.

Modules named `MC...` fix instances for TLC. `LayerProofs` (the pause protocol, and the
relays that are built on it), `ClientTlsProofs`, `FlowControlProofs`, `HttpPoolProofs`,
`ServerProofs` (the servers of the proxy and the connection handler with its watchdog)
and `ClientPlaybackProofs` (with the view) hold the theorems, and `SequenceLemmas` what
several of them use about sequences and folds. `ServerProofs` EXTENDS both `Watchdog` and
`ProxyServers`, and `LayerProofs` both `Layer` and `Relay`, which is why the definitions
every module has (`ServersInit`, `RelayInit`, ...) have a prefix in `ProxyServers` and in
`Relay`.

Operators introduced by "Mutant:" are deliberate bugs of the kind a change to the
code could introduce. No specification uses them. For each checked property
`PROJECT.json` names one that, put in the place of the definition it distorts,
makes TLC report that property as violated, so no property holds vacuously.

## Runs

| Run | Question |
| --- | --- |
| `layer` | Do events come out in order, is none stranded, is the layer a serial mailbox, is every event handled in the end; and, once a handler has raised, is an event ever lost or handled twice? |
| `next_layer` | With and without TLS: does the layer that is chosen in the end get what the client sent, once, in order and in the end, over every pause, queue and replay there is on the way? Is a client that left at any point noticed? And once the chosen layer has raised: what exactly is left behind, what is repeated, and is anything else lost? |
| `flow_control` | One flow and everything addons and users can do to it: is it held, released, killed as promised? |
| `flow_queue` | Two flows and a queue of one: is the limit kept and does every flow end? |
| `flow_kill_stuck` | (violation) Does a flow that is killed while its request hook holds it get its error hook? |
| `http_stream` | All orders of messages, failures, kills, answers and pauses of one exchange, tunnels included: what do hooks, client, server and the tunnel's layer see? |
| `http_both_hooks` | (violation) Does a flow get either a response or an error hook, but not both? |
| `http_pool` | Three streams share connections that fail, close, change their protocol or their limit: is every waiting stream answered, once, is no exchange mixed with another, and when is a failed endpoint tried again? |
| `connection_handler` | Two connections to one address with one slot, and the client: hooks in pairs, answers, slots, no task left behind; whom does the timeout strike, and does every client that leaves or falls silent come to an end? |
| `relay` | Is the relay two channels, whatever hooks, closes, half-closes and injections interleave; does its flow end once; is what came in passed on? |
| `client_playback` | Can the view find what it shows, with flows that change under it; is a flow worked on by two streams, whatever is killed, edited, reverted and limited meanwhile; does the replay queue drain? |
| `proxy_servers` | Options change while servers start and stop, half-way and with failures: who owns the sockets, does what stays configured go on running, is the last change in force in the end? |

What the properties of these runs rule out:

* `Fifo`, `NothingStranded`, `EachOnce`, `Serial` (the refinement of `Mailbox`):
  an event that overtakes another, is left in a queue nobody replays, or is
  replayed twice.
* `ClientStream`, `ClientGoneNoticed`, `SentIsHandled`: the same from the socket to
  the chosen layer. What has not been passed on is accounted for: it is held by
  the handshake, by a hook's queue, or by NextLayer, and each of these has
  somebody who will empty it. An exception of the chosen layer ends this for the events it
  leaves behind (`stranded`, and `Lost` for the queues that nobody replays), and for no
  others: what was sent is still somewhere, an event comes to the chosen layer twice only if
  it was left behind, and a close is missed only if it is this very close that was.
* `NoLostWakeup`, `StuckOnlyByKillOrRevert`, `HeldUntilResumed`, `KilledNotForwarded`,
  `InterceptorQueueBounded`, `EveryFlowEnds`: a task that waits on an event nobody
  sets, a flow released by an old resume, a killed flow that is sent.
* `HookStory`, `ClientStory`, `ServerStory`, `ExpectedEvents`, `NobodyLeftWaiting`,
  `TunnelStory`: hooks that fire twice or after the error, an answer given twice or
  that no hook has seen, a request sent out of order or after a kill in its hook, an
  event a state function asserts not to get, an exchange that comes to rest without
  an end, a tunnel's child that is not told something. Each says which disorder the
  code does produce, and so excludes every other.
* `NobodyForgotten`, `WaitersAnswered`, `ExchangesSeparate`, `NoAttemptAfterError`: a
  stream in nobody's list, two exchanges on an HTTP/1 connection, a reply for a
  command that has had one, another attempt at an endpoint that has failed.
* `HooksPaired`, `LayerIsAnswered`, `NothingLeftOpen`, `SlotsRespected`,
  `NothingOutlivesClient`: what a cancellation can leave behind, at each await.
* `TimedOutRightly`, `ClientIsLetGo`: a client that is closed for what happened while
  somebody looked at one of its flows; a watchdog that sleeps for ever, a
  `handle_client` that waits for ever.
* `Channelled` (the refinement of `Channels`), `FlowEnds`, `Delivered`: a message that is
  dropped, passed on out of order or after the end, an end that comes twice or never.
* `ViewAgrees`, `InFlightOnce`, `QueueDrains`: a lookup or removal that fails because of a
  stale key, a focus that is not shown, settings that survive their flow; one flow in
  two streams, but where `check` cannot see one of them (`excused`); a queue that stops, but
  behind an awaited replay that never ends (`Stuck`).
* `SocketsOwned`, `KeptRunning`, `ChangesApplied`: a socket nobody can close, a server
  stopped although it stays configured, a start blocked by this program itself, a
  change of the options that is lost.

Bounds, and why they are enough:

* `layer`: four events and three blocking commands. Queueing, a replayed event that
  pauses again, and a reply with two events still queued need three and two.
* `next_layer`: five events (start, two data, a close, another) and two blocking
  commands of the chosen layer, so it can pause during the replay and again
  after the handover; TLS or none, a client that is there, half-closed or gone when
  the layer starts. Handshake flights arrive once each; there are as many records as
  there are events to carry.
* `flow_control`: one flow, all operations, a skip count of one. Flows only meet
  in the queue limit, which `flow_queue` checks with two flows and a limit of one.
* `http_stream`: one chunk and two protocol errors per side (`MaxData`, `MaxErrors`). A
  second chunk repeats the state of the first. Two errors are what one connection can
  raise for a stream: an HTTP/1 body that cannot be read is one, after which the
  connection is closed, and its ConnectionClosed, read as the end of the unfinished body,
  is another. `http_both_hooks` has one error, fewer verdicts and no addon answers, which
  its counterexample does not need.
* `http_pool`: three streams, one address (streams for different addresses share
  nothing but the context's server), limits of one and two, a provisional limit of
  one. Two streams can wait for an attempt a third has caused, be queued on HTTP/2
  beyond the limit, and be sent away from HTTP/1.
* `connection_handler`: two servers and one slot make one connection wait for
  the other; one is TCP and one UDP, which differ in how they close. The
  client is a third connection.
* `relay`: a message from each side and one the user injects on either (`MaxData`,
  `MaxInject`): one may be held by its hook while another and both closes wait in
  the queue.
* `client_playback`: two flows of two sizes, one marked, one live at first; two
  replays and edits together (`MaxReplays`), so a flow can be replayed twice, or edited,
  replayed and reverted. In one behaviour the user either rearranges the view
  or replays (`arranging`): what replay does to the view is to add a flow and to
  announce that it has changed, which rearranging includes.
* `proxy_servers`: a DNS server (two sockets) and a TCP proxy at the same address, two
  local modes that share the redirector, and two changes (`MaxChanges`) after the
  startup, so that an update can wait behind one that has not finished.

Deadlock checking is off in every run because each instance may legitimately end:
all events handled, all flows done, the client gone, the program at its end.

## Fairness

* `Layer`: weak fairness of the running generator (it is finite) and of the replies
  (every blocking command is answered). The second is an assumption about the
  environment: `ConnectionHandler` shows when `OpenConnectionCompleted` does not come
  (`LayerIsAnswered`), `FlowControl` when a hook does not complete
  (`flow_kill_stuck`). `ClientTls` assumes the same of its layers and their hooks, and
  that the loops that pass on kept and queued events run.
* `FlowControl`: weak fairness of the proxy's tasks and of the sleeping auto-resume
  tasks (asyncio runs what is ready), strong fairness of the user's resume in
  `flow_queue`: somebody resumes a flow that keeps being intercepted. Users who
  never resume may hold a flow for ever, which is what intercepting is for.
* `HttpPool`: weak fairness of the attempts to connect: the connection handler
  replies to an `OpenConnection`, hooks return, and no peer leaves a TLS handshake
  open for ever (the timeout of the connection handler sees to that).
* `ConnectionHandler`: weak fairness of every task that can go on, including that
  hooks return and connection attempts are decided. Peers, layers and timeouts
  are under no obligation: once the client has gone, `ClientIsLetGo` needs no help from
  them because `handle_client` cancels what is left. For a client that stays silent, time
  passes and `watch()` runs.
* `Relay`: hooks return, an attempt to connect is decided, the queue is replayed, and a
  cancelled task gets to run. Peers need not send or close.
* `ClientPlayback`: the playback task runs, streams whose server is not silent come to an
  end, and users resume what is held. Nothing makes a silent server answer or a replay give
  it up (`clientplayback.py:112-114` awaits `done` without a watchdog), and nothing is
  assumed: `QueueDrains` names this state (`Stuck`).
* `ProxyServers`: the updates and what they start run: a bind and the launch of the
  redirector succeed or fail.
* `HttpStream` has no fairness; what would be a liveness property is the invariant
  `NobodyLeftWaiting` about states in which both peers have said all they will.

## Proofs

All theorems hold for every value of the constants that satisfies the named
`ASSUME`s, and use nothing else.

`SequenceLemmas`: what moving the head of a queue, appending and concatenating do
to contents, order and distinctness, from the definitions of the sequence operators;
the other proofs cite them where a queue is only rearranged. The recursive functions of
the community modules are definitions by CHOOSE, so first a function that satisfies
the equations is shown to exist (`FoldExists`, `FlatteningExists`), stage by stage with
`InductionUpTo`, which is `LeastNatural` turned round and not a theorem about an
operator. From there `FlattenAppend` and `FlattenTail` say what a queue of sequences
holds when something joins its end or leaves its front.

`LayerProofs`, of the pause protocol (from `NoneAssumption`):

* `TypeCorrect`: types, whatever handlers raise.
* `FifoHolds`, `NothingStrandedHolds`: from the inductive invariant `IInv`. Neither
  property is inductive. An event handled directly is appended to `begun`, which
  keeps `begun \o queue = arrived` only if the queue is empty; that is
  `NothingStranded`, and it survives the end of `handle_event`'s own loop, which
  ignores the queue, only because that loop starts with an empty queue and nothing
  is queued while it runs. `IInv` adds this and how `paused`, `generator` and
  `mode` determine each other. All of it is conditional on `~raised`.
* `EachOnceHolds`: also after a handler has raised, when an event handled at once
  passes the stranded ones: it enters `begun` in the middle of `begun \o queue`
  (`InsertNew`), which keeps the entries distinct because it is new.
* `LayerImplementsMailbox`: every step is a `Mailbox` step or leaves its variables
  alone (`StepRefines`), given `IInv`.

`ClientTlsProofs`, on `NextLayer` alone (from no assumption):

* `HandedOverHolds`: as long as no exception has left events behind, the chosen layer is
  given what NextLayer was fed, once and in order, and nothing is held back once it is
  there; always, no event is gone from all of the places it can be in, and only one that was
  left behind is given twice. `HandedOverInOrder` is not inductive: an event that goes
  straight to the chosen layer must find nothing kept and nothing queued. `Places` says when
  each of the three places is empty, `InOrder` what they hold together, and `Whereabouts`
  what remains of that after an exception: in which place an event may be that the chosen
  layer has had already.
* `ChosenIsALayer`: `Spec => ChosenIsLayer`. Composed with NextLayer, which feeds it from three
  places, the chosen layer takes only steps of `Layer`, exceptions included, and one kind
  that `Layer` does not have: it is given an event again that an exception of its own left
  behind (`HandsOverAgain`), where `Layer` takes each event to be new. Up to the first
  broken replay, therefore, what `LayerProofs` shows of a layer holds of it.

and on the stack with `ClientTls` (from `KindAssumption` and `CloseAssumption`):

* `StackImplementsNextLayer` and `ChosenUnderTlsIsALayer`: the TLS layer feeds its child
  only as `NextLayer` may be fed, and an exception of the chosen layer that passes through it
  is one of NextLayer's with more left behind, so the theorems above hold behind it.
* `ClientStreamHolds`, `ClientGoneNoticedHolds`: from `StackIInv`, which TLC has checked on
  the instance of the run. That no event is lost can only be said together with where it
  is, which depends on how far the tunnel is; `TlsInv` names its stages. Before Start
  (`Unstarted`) there is nothing. During the handshake (`Shaking`) everything that
  arrived is kept, decrypted early, or waits for the layer's own hook, in this order. When
  the tunnel is open (`Opened`) it has been passed on or waits, and the child has been
  told of a close exactly if there was a close_notify or the tunnel is closed. After a
  failed handshake (`Over`) nothing was passed on and the connection is being closed.
  With a client that was gone from the start (`Absent`) all but the close is passed on.
  `Queued` and `History` are what the close needs: it may wait behind a hook, arrive as a
  close_notify and as the end of the connection, and must be told once. In the queue,
  therefore, nothing but other events follows the end of the connection, and what arrives
  without saying the close anew arrives when it has been said. `Drains` says who will look
  at the queue again. `HandleShaking`, `HandleOpened`, `HandleOver` and `HandleAbsent`
  treat one event in each stage, directly or from the queue; `KeptCloses`, of NextLayer,
  is why a close it keeps is not forgotten. An exception of the chosen layer (`Torn`) empties
  the tunnel's hands into `stranded`: the order is over then, and what the stages say of
  contents goes on holding up to these events.

`FlowControlProofs` (from `ConfigAssumption`):

* `FlowTypeCorrect`: types, among them that skip counters stay within the count.
* `NoLostWakeupHolds`, `StuckOnlyHolds`: from `IInv`. A task waits only on a clear
  event, so a resume of an intercepted flow finds an event to set and wakes the
  task in the same step; therefore only what clears `intercepted` without the event
  (a kill, a revert) can leave a task behind. `ActIInv` shows this once for all
  user operations, which differ only in the method they call.
* `KilledNotForwardedHolds`: the action property, from two more conjuncts: a
  hook task exists only inside a hook (`TaskInHook`), and there a flow that is not
  live has been killed (`DeadIsKilled`).
* `HeldUntilResumedHolds`: from `HeldNotSet` and `NewHasNoEvent`. A mock response
  writes `intercepted` without the event, but only in the flow's first hook, when
  there is no event yet that an earlier resume could have left set.
* `InterceptorQueueBoundedHolds`: for finitely many flows and users who neither pause
  a flow by hand nor intercept all. The interceptor adds at most one flow in a
  step, and only while it counts fewer than the limit (`OneMoreHeld`).

`ServerProofs` on the connection handler (from `ConnAssumption`): all safety properties of the
`connection_handler` run, `TypeCorrect`, `HooksPairedHolds`, `LayerIsAnsweredHolds`,
`NothingLeftOpenHolds`, `SlotsRespectedHolds` and `NothingOutlivesClientHolds`, from one inductive invariant `IInv`. The properties
speak of a task that is over, and of what it leaves behind; none is inductive.
`IInv` says of every await at which a task can stand what must have happened
before it: which hooks have started (`HooksInv`), which events the layers have
seen (`ToldInv`), what its entry in `transports` is (`EntryInv`), and that a
connection closed on both sides has a cancellation pending (`ClosedInv`). From
there each step to the end of the task, the normal one or a cancellation, is one
case. `LocalInv` is the part that one action establishes for one connection;
`SlotInv` counts over all of them, and is kept because every action but
`SlotAcquired` takes tasks out of the slots or leaves them (`FewerHold`).

On the watchdog, in the same module:

* `WatchdogRestricts`: `WSpec => Spec`, so that the theorems about the handler hold with
  the watchdog in it, as the run checks them.
* `TimedOutRightlyHolds`: from `WatchInv`. Its crux is that the last hook's end is never
  missed: every step is a step of one task (`OneMoves`), so `Blockers` becomes empty only
  in a step that rearms the watchdog (`LastHookRearms`).

`LayerProofs`, of the relays (from `BoundAssumption`):

* `RelayTypeCorrect`: the types, along every path of an event through the layer.
* `ChannelledHolds`: the refinement of `Channels`. The invariant is needed up to the step
  in which the layer crashes and is therefore conditional on `~relay.crashed`. `Numbers`
  is its heart: with the message that is held by its hook in hand, the queue holds the
  messages that were taken and not yet passed on, each once, in order (`InOrder`, with a
  lemma each for appending to the queue and taking its head). `Phases` says which pauses
  go with which phase and that nothing waits in the queue of a layer that is neither
  paused nor replaying, so that what is handled directly is next in line. `Stops` says
  that a close in the queue and a connection that is no longer read belong to a side
  that has stopped, which is why the layer, looking at the connections' state long after
  the close, does not cut a channel too early. Each operator of `Relay` has a lemma that
  says what it leaves alone; `HandleKeeps` puts them together for one event, and every
  action then maps to one action of `Channels` or to none (`Right`).

`HttpPoolProofs` (from `LimitAssumption`, `StreamAssumption` and `AddrAssumption`, for any
number of streams, addresses and limits): `PoolTypeCorrect`, `ExchangesSeparateHolds`,
`NobodyForgottenHolds` and the action property `NoAttemptAfterErrorHolds`. A step of
the pool is a chain of calls: a connection that comes up serves the list of those who
waited, each of which may open another, and one that closes tells its streams, which may
reset others. In the middle of such a chain the properties do not hold. `PoolOK` is
therefore an invariant of the calls: `PoolOK(p, hand, X)` says that streams in `hand` are
between two lists and that the connections in `X` may still hold a stream that is about
to leave them. Its parts: a connection's lists go with its stage (`ListsOK`, `StageOK`),
the streams in them with the stream's state (`StatesOK`), an open connection queues
only what is beyond its limit and a closed one has nothing in flight (`Settled`), no
stream is in two lists (`Apart`), and a stream is waiting exactly if it is in a list or
in hand, and has been handed on only if some connection has it (`Placed`). `Solo`, that
an HTTP/1 client has one request at a time, is why an HTTP/1 server connection adopted
from it is free; `ContextOK` is what makes adopting the context's own connection no second
connection to the same place. Every operator has a lemma that takes
`PoolOK` to `PoolOK`, and says when it creates a connection (`NoneTried`). The two folds,
over the queue in `ResumeQueue` and over the waiting streams in `RegisterConnection`, are
taken apart into their stages: `FoldExists` shows that the function a community module's
fold chooses exists, and `InductionUpTo`, which rests on the well-foundedness of the
subset ordering of finite sets, goes through the stages one by one.

`ServerProofs` on `ProxyServers` (from `SpecAssumption` and `ChangesAssumption`, for any modes,
sockets and number of changes): `ServersTypeCorrect`, `SocketsOwnedHolds`, the action property
`KeptRunningHolds`, and `ServersUpHolds`, which is the safety half of `ChangesApplied`.
`SocketsOwned` is not inductive, as it says nothing of servers that are half opened or being
stopped. `ServersInv` adds that the modes of the option, of the instances and of every update
that waits for the lock could be served together (`ModesAgree`; two instances never
want one address), what an update still has to start and stop (`UpdateApart`), whose
servers are open or half open (`OpenWhereStarted`), that every bound socket is somebody's
or was left by a failure (`NoneLost`), and whose the redirector is (`RedirectorOwned`).

`ClientPlaybackProofs` (from `FlowAssumption` and `ReplayAssumption`, for any finite set of
flows, any sizes and any number of replays): `PlaybackTypeCorrect`, `ViewAgreesHolds` and
`InFlightOnceHolds`, from `IInv`, which TLC has checked on the instance of the run.

* The view: `ViewOK` is kept by every operation and by what happens to flows behind the
  view's back. `ViewAgrees` is not inductive. That a flow is *found* is a statement about
  a binary search with the key that is cached for it; `ListOK` says what makes it true:
  positions are sorted, and each holds the key cached for its flow in the present order.
  The keys need not be those of the flows as they are, and usually are not. So every
  operation has to show that it touches the cached key of a listed flow only while the
  flow is out of the list (`ReorderedIs`), and that nothing is forgotten of a flow that is
  still in the list (`ClearedOK`, `RemovedOK`). `FindsIff` turns this into the success of
  every lookup; `Beside` is what the list's operations leave alone. There is one lemma for
  each operation, and `ViewStep` puts them together.
* The folds: clearing, sorting, filtering and a step of a flow apply an operation to one
  flow after the other. `TurnsExist` and `TurnsAre` take such a fold apart into its stages
  once, for each of the three operations that are folded (`Each`).
* The replays: `InFlightOnce` is about streams, `check` is about flags, and the two agree
  only as far as `Apart` says: of a flow that is not excused there is at most one stream; if
  the flow is not live, the stream has not begun or its flow was killed under it, whatever
  reverts have made of the flow since (`KilledIs`, `RevertedIs`, `BackedUpIs`); and only
  behind a replay that is awaited may the stream's flow be in the queue, as the next is
  taken only when that is over. So a flow that `check` lets through has no stream or is
  excused then (`Unseen`), and one that is taken has none, or was queued twice and the limit
  was lifted in between, and is excused when the first is taken.

Only model-checked: the five invariants of `HttpStream` (`ExpectedEvents`, `ClientStory`,
`ServerStory`, `NobodyLeftWaiting`, `TunnelStory`), whose operators need a lemma each about
what they let a hook or a peer see; and every liveness property (`SentIsHandled` and
`QueueDrains` among them), which is beyond the prover. Recursive operators are beyond it
too, and no module with proofs reaches one.

## Where code and documentation part

Two runs exhibit a disagreement and are listed under "findings":

* `flow_kill_stuck`: `Flow.kill` clears `intercepted` without setting
  `_resume_event`, and `resume` then returns early. The hook task of a flow
  that is held in its request hook and killed there waits for ever, and `check_killed`,
  which owes it the error hook, is not reached: neither response nor error.
* `http_both_hooks`: a flow can fire both `response` and `error`, which
  `_hooks.py` rules out.

Others are characterised by a property that says exactly when they happen, or were
met while a module was written.

Connection handler:

* `server_hooks.py` says every server connection gets `server_connected` or
  `server_connect_error`. One that is cancelled in its `server_connect` hook or
  while it waits for a slot gets neither, and the layer that opened it no
  answer (`HooksPaired`, `LayerIsAnswered`). One that is cancelled in its
  `server_connected` hook gets no `server_disconnected`, and its writer stays
  open without a slot (`NothingLeftOpen`, `SlotsRespected`).
* A timeout can strike while a hook runs, for which the watchdog is disarmed: in a hook
  that begins while `watch()` sleeps, or that follows directly on another, because
  `wait()` does not look at the event again (`TimedOutRightly` says in which). A user who
  holds a flow for longer than `tcp_timeout` may so lose its connection.

HTTP:

* After `ResponseEndOfMessage` an error can still be sent to the client
  connection for the same stream, where `Http1Server` asserts it does not
  (`ClientStory`).
* A kill while the server connection is being made, or in a tunnel's hooks after
  the first, is not looked at (`ServerStory` speaks of the hooks in which it is).
  `check_killed` reports a kill to the client but neither tells the server nor drops
  the stream.
* An addon's response to a request that is being streamed raises
  `NotImplementedError` in the state function, and a 101 whose client is gone ends in
  one `ResponseEndOfMessage` too many (`ExpectedEvents` excludes both).
* A tunnel's child gets a failure of a peer as a protocol error, which it does not
  know, if it comes from the reset of the CONNECT's stream or was queued behind the
  last hook before an upgrade; it is not told that the connection has closed
  (`TunnelStory`).
* A CONNECT answered with 2xx other than 200 is a tunnel for `HttpStream` and an
  ordinary response for `Http1Server`. A refused CONNECT's stream is never dropped.
  After a `100 Continue` `Http1Server` has a response already, so a later error page is
  not sent.
* `connection.py:77-81` says that after an error new connections to an endpoint should
  not be attempted. `register_connection` sends the streams that cannot share an
  HTTP/1 connection to new ones without a look at it (`NoAttemptAfterError`).
* `Http2Client` tells the streams it has opened when its connection closes, never the
  ones in its queue (`NobodyForgotten` excludes these).

Choice of a layer:

* An exception of the chosen layer while `_ask` replays the kept events to it leaves them
  uncleared and NextLayer in place, although `layer` is set. Events that were queued during
  the hook stay in its queue; the next data asks again, and all kept events are replayed
  a second time. A close among those in the queue is never noticed, because no data follow
  it (`ClientStream`, `ClientGoneNoticed` and `SentIsHandled` name what is stranded).
  `layer.py` has no handler for it; `server_event` logs it and goes on.
* The same exception leaves the TLS layer in the loop over `_event_queue`
  (`tunnel.py:110-113`), whose rest is then never passed on, and stops the replay of that
  layer's own queue.

Client TLS:

* A failed handshake swallows whatever follows, and the child is never started.
  Bytes that were queued behind the `tls_failed_client` hook meet a layer without a
  TLS object, which raises and leaves the rest of the queue; the connection is being
  closed then.
* A client that was gone before the layer started leaves the tunnel inactive: the
  child is started, but not told of the close (`tls.late` in `SentInOrder` and
  `ClientGoneNoticed`).

Relays:

* A message injected towards a peer that was half-closed raises in `server_event`
  and is lost, and the queue behind it stays (`Channelled` holds up to that step,
  `Delivered` excludes it).
* Messages that were queued behind the close of the side that stopped first are not
  forwarded if the other side has closed by the time they are handled, although the
  tests (`test_tcp.py:74-76`, `88-90`) show data after a half-close being forwarded.
* After `tcp_error` or `udp_error` the flow stays `live`, which `flow.py:101` says a
  completed flow is not (`FlowEnds`).

Flows, view and replay:

* `Flow.revert` removes the mark of a kill (`KilledNotForwarded` excludes
  reverted flows), and a script that writes `flow.intercepted` does not hold a
  flow whose event an earlier resume has set (`HeldUntilResumed`).
* The auto-resume task tests `flow.resumable`, which does not exist; it raises
  after it changed its table and before it resumes the flow (`AutoResumeFires`).
* The interceptor's queue limit counts entries of `flow_states`, which neither a
  resume nor the end of a flow removes (`advanced_interceptor.py:399`; the option,
  line 147, speaks of intercepted flows). After as many flows as the limit allows
  nothing is intercepted any more. The skip counter is consumed once per call of
  `_should_intercept`, so up to three times per flow.
* Cached keys go stale while a flow changes; the list stays searchable by them
  (`ViewAgrees`), not sorted by what the flows are. `add` and `update` do not look at
  `show_marked`.
* "Can't replay live flow", says `check`, but a flow that was killed and whose stream has not
  noticed yet is no longer live: replayed, it is worked on by two streams, and the replay
  clears the kill. A revert clears it as well, so that by then nothing on the flow tells of
  it. The same happens to a replay that has not begun, and to a flow that is queued twice
  when the limit of concurrency is off or is lifted meanwhile. `InFlightOnce` excuses these
  and no others.
* `stop_replay` reverts a flow that is in flight. A flow that is killed or reverted while it
  is held, or whose server is silent, keeps the playback task and so the queue for ever
  (`QueueDrains`).
* `Flow.modified` compares the backup with a state that contains the backup, so a flow that
  has a backup always counts as modified and can be reverted (`UserRevert`).

Servers:

* A TCP server whose UDP sibling cannot be opened goes on listening, belongs to no
  instance, and is in the way of later starts (`SocketsOwned`). An instance whose
  start failed is not tried again while its mode stays. Stopping a local mode stops
  the redirector for the other (`KeptRunning`). A change of the options between
  `setup_servers` and the running hook waits for the next change
  (`ChangesApplied`). `listen_host` and `listen_port` have no effect when they change.
  The same mode given twice makes two instances of which one is orphaned (not
  modelled).

## Not modelled

Of the modelled components:

* `ConnectionHandler`: wakeup timers and hook tasks (the hooks of layers disarm the watchdog as
  those of connections do); `SendData` is in `Relay`. A layer's commands are not
  restricted to what particular layers do.
* `HttpStream`: trailers, body contents, an HTTP/2 client's end of the stream of a
  CONNECT before the tunnel starts, what a server sends between an early 101 and the
  end of the request.
* `HttpPool`: injected messages, the dropping of streams, upstream proxies below a new
  connection, a server handshake that waits for the client's hello.
* `ClientTls`: a hook that lets a connection pass unintercepted, the assembly of a
  ClientHello from pieces, SOCKS and upstream tunnels.
* `Relay`: a half-close that fails with an `OSError` (`server.py:451-453`; it is in
  `ConnectionHandler`); WebSocket fragments, pings and extensions; DNS.
* `View`: `resolve`, `create`, `duplicate`, loading, the values of settings.
* `ClientPlayback`: loading from files; server replay, which is a table.
* `ProxyServers`: TUN interfaces, `listen_host` and `listen_port`, repeated modes.
* `FlowControl`: message hooks (WebSocket, TCP).
* Debug output everywhere.

Not modelled at all: the QUIC layers, whose engine is external and whose streams
repeat the structure of the tunnel and the relay; the choice of layers, which
is a decision on data and in `NextLayer` any choice; the options and addon registries,
which are sequential; files, certificates, message rewriting, data types and user
interfaces, which are I/O, data and presentation. `PROJECT.json` has the reason for
each. These make up most of the repository's lines.

Message contents, parsing, formatting and cryptography are data. Time is not
modelled: what waits for a timer may happen at any moment.

## Plan

What is modelled covers the program's concurrent control logic. Left, in this order:

1. Proofs: the invariants of `HttpStream`, whose operators need a lemma each about what
   they let a hook or a peer see.
2. Upstream proxies: an HTTP tunnel is the stage structure of `HttpPool` once more.
3. The DNS layer's pairing of queries and answers, as a refinement of a request and
   reply specification.

The project keeps to a dozen runs and about forty checked properties, which is what
stays quick to check: new modules replace shallower runs rather than add to them.
