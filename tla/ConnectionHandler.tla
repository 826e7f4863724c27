--------------------------- MODULE ConnectionHandler ---------------------------
(***************************************************************************)
(* proxy/server.py ConnectionHandler: the tasks that serve one client.      *)
(*                                                                         *)
(* handle_client owns the client's lifetime.  Every connection, the         *)
(* client's and those the layers open to servers, has a task that reads     *)
(* it; opening a server connection runs hooks, waits for one of a few       *)
(* slots per address and connects.  The layers close connections by         *)
(* cancelling the task, as do a timeout, a write error and the end of the   *)
(* client, and asyncio delivers the cancellation at the next await, in      *)
(* whatever the task is doing.  server_event never suspends, so an event    *)
(* and the layers' commands to it are one step of the event loop; here the  *)
(* layers may act between any two steps.                                    *)
(***************************************************************************)
EXTENDS Naturals, FiniteSets

CONSTANTS
    Servers,   \* the server connections the layers may open, all to one address
    Client,
    Udp,       \* the connections that are UDP, which cannot be half closed
    MaxConns   \* the slots per address of max_conns

Conns == Servers \cup {Client}

ASSUME ConnAssumption ==
    /\ IsFiniteSet(Servers) /\ Client \notin Servers
    /\ Udp \subseteq Conns
    /\ MaxConns \in Nat \ {0}

VARIABLES
    main,         \* where handle_client is
    task,         \* where each connection's task is
    cancelled,    \* the task has been cancelled and not yet been told
    transport,    \* the entry in transports: none, one without and one with a writer
    state,        \* connection.state
    hooks,        \* history: the hooks started for a server connection
    told,         \* history: the events about a connection the layers have seen
    cancelledAt,  \* history: where the last cancellation reached the task
    waited,       \* the connections handle_client waits for in the end
    late          \* history: those the layers opened when it was waiting or done

vars == <<main, task, cancelled, transport, state, hooks, told, cancelledAt, waited, late>>

\* The await points of open_connection and handle_connection; "closed" is not
\* one, it follows the ConnectionClosed event in the same step of the loop.
Opening == {"created", "connect_hook", "kill_hook", "semaphore", "connecting",
            "error_hook", "cancel_hook", "connected_hook"}
Tasks == Opening \cup {"none", "reading", "closed", "half_closed", "disconnect_hook", "over"}

\* The last conjunct is what handle_connection asserts of its own entry.
TypeOK ==
    /\ main \in {"connected_hook", "running", "disconnect_hook", "closing", "done"}
    /\ task \in [Conns -> Tasks]
    /\ cancelled \in [Conns -> BOOLEAN]
    /\ transport \in [Conns -> {"none", "task", "io"}]
    /\ state \in [Conns -> SUBSET {"read", "write"}]
    /\ hooks \in [Servers -> SUBSET {"connect", "connected", "connect_error", "disconnected"}]
    /\ told \in [Conns -> SUBSET {"opened", "failed", "closed"}]
    /\ cancelledAt \in [Conns -> Tasks]
    /\ waited \subseteq Conns /\ late \subseteq Servers
    /\ \A c \in Conns :
          task[c] \in {"reading", "closed", "half_closed"} => transport[c] = "io"

Init ==
    /\ main = "connected_hook"
    /\ task = [c \in Conns |-> "none"]
    /\ cancelled = [c \in Conns |-> FALSE]
    /\ transport = [c \in Conns |-> IF c = Client THEN "io" ELSE "none"]
    /\ state = [c \in Conns |-> IF c = Client THEN {"read", "write"} ELSE {}]
    /\ hooks = [c \in Servers |-> {}]
    /\ told = [c \in Conns |-> {}]
    /\ cancelledAt = [c \in Conns |-> "none"]
    /\ waited = {} /\ late = {}

-----------------------------------------------------------------------------
Goes(c, t) == task' = [task EXCEPT ![c] = t]
Hear(c, e) == told' = [told EXCEPT ![c] = @ \cup {e}]
Fire(c, h) == hooks' = [hooks EXCEPT ![c] = @ \cup {h}]

\* handler.cancel(); without effect on a task that is over.
Cancel(C) == cancelled' = [c \in Conns |-> cancelled[c] \/ (c \in C /\ task[c] # "over")]

\* The task goes on from its await in t: nothing has cancelled it.
At(c, t) == task[c] = t /\ ~cancelled[c]

\* Mutant: only a connection that is up takes a slot.
HoldingOnceUp == {c \in Servers : task[c] \in {"connected_hook", "reading", "closed",
                                               "half_closed", "disconnect_hook"}}
\* async with self.max_conns[address]
Holding == {c \in Servers : task[c] \in {"connecting", "error_hook", "cancel_hook",
                 "connected_hook", "reading", "closed", "half_closed", "disconnect_hook"}}

-----------------------------------------------------------------------------
(* open_connection *)

TaskStarts(c) ==
    /\ At(c, "created")
    /\ Goes(c, "connect_hook") /\ Fire(c, "connect")
    /\ UNCHANGED <<main, cancelled, transport, state, told, cancelledAt, waited, late>>

NoAddress(c) ==
    /\ At(c, "created")
    /\ Goes(c, "over") /\ Hear(c, "failed")
    /\ UNCHANGED <<main, cancelled, transport, state, hooks, cancelledAt, waited, late>>

\* An addon may have set server.error to kill the connection.
ConnectHookDone(c, killed) ==
    /\ At(c, "connect_hook")
    /\ IF killed THEN Goes(c, "kill_hook") /\ Fire(c, "connect_error")
                 ELSE Goes(c, "semaphore") /\ UNCHANGED hooks
    /\ UNCHANGED <<main, cancelled, transport, state, told, cancelledAt, waited, late>>

SlotAcquired(c) ==
    /\ At(c, "semaphore") /\ Cardinality(Holding) < MaxConns
    /\ Goes(c, "connecting")
    /\ UNCHANGED <<main, cancelled, transport, state, hooks, told, cancelledAt, waited, late>>

ConnectFails(c) ==
    /\ At(c, "connecting")
    /\ Goes(c, "error_hook") /\ Fire(c, "connect_error")
    /\ UNCHANGED <<main, cancelled, transport, state, told, cancelledAt, waited, late>>

\* OpenConnectionCompleted with an error; the entry stays in transports.
ErrorHookDone(c) ==
    /\ \E t \in {"kill_hook", "error_hook", "cancel_hook"} : At(c, t)
    /\ Goes(c, "over") /\ Hear(c, "failed")
    /\ UNCHANGED <<main, cancelled, transport, state, hooks, cancelledAt, waited, late>>

RecordStreams(c) == transport' = [transport EXCEPT ![c] = "io"]

ConnectSucceeds(c) ==
    /\ At(c, "connecting")
    /\ Goes(c, "connected_hook") /\ Fire(c, "connected")
    /\ RecordStreams(c)
    /\ state' = [state EXCEPT ![c] = {"read", "write"}]
    /\ UNCHANGED <<main, cancelled, told, cancelledAt, waited, late>>

ConnectedHookDone(c) ==
    /\ At(c, "connected_hook")
    /\ Goes(c, "reading") /\ Hear(c, "opened")
    /\ UNCHANGED <<main, cancelled, transport, state, hooks, cancelledAt, waited, late>>

\* A cancellation that was pending when the hook started need not meet an await
\* in it, and whether it does, the task is over.
DisconnectHookDone(c) ==
    /\ task[c] = "disconnect_hook"
    /\ Goes(c, "over")
    /\ cancelled' = [cancelled EXCEPT ![c] = FALSE]
    /\ UNCHANGED <<main, transport, state, hooks, told, cancelledAt, waited, late>>

-----------------------------------------------------------------------------
(* handle_connection *)

ClientReaderStarts ==
    /\ At(Client, "created")
    /\ Goes(Client, "reading")
    /\ UNCHANGED <<main, cancelled, transport, state, hooks, told, cancelledAt, waited, late>>

AfterEof(c) == IF c \in Udp THEN {} ELSE state[c] \ {"read"}

\* read() returns at once at the end of the stream, even to a task that has
\* cancelled itself through a layer's command since its last await.
PeerCloses(c) ==
    /\ task[c] = "reading"
    /\ state' = [state EXCEPT ![c] = AfterEof(c)]
    /\ Goes(c, "closed") /\ Hear(c, "closed")
    /\ UNCHANGED <<main, cancelled, transport, hooks, cancelledAt, waited, late>>

\* Mutant: the disconnected hook only runs when nothing was raised.
RemoveQuietly(c) ==
    /\ transport' = [transport EXCEPT ![c] = "none"]
    /\ Goes(c, "over") /\ UNCHANGED hooks
\* Mutant: the entry stays in transports.
RemoveNothing(c) ==
    /\ IF c = Client THEN Goes(c, "over") /\ UNCHANGED hooks
                     ELSE Goes(c, "disconnect_hook") /\ Fire(c, "disconnected")
    /\ UNCHANGED transport
\* transports.pop and the end of the task, for a server after its last hook.
Remove(c) ==
    /\ transport' = [transport EXCEPT ![c] = "none"]
    /\ IF c = Client THEN Goes(c, "over") /\ UNCHANGED hooks
                     ELSE Goes(c, "disconnect_hook") /\ Fire(c, "disconnected")

AfterClosed(c) ==
    /\ task[c] = "closed"
    /\ IF state[c] = {"write"}
       THEN Goes(c, "half_closed") /\ UNCHANGED <<transport, hooks>>
       ELSE Remove(c)
    /\ UNCHANGED <<main, cancelled, state, told, cancelledAt, waited, late>>

-----------------------------------------------------------------------------
(* CancelledError *)

Drop(c) == Goes(c, "over") /\ UNCHANGED <<transport, state, hooks, told>>

GiveUp(c) ==
    /\ Goes(c, "cancel_hook") /\ Fire(c, "connect_error")
    /\ UNCHANGED <<transport, state, told>>

\* Mutant: the reader takes the cancellation for a spurious wake-up.
KeepReading(c) == UNCHANGED <<task, transport, state, hooks, told>>
StopReading(c) ==
    /\ state' = [state EXCEPT ![c] = {}]
    /\ Goes(c, "closed") /\ Hear(c, "closed")
    /\ UNCHANGED <<transport, hooks>>

\* The awaits of open_connection inside its try block.
Guarded == {"connecting"}

\* What the task does about it, by where it is.
Unwound(c) ==
    CASE task[c] \in Guarded -> GiveUp(c)
      [] task[c] = "reading" -> StopReading(c)
      [] task[c] = "half_closed" -> Remove(c) /\ UNCHANGED <<state, told>>
      [] OTHER -> Drop(c)

Cancelled(c) ==
    /\ cancelled[c] /\ task[c] \in Opening \cup {"reading", "half_closed"}
    /\ Unwound(c)
    /\ cancelled' = [cancelled EXCEPT ![c] = FALSE]
    /\ cancelledAt' = [cancelledAt EXCEPT ![c] = task[c]]
    /\ UNCHANGED <<main, waited, late>>

-----------------------------------------------------------------------------
(* The layers' commands, timeouts and write errors. *)

Started == task[Client] # "none"

LayerOpens(c) ==
    /\ Started /\ task[c] = "none"
    /\ Goes(c, "created")
    /\ transport' = [transport EXCEPT ![c] = "task"]
    /\ late' = IF main \in {"closing", "done"} THEN late \cup {c} ELSE late
    /\ UNCHANGED <<main, cancelled, state, hooks, told, cancelledAt, waited>>

\* Mutant: close_connection leaves the task to find out by itself.
CancelNobody(C) == UNCHANGED cancelled
CancelClosed(C) == Cancel(C)

LayerCloses(c) ==
    /\ Started /\ transport[c] # "none"
    /\ state' = [state EXCEPT ![c] = {}]
    /\ CancelClosed({c})
    /\ UNCHANGED <<main, task, transport, hooks, told, cancelledAt, waited, late>>

\* write_eof may fail, which closes the connection for good.
LayerHalfCloses(c) ==
    /\ c \notin Udp /\ transport[c] = "io" /\ "write" \in state[c]
    /\ IF c = Client THEN Started ELSE "opened" \in told[c]
    /\ \E s \in {state[c] \ {"write"}, {}} :
          /\ state' = [state EXCEPT ![c] = s]
          /\ CancelClosed(IF s = {} THEN {c} ELSE {})
    /\ UNCHANGED <<main, task, transport, hooks, told, cancelledAt, waited, late>>

\* drain_writers, in any reading task, meets a broken connection.
WriteError(c) ==
    /\ transport[c] = "io" /\ \E d \in Conns : task[d] = "reading"
    /\ Cancel({c})
    /\ UNCHANGED <<main, task, transport, state, hooks, told, cancelledAt, waited, late>>

\* TimeoutWatchdog.watch; handle_client stops it before the last hook.
OnTimeout ==
    /\ main = "running" /\ transport[Client] = "io"
    /\ Cancel({Client})
    /\ UNCHANGED <<main, task, transport, state, hooks, told, cancelledAt, waited, late>>

-----------------------------------------------------------------------------
(* handle_client *)

\* An addon may have set client.error to kill the connection.
ClientConnectedHookDone(killed) ==
    /\ main = "connected_hook"
    /\ IF killed
       THEN /\ transport' = [transport EXCEPT ![Client] = "none"]
            /\ main' = "disconnect_hook" /\ UNCHANGED task
       ELSE main' = "running" /\ Goes(Client, "created") /\ UNCHANGED transport
    /\ UNCHANGED <<cancelled, state, hooks, told, cancelledAt, waited, late>>

ClientGone ==
    /\ main = "running" /\ task[Client] = "over"
    /\ main' = "disconnect_hook"
    /\ UNCHANGED <<task, cancelled, transport, state, hooks, told, cancelledAt, waited, late>>

\* Mutant: connections that are still being opened are forgotten.
UpTransports == {c \in Conns : transport[c] = "io"}
OpenTransports == {c \in Conns : transport[c] # "none"}

ClientDisconnectedHookDone ==
    /\ main = "disconnect_hook"
    /\ waited' = OpenTransports
    /\ Cancel(waited')
    /\ main' = IF waited' = {} THEN "done" ELSE "closing"
    /\ UNCHANGED <<task, transport, state, hooks, told, cancelledAt, late>>

TransportsClosed ==
    /\ main = "closing" /\ \A c \in waited : task[c] = "over"
    /\ main' = "done"
    /\ UNCHANGED <<task, cancelled, transport, state, hooks, told, cancelledAt, waited, late>>

-----------------------------------------------------------------------------
ServerTask(c) ==
    \/ TaskStarts(c) \/ NoAddress(c) \/ (\E killed \in BOOLEAN : ConnectHookDone(c, killed))
    \/ SlotAcquired(c) \/ ConnectFails(c) \/ ConnectSucceeds(c)
    \/ ErrorHookDone(c) \/ ConnectedHookDone(c) \/ DisconnectHookDone(c)

ReaderTask(c) == AfterClosed(c) \/ Cancelled(c)

HandleClient ==
    \/ \E killed \in BOOLEAN : ClientConnectedHookDone(killed)
    \/ ClientReaderStarts
    \/ ClientGone \/ ClientDisconnectedHookDone \/ TransportsClosed

Next ==
    \/ HandleClient \/ OnTimeout
    \/ \E c \in Servers : ServerTask(c) \/ LayerOpens(c)
    \/ \E c \in Conns : \/ ReaderTask(c) \/ PeerCloses(c) \/ WriteError(c)
                        \/ LayerCloses(c) \/ LayerHalfCloses(c)

Spec == Init /\ [][Next]_vars

\* The event loop runs every task that can go on; hooks return and connection
\* attempts are decided.  Peers need not close anything.
Fairness ==
    /\ WF_vars(HandleClient)
    /\ \A c \in Servers : WF_vars(ServerTask(c))
    /\ \A c \in Conns : WF_vars(ReaderTask(c))

-----------------------------------------------------------------------------
(* Properties *)

\* The hook documentation (server_hooks.py), "Every server connection will
\* receive either a server_connected or a server_connect_error event, but not
\* both", as far as it holds: a connection gets neither only if it has no
\* address or was cancelled before it began to connect.  And every connection
\* announced as connected is announced as disconnected, unless the cancellation
\* came while the first of these hooks was running.
HooksPaired ==
    \A c \in Servers :
        /\ ~({"connected", "connect_error"} \subseteq hooks[c])
        /\ task[c] = "over" /\ "connect" \in hooks[c]
           /\ hooks[c] \cap {"connected", "connect_error"} = {}
              => cancelledAt[c] \in {"connect_hook", "semaphore"}
        /\ task[c] = "over" => ("disconnected" \in hooks[c] <=>
              "connected" \in hooks[c] /\ cancelledAt[c] # "connected_hook")

\* A layer that waits for OpenConnectionCompleted gets it, and a connection it
\* was given is reported closed, unless the task was cancelled in between.
LayerIsAnswered ==
    \A c \in Servers : task[c] = "over" =>
        \/ told[c] = {"failed"} \/ told[c] = {"opened", "closed"}
        \/ told[c] = {} /\ cancelledAt[c] \in Opening \ {"connecting"}

\* What leaves a writer that no task will ever close is a cancellation in the
\* connected hook, or one of the client's task before its first step, and
\* nothing else.
NoWriterLeft ==
    \A c \in Conns : task[c] = "over" /\ transport[c] = "io" =>
        cancelledAt[c] = IF c = Client THEN "created" ELSE "connected_hook"

\* A connection that is closed on both sides has no task left waiting for it:
\* a reader that waits for our side to be closed waits for something to happen.
ClosedIsNoticed ==
    \A c \in Conns : task[c] \in {"reading", "half_closed"} /\ state[c] = {} => cancelled[c]

\* Nothing is left open behind anybody's back: no writer by a task that is over, no
\* connection by a task that waits for it.
NothingLeftOpen == NoWriterLeft /\ ClosedIsNoticed

\* No more connections than slots are being made or served at one address.
SlotsRespected ==
    Cardinality({c \in Servers : task[c] = "connecting"
                    \/ (transport[c] = "io" /\ task[c] # "over")}) <= MaxConns

\* When handle_client ends, the connections the layers had opened before its
\* last hook was done are over, but for their own disconnected hook: only one
\* opened later outlives the client.
NothingOutlivesClient ==
    main = "done" =>
        \A c \in Servers \ late : task[c] \in {"none", "over", "disconnect_hook"}
==============================================================================
