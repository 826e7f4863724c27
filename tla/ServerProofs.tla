----------------------------- MODULE ServerProofs -----------------------------
(***************************************************************************)
(* Proofs about the servers of the proxy and what serves a client.  The     *)
(* first part is about ConnectionHandler.tla, for any servers, transports   *)
(* and number of slots: the invariants the model checker checks on a small  *)
(* instance; then about Watchdog.tla: that it only restricts the handler,   *)
(* and when it times a client out.                                          *)
(*                                                                          *)
(* The last part is about ProxyServers.tla, for any modes, any sockets they *)
(* listen on and any number of changes: no socket is lost but by a start or *)
(* stop that fails, none is fought over, and what stays in the options goes *)
(* on being served.                                                         *)
(***************************************************************************)
EXTENDS Watchdog, ProxyServers, FiniteSetTheorems, TLAPS

Failing == {"kill_hook", "error_hook", "cancel_hook"}
Served == {"reading", "closed", "half_closed"}
Made == Served \cup {"connected_hook", "disconnect_hook"}

Types ==
    /\ main \in {"connected_hook", "running", "disconnect_hook", "closing", "done"}
    /\ task \in [Conns -> Tasks]
    /\ cancelled \in [Conns -> BOOLEAN]
    /\ transport \in [Conns -> {"none", "task", "io"}]
    /\ state \in [Conns -> SUBSET {"read", "write"}]
    /\ hooks \in [Servers -> SUBSET {"connect", "connected", "connect_error", "disconnected"}]
    /\ told \in [Conns -> SUBSET {"opened", "failed", "closed"}]
    /\ cancelledAt \in [Conns -> Tasks]
    /\ waited \subseteq Conns /\ late \subseteq Servers

\* While the client's connected hook runs nothing has happened to it.
ClientInv ==
    /\ task[Client] \in Served \cup {"none", "created", "over"}
    /\ main = "connected_hook" =>
          task[Client] = "none" /\ transport[Client] = "io" /\ state[Client] = {"read", "write"}

\* The entry in transports belongs to where the task is.
EntryInv ==
    \A c \in Conns :
        /\ task[c] \in Served => transport[c] = "io"
        /\ task[c] = "over" /\ transport[c] = "io" =>
              cancelledAt[c] = IF c = Client THEN "created" ELSE "connected_hook"
        /\ c = Client /\ task[c] = "created" => transport[c] = "io"
        /\ c # Client /\ task[c] = "connected_hook" => transport[c] = "io"
        /\ c # Client /\ task[c] # "over" /\ transport[c] = "io" =>
              task[c] \in Served \cup {"connected_hook"}
        /\ c # Client /\ transport[c] = "none" =>
              task[c] \in {"none", "disconnect_hook", "over"}

\* The hooks started so far belong to where the task is, and at its end to
\* where it was cancelled.
HooksInv ==
    \A c \in Servers :
        /\ task[c] # "over" =>
              /\ "connect" \in hooks[c] <=> task[c] \notin {"none", "created"}
              /\ "connected" \in hooks[c] <=> task[c] \in Made
              /\ "connect_error" \in hooks[c] <=> task[c] \in Failing
              /\ "disconnected" \in hooks[c] <=> task[c] = "disconnect_hook"
              /\ cancelledAt[c] \in {"none", "connecting", "reading", "half_closed"}
        /\ ~("connected" \in hooks[c] /\ "connect_error" \in hooks[c])
        /\ task[c] = "over" =>
              /\ "connect" \in hooks[c] /\ "connected" \notin hooks[c]
                 /\ "connect_error" \notin hooks[c]
                    => cancelledAt[c] \in {"connect_hook", "semaphore"}
              /\ "disconnected" \in hooks[c] <=>
                    "connected" \in hooks[c] /\ cancelledAt[c] # "connected_hook"

\* So do the events the layers have seen.
ToldInv ==
    \A c \in Servers :
        /\ task[c] # "over" =>
              /\ "opened" \in told[c] <=> task[c] \in Served \cup {"disconnect_hook"}
              /\ "closed" \in told[c] <=> task[c] \in {"closed", "half_closed", "disconnect_hook"}
              /\ "failed" \notin told[c]
        /\ task[c] = "over" =>
              /\ "opened" \in told[c] <=> "closed" \in told[c]
              /\ ~("opened" \in told[c] /\ "failed" \in told[c])
              /\ told[c] = {} => cancelledAt[c] \in Opening \ {"connecting"}

\* A connection that is up and closed on both sides has been cancelled.
ClosedInv ==
    \A c \in Conns :
        /\ \/ task[c] \in {"connected_hook", "reading", "half_closed"}
           \/ c = Client /\ task[c] = "created"
        /\ state[c] = {}
        => cancelled[c]

SlotInv == Cardinality(Holding) <= MaxConns

\* Once handle_client collects the transports, what is neither over nor about to
\* be is waited for or came later.
WaitInv ==
    /\ main \in {"closing", "done"} =>
          \A c \in Servers \ late :
              task[c] \in {"none", "over", "disconnect_hook"} \/ c \in waited
    /\ main = "done" => \A c \in waited : task[c] = "over"

LocalInv == Types /\ ClientInv /\ EntryInv /\ HooksInv /\ ToldInv /\ ClosedInv /\ WaitInv

IInv == LocalInv /\ SlotInv

-----------------------------------------------------------------------------

LEMMA InitLocal == Init => LocalInv
<1> SUFFICES ASSUME Init PROVE LocalInv
  OBVIOUS
<1> USE ConnAssumption DEF Init, Conns
<1>1. Types
  BY DEF Types, Tasks, Opening
<1>2. ClientInv /\ EntryInv /\ WaitInv
  BY DEF ClientInv, EntryInv, WaitInv, Served
<1>3. HooksInv /\ ToldInv /\ ClosedInv
  BY DEF HooksInv, ToldInv, ClosedInv, Served, Made, Failing
<1> QED BY <1>1, <1>2, <1>3 DEF LocalInv

LEMMA LocalStep ==
    ASSUME LocalInv, NEW c \in Servers, ServerTask(c)
    PROVE  LocalInv'
<1> USE ConnAssumption
    DEF LocalInv, Types, ClientInv, EntryInv, HooksInv, ToldInv, ClosedInv, WaitInv,
        Conns, Tasks, Opening, Served, Made, Failing, Goes, Hear, Fire, At
<1>1. CASE TaskStarts(c)
  BY <1>1 DEF TaskStarts
<1>2. CASE NoAddress(c)
  BY <1>2 DEF NoAddress
<1>3. ASSUME NEW killed \in BOOLEAN, ConnectHookDone(c, killed) PROVE LocalInv'
  BY <1>3 DEF ConnectHookDone
<1>4. CASE SlotAcquired(c)
  BY <1>4 DEF SlotAcquired
<1>5. CASE ConnectFails(c)
  BY <1>5 DEF ConnectFails
<1>6. CASE ConnectSucceeds(c)
  <2> USE <1>6 DEF ConnectSucceeds, RecordStreams
  <2>1. Types' /\ ClientInv' /\ WaitInv'
    OBVIOUS
  <2>2. EntryInv' /\ ClosedInv'
    OBVIOUS
  <2>3. HooksInv' /\ ToldInv'
    OBVIOUS
  <2> QED BY ONLY <2>1, <2>2, <2>3 DEF LocalInv
<1>7. CASE ErrorHookDone(c)
  BY <1>7 DEF ErrorHookDone
<1>8. CASE ConnectedHookDone(c)
  BY <1>8 DEF ConnectedHookDone
<1>9. CASE DisconnectHookDone(c)
  BY <1>9 DEF DisconnectHookDone
<1> QED BY <1>1, <1>2, <1>3, <1>4, <1>5, <1>6, <1>7, <1>8, <1>9 DEF ServerTask

LEMMA ReaderStep ==
    ASSUME LocalInv, NEW c \in Conns, PeerCloses(c) \/ AfterClosed(c)
    PROVE  LocalInv'
<1> USE ConnAssumption
    DEF LocalInv, Types, ClientInv, EntryInv, HooksInv, ToldInv, ClosedInv, WaitInv,
        Conns, Tasks, Opening, Served, Made, Failing, Goes, Hear, Fire
<1>1. CASE PeerCloses(c)
  <2> USE <1>1 DEF PeerCloses, AfterEof
  <2>1. Types' /\ ClientInv' /\ WaitInv'
    OBVIOUS
  <2>2. EntryInv' /\ ClosedInv'
    OBVIOUS
  <2>3. HooksInv' /\ ToldInv'
    OBVIOUS
  <2> QED BY ONLY <2>1, <2>2, <2>3 DEF LocalInv
<1>2. CASE AfterClosed(c)
  <2> USE <1>2 DEF AfterClosed, Remove
  <2>1. Types' /\ ClientInv' /\ WaitInv'
    OBVIOUS
  <2>2. EntryInv' /\ ClosedInv'
    OBVIOUS
  <2>3. HooksInv' /\ ToldInv'
    OBVIOUS
  <2> QED BY ONLY <2>1, <2>2, <2>3 DEF LocalInv
<1> QED BY <1>1, <1>2

LEMMA CancelledStep ==
    ASSUME LocalInv, NEW c \in Conns, Cancelled(c)
    PROVE  LocalInv'
<1> USE ConnAssumption
    DEF LocalInv, Types, ClientInv, EntryInv, HooksInv, ToldInv, ClosedInv, WaitInv,
        Conns, Tasks, Opening, Served, Made, Failing, Goes, Hear, Fire, Cancelled, Unwound,
        Guarded
<1>1. CASE task[c] = "connecting"
  <2> USE <1>1 DEF GiveUp
  <2>1. Types' /\ ClientInv' /\ WaitInv'
    OBVIOUS
  <2>2. EntryInv' /\ ClosedInv'
    OBVIOUS
  <2>3. HooksInv' /\ ToldInv'
    OBVIOUS
  <2> QED BY ONLY <2>1, <2>2, <2>3 DEF LocalInv
<1>2. CASE task[c] = "reading"
  <2> USE <1>2 DEF StopReading
  <2>1. Types' /\ ClientInv' /\ WaitInv'
    OBVIOUS
  <2>2. EntryInv' /\ ClosedInv'
    OBVIOUS
  <2>3. HooksInv' /\ ToldInv'
    OBVIOUS
  <2> QED BY ONLY <2>1, <2>2, <2>3 DEF LocalInv
<1>3. CASE task[c] = "half_closed"
  <2> USE <1>3 DEF Remove
  <2>1. Types' /\ ClientInv' /\ WaitInv'
    OBVIOUS
  <2>2. EntryInv' /\ ClosedInv'
    OBVIOUS
  <2>3. HooksInv' /\ ToldInv'
    OBVIOUS
  <2> QED BY ONLY <2>1, <2>2, <2>3 DEF LocalInv
<1>4. CASE task[c] \in Opening \ {"connecting"}
  <2> USE <1>4 DEF Drop
  <2>1. Types' /\ ClientInv' /\ WaitInv'
    OBVIOUS
  <2>2. EntryInv' /\ ClosedInv'
    OBVIOUS
  <2>3. HooksInv' /\ ToldInv'
    OBVIOUS
  <2> QED BY ONLY <2>1, <2>2, <2>3 DEF LocalInv
<1> QED BY <1>1, <1>2, <1>3, <1>4

\* A cancellation only ever sets marks, and none on a task that is over.
LEMMA CancelMarks ==
    ASSUME LocalInv, NEW C, Cancel(C)
    PROVE  /\ cancelled' \in [Conns -> BOOLEAN]
           /\ \A c \in Conns : cancelled[c] => cancelled'[c]
           /\ \A c \in Conns \cap C : task[c] # "over" => cancelled'[c]
  BY DEF LocalInv, Types, Cancel

LEMMA CommandStep ==
    ASSUME LocalInv, NEW c \in Conns, LayerCloses(c) \/ LayerHalfCloses(c) \/ WriteError(c)
    PROVE  LocalInv'
<1> USE ConnAssumption
<1>1. CASE LayerCloses(c)
  <2>1. /\ cancelled' \in [Conns -> BOOLEAN]
        /\ \A d \in Conns : cancelled[d] => cancelled'[d]
        /\ task[c] # "over" => cancelled'[c]
    BY <1>1, CancelMarks DEF LayerCloses, CancelClosed
  <2>2. ClosedInv'
    BY <1>1, <2>1 DEF LayerCloses, LocalInv, ClosedInv, Types
  <2>3. Types' /\ ClientInv'
    BY <1>1, <2>1 DEF LayerCloses, LocalInv, Types, ClientInv, Started
  <2>4. EntryInv' /\ HooksInv' /\ ToldInv' /\ WaitInv'
    BY <1>1 DEF LayerCloses, LocalInv, EntryInv, HooksInv, ToldInv, WaitInv
  <2> QED BY <2>2, <2>3, <2>4 DEF LocalInv
<1>2. CASE LayerHalfCloses(c)
  <2>1. PICK s \in {state[c] \ {"write"}, {}} :
            /\ state' = [state EXCEPT ![c] = s]
            /\ CancelClosed(IF s = {} THEN {c} ELSE {})
    BY <1>2 DEF LayerHalfCloses
  <2>2. /\ cancelled' \in [Conns -> BOOLEAN]
        /\ \A d \in Conns : cancelled[d] => cancelled'[d]
        /\ s = {} /\ task[c] # "over" => cancelled'[c]
    BY <2>1, CancelMarks DEF CancelClosed
  <2>3. ClosedInv'
    BY <1>2, <2>1, <2>2 DEF LayerHalfCloses, LocalInv, ClosedInv, Types
  <2>4. Types' /\ ClientInv'
    BY <1>2, <2>1, <2>2 DEF LayerHalfCloses, LocalInv, Types, ClientInv, Started, Conns
  <2>5. EntryInv' /\ HooksInv' /\ ToldInv' /\ WaitInv'
    BY <1>2 DEF LayerHalfCloses, LocalInv, EntryInv, HooksInv, ToldInv, WaitInv
  <2> QED BY <2>3, <2>4, <2>5 DEF LocalInv
<1>3. CASE WriteError(c)
  <2>1. /\ cancelled' \in [Conns -> BOOLEAN]
        /\ \A d \in Conns : cancelled[d] => cancelled'[d]
    BY <1>3, CancelMarks DEF WriteError
  <2>2. Types' /\ ClientInv' /\ ClosedInv'
    BY <1>3, <2>1 DEF WriteError, LocalInv, Types, ClientInv, ClosedInv
  <2>3. EntryInv' /\ HooksInv' /\ ToldInv' /\ WaitInv'
    BY <1>3 DEF WriteError, LocalInv, EntryInv, HooksInv, ToldInv, WaitInv
  <2> QED BY <2>2, <2>3 DEF LocalInv
<1> QED BY <1>1, <1>2, <1>3

LEMMA OpenStep ==
    ASSUME LocalInv, NEW c \in Servers, LayerOpens(c)
    PROVE  LocalInv'
<1> USE ConnAssumption
    DEF LocalInv, Types, ClientInv, EntryInv, HooksInv, ToldInv, ClosedInv, WaitInv,
        Conns, Tasks, Opening, Served, Made, Failing, Goes, LayerOpens, Started
<1>1. Types' /\ ClientInv' /\ WaitInv'
  OBVIOUS
<1>2. EntryInv' /\ ClosedInv'
  OBVIOUS
<1>3. HooksInv' /\ ToldInv'
  OBVIOUS
<1> QED BY ONLY <1>1, <1>2, <1>3 DEF LocalInv

LEMMA HandlerStep ==
    ASSUME LocalInv, HandleClient \/ OnTimeout
    PROVE  LocalInv'
<1> USE ConnAssumption
    DEF LocalInv, Types, ClientInv, EntryInv, HooksInv, ToldInv, ClosedInv, WaitInv,
        Conns, Tasks, Opening, Served, Made, Failing, Goes
<1>1. ASSUME NEW killed \in BOOLEAN, ClientConnectedHookDone(killed) PROVE LocalInv'
  <2> USE <1>1 DEF ClientConnectedHookDone
  <2>1. Types' /\ ClientInv' /\ WaitInv'
    OBVIOUS
  <2>2. EntryInv' /\ ClosedInv'
    OBVIOUS
  <2>3. HooksInv' /\ ToldInv'
    OBVIOUS
  <2> QED BY ONLY <2>1, <2>2, <2>3 DEF LocalInv
<1>2. CASE ClientReaderStarts
  <2> USE <1>2 DEF ClientReaderStarts, At
  <2>1. Types' /\ ClientInv' /\ WaitInv'
    OBVIOUS
  <2>2. EntryInv' /\ ClosedInv'
    OBVIOUS
  <2>3. HooksInv' /\ ToldInv'
    OBVIOUS
  <2> QED BY ONLY <2>1, <2>2, <2>3 DEF LocalInv
<1>3. CASE ClientGone
  BY <1>3 DEF ClientGone
<1>4. CASE ClientDisconnectedHookDone
  <2>1. /\ cancelled' \in [Conns -> BOOLEAN]
        /\ \A d \in Conns : cancelled[d] => cancelled'[d]
    BY <1>4, CancelMarks DEF ClientDisconnectedHookDone
  <2> USE <1>4 DEF ClientDisconnectedHookDone, OpenTransports
  <2>2. Types' /\ ClientInv' /\ ClosedInv'
    BY <2>1
  <2>3. WaitInv'
    OBVIOUS
  <2>4. EntryInv' /\ HooksInv' /\ ToldInv'
    OBVIOUS
  <2> QED BY ONLY <2>2, <2>3, <2>4 DEF LocalInv
<1>5. CASE TransportsClosed
  BY <1>5 DEF TransportsClosed
<1>6. CASE OnTimeout
  <2>1. /\ cancelled' \in [Conns -> BOOLEAN]
        /\ \A d \in Conns : cancelled[d] => cancelled'[d]
    BY <1>6, CancelMarks DEF OnTimeout
  <2> QED BY <1>6, <2>1 DEF OnTimeout
<1> QED BY ONLY HandleClient \/ OnTimeout, <1>1, <1>2, <1>3, <1>4, <1>5, <1>6 DEF HandleClient

LEMMA LocalInvariant ==
    ASSUME LocalInv, [Next]_vars
    PROVE  LocalInv'
<1>1. CASE Next
  BY <1>1, LocalStep, ReaderStep, CancelledStep, CommandStep, OpenStep, HandlerStep
     DEF Next, ReaderTask
<1>2. CASE UNCHANGED vars
  BY <1>2 DEF vars, LocalInv, Types, ClientInv, EntryInv, HooksInv, ToldInv, ClosedInv,
     WaitInv
<1> QED BY <1>1, <1>2

-----------------------------------------------------------------------------

LEMMA HoldingFinite == IsFiniteSet(Holding) /\ Cardinality(Holding) \in Nat
<1>1. Holding \subseteq Servers
  BY DEF Holding
<1> QED BY <1>1, ConnAssumption, FS_Subset, FS_CardinalityType

\* Whatever moves no task of a server into the slots leaves them as full as they
\* were or less.
LEMMA FewerHold ==
    ASSUME SlotInv, Holding' \subseteq Holding
    PROVE  SlotInv'
<1>1. Cardinality(Holding') <= Cardinality(Holding)
  BY HoldingFinite, FS_Subset
<1>2. IsFiniteSet(Holding')
  BY HoldingFinite, FS_Subset
<1>3. Cardinality(Holding') \in Nat
  BY <1>2, FS_CardinalityType
<1> QED BY <1>1, <1>3, HoldingFinite, ConnAssumption DEF SlotInv

LEMMA SlotsKept ==
    ASSUME LocalInv, SlotInv, [Next]_vars
    PROVE  SlotInv'
<1> USE ConnAssumption
<1>1. ASSUME NEW c \in Servers, SlotAcquired(c) PROVE SlotInv'
  <2>1. Holding' = Holding \cup {c}
    BY <1>1 DEF SlotAcquired, At, Goes, Holding, LocalInv, Types, Conns
  <2>2. c \notin Holding
    BY <1>1 DEF SlotAcquired, At, Holding
  <2>3. Cardinality(Holding') = Cardinality(Holding) + 1
    BY <2>1, <2>2, HoldingFinite, FS_AddElement
  <2> QED BY <1>1, <2>3, HoldingFinite DEF SlotAcquired, SlotInv
<1>2. ASSUME NEW c \in Servers, ServerTask(c), ~SlotAcquired(c) PROVE Holding' \subseteq Holding
  <2> USE DEF At, Goes, Holding, LocalInv, Types, Conns
  <2>1. CASE TaskStarts(c) \/ NoAddress(c) \/ ErrorHookDone(c) \/ DisconnectHookDone(c)
    BY <2>1 DEF TaskStarts, NoAddress, ErrorHookDone, DisconnectHookDone
  <2>2. ASSUME NEW killed \in BOOLEAN, ConnectHookDone(c, killed)
        PROVE  Holding' \subseteq Holding
    BY <2>2 DEF ConnectHookDone
  <2>3. CASE ConnectFails(c) \/ ConnectSucceeds(c) \/ ConnectedHookDone(c)
    BY <2>3 DEF ConnectFails, ConnectSucceeds, ConnectedHookDone
  <2> QED BY ONLY <1>2, <2>1, <2>2, <2>3 DEF ServerTask
<1>3. ASSUME NEW c \in Conns, ReaderTask(c) \/ PeerCloses(c) PROVE Holding' \subseteq Holding
  <2> USE DEF Goes, Holding, LocalInv, Types, Conns
  <2>1. CASE AfterClosed(c)
    BY <2>1 DEF AfterClosed, Remove
  <2>2. CASE PeerCloses(c)
    BY <2>2 DEF PeerCloses
  <2>3. CASE Cancelled(c)
    <3>1. CASE task[c] \in {"connecting", "reading", "half_closed"}
      BY <2>3, <3>1 DEF Cancelled, Unwound, Guarded, GiveUp, StopReading, Remove
    <3>2. CASE task[c] \notin {"connecting", "reading", "half_closed"}
      BY <2>3, <3>2 DEF Cancelled, Unwound, Guarded, Drop
    <3> QED BY ONLY <3>1, <3>2
  <2> QED BY ONLY <1>3, <2>1, <2>2, <2>3 DEF ReaderTask
<1>4. ASSUME NEW c \in Conns, WriteError(c) \/ LayerCloses(c) \/ LayerHalfCloses(c)
      PROVE  Holding' \subseteq Holding
  BY <1>4 DEF WriteError, LayerCloses, LayerHalfCloses, Holding
<1>5. ASSUME NEW c \in Servers, LayerOpens(c) PROVE Holding' \subseteq Holding
  BY <1>5 DEF LayerOpens, Goes, Holding, LocalInv, Types, Conns
<1>6. ASSUME HandleClient \/ OnTimeout PROVE Holding' \subseteq Holding
  BY <1>6 DEF HandleClient, OnTimeout, ClientConnectedHookDone, ClientReaderStarts, ClientGone,
     ClientDisconnectedHookDone, TransportsClosed, Goes, Holding, LocalInv, Types, Conns
<1>7. ASSUME UNCHANGED vars PROVE Holding' \subseteq Holding
  BY <1>7 DEF vars, Holding
<1> QED BY <1>1, <1>2, <1>3, <1>4, <1>5, <1>6, <1>7, FewerHold DEF Next

LEMMA Inductive == Spec => []IInv
<1>1. Init => IInv
  <2> SUFFICES ASSUME Init PROVE SlotInv
    BY InitLocal DEF IInv
  <2>1. Holding = {}
    BY ConnAssumption DEF Init, Holding, Conns
  <2> QED BY <2>1, FS_EmptySet, ConnAssumption DEF SlotInv
<1>2. IInv /\ [Next]_vars => IInv'
  BY LocalInvariant, SlotsKept DEF IInv
<1> QED BY <1>1, <1>2, PTL DEF Spec

-----------------------------------------------------------------------------

\* Every variable has its type, and the entry that handle_connection reads from
\* and pops in the end is there, with a writer, as long as it runs.
THEOREM TypeCorrect == Spec => []TypeOK
<1>1. IInv => TypeOK
  BY DEF IInv, LocalInv, Types, EntryInv, Served, TypeOK
<1> QED BY <1>1, Inductive, PTL

\* server_connected and server_connect_error are never both announced, and each
\* connection that is announced is announced as gone.
THEOREM HooksPairedHolds == Spec => []HooksPaired
<1>1. IInv => HooksPaired
  BY DEF IInv, LocalInv, Types, HooksInv, HooksPaired
<1> QED BY <1>1, Inductive, PTL

\* Whatever cancels the task, a layer that waits for a connection is answered
\* unless it was cancelled outside the one await that is guarded.
THEOREM LayerIsAnsweredHolds == Spec => []LayerIsAnswered
<1>1. IInv => LayerIsAnswered
  BY ConnAssumption DEF IInv, LocalInv, Types, ToldInv, LayerIsAnswered, Conns
<1> QED BY <1>1, Inductive, PTL

\* There are only two awaits at which a cancellation leaks a writer.
THEOREM NoWriterLeftHolds == Spec => []NoWriterLeft
<1>1. IInv => NoWriterLeft
  BY DEF IInv, LocalInv, EntryInv, NoWriterLeft
<1> QED BY <1>1, Inductive, PTL

\* No reader waits on a connection that is closed in both directions without a
\* cancellation on its way.
THEOREM ClosedIsNoticedHolds == Spec => []ClosedIsNoticed
<1>1. IInv => ClosedIsNoticed
  BY DEF IInv, LocalInv, ClosedInv, ClosedIsNoticed
<1> QED BY <1>1, Inductive, PTL

\* Neither a writer without a task nor a task that waits for nothing is left behind.
THEOREM NothingLeftOpenHolds == Spec => []NothingLeftOpen
<1>1. NoWriterLeft /\ ClosedIsNoticed => NothingLeftOpen
  BY DEF NothingLeftOpen
<1> QED BY <1>1, NoWriterLeftHolds, ClosedIsNoticedHolds, PTL

\* An address never has more connections being made or served than its slots.
THEOREM SlotsRespectedHolds == Spec => []SlotsRespected
<1> DEFINE Serving == {c \in Servers : task[c] = "connecting"
                           \/ (transport[c] = "io" /\ task[c] # "over")}
<1>1. ASSUME IInv PROVE SlotsRespected
  <2>1. Serving \subseteq Holding
    BY <1>1, ConnAssumption DEF IInv, LocalInv, EntryInv, Served, Holding, Conns
  <2>2. Cardinality(Serving) <= Cardinality(Holding) /\ IsFiniteSet(Serving)
    BY <2>1, HoldingFinite, FS_Subset
  <2>3. Cardinality(Serving) \in Nat
    BY <2>2, FS_CardinalityType
  <2>4. Cardinality(Holding) <= MaxConns
    BY <1>1 DEF IInv, SlotInv
  <2>5. Cardinality(Serving) <= MaxConns
    BY <2>2, <2>3, <2>4, HoldingFinite, ConnAssumption
  <2> QED BY <2>5 DEF SlotsRespected
<1> QED BY <1>1, Inductive, PTL

\* When handle_client has ended, only connections that were opened after it
\* collected the transports are still served.
THEOREM NothingOutlivesClientHolds == Spec => []NothingOutlivesClient
<1>1. IInv => NothingOutlivesClient
  BY DEF IInv, LocalInv, WaitInv, NothingOutlivesClient
<1> QED BY <1>1, Inductive, PTL

-----------------------------------------------------------------------------
(* The watchdog beside the handler *)

WatchInv ==
    /\ WatchTypeOK
    /\ Blockers # {} /\ watch = "asleep" => caught
    /\ Blockers = {} /\ quiet /\ watch # "over" => lapsed

\* A step of the handler or of the layers is a step of one task.
LEMMA OneMoves ==
    ASSUME TypeOK, Handler \/ Layers
    PROVE  \E c \in Conns : /\ \A d \in Conns \ {c} : task'[d] = task[d]
                            /\ c # Client => main' = main
<1>1. Client \in Conns /\ task \in [Conns -> Tasks] /\ \A c \in Servers : c \in Conns
  BY DEF Conns, TypeOK
<1>2. CASE HandleClient
  <2>1. \A d \in Conns \ {Client} : task'[d] = task[d]
    BY <1>1, <1>2 DEF HandleClient, ClientConnectedHookDone, ClientReaderStarts, ClientGone,
       ClientDisconnectedHookDone, TransportsClosed, Goes
  <2>. QED  BY <1>1, <2>1
<1>3. ASSUME NEW c \in Servers, ServerTask(c)
      PROVE  (\A d \in Conns \ {c} : task'[d] = task[d]) /\ main' = main
  BY <1>1, <1>3 DEF ServerTask, TaskStarts, NoAddress, ConnectHookDone, SlotAcquired,
     ConnectFails, ErrorHookDone, ConnectSucceeds, ConnectedHookDone, DisconnectHookDone, Goes
<1>4. ASSUME NEW c \in Conns, ReaderTask(c)
      PROVE  (\A d \in Conns \ {c} : task'[d] = task[d]) /\ main' = main
  BY <1>1, <1>4 DEF ReaderTask, AfterClosed, Cancelled, Unwound, Remove, GiveUp, StopReading,
     Drop, Goes
<1>5. ASSUME NEW c \in Conns,
             PeerCloses(c) \/ WriteError(c) \/ LayerCloses(c) \/ LayerHalfCloses(c) \/ Data(c)
      PROVE  (\A d \in Conns \ {c} : task'[d] = task[d]) /\ main' = main
  BY <1>1, <1>5 DEF PeerCloses, WriteError, LayerCloses, LayerHalfCloses, Data, Goes, vars
<1>6. ASSUME NEW c \in Servers, LayerOpens(c)
      PROVE  (\A d \in Conns \ {c} : task'[d] = task[d]) /\ main' = main
  BY <1>1, <1>6 DEF LayerOpens, Goes
<1>. QED  BY <1>1, <1>2, <1>3, <1>4, <1>5, <1>6 DEF Handler, Layers

\* So the last hook that runs is the one that ends.
LEMMA LastHookRearms ==
    ASSUME TypeOK, Handler \/ Layers, Blockers # {}, Blockers' = {}
    PROVE  Rearmed
<1>1. PICK c \in Conns : /\ \A d \in Conns \ {c} : task'[d] = task[d]
                         /\ c # Client => main' = main
  BY OneMoves
<1>2. Client \notin Servers /\ Servers \subseteq Conns /\ Client \in Conns
  BY ConnAssumption DEF Conns
<1>3. \A d \in Servers : task'[d] \notin InHook
  BY DEF Blockers
<1>4. main' # "connected_hook"
  BY DEF Blockers
<1>5. ASSUME NEW d \in Blockers PROVE d = c
  <2>1. CASE d \in Servers
    BY <1>1, <1>2, <1>3, <1>5, <2>1 DEF Blockers
  <2>2. CASE d = Client
    BY <1>1, <1>2, <1>4, <1>5, <2>2 DEF Blockers
  <2>. QED  BY <2>1, <2>2 DEF Blockers
<1>6. Blockers = {c}
  BY <1>5
<1>7. HookEnds(c)
  BY <1>2, <1>3, <1>4, <1>6 DEF HookEnds, Blockers
<1>. QED  BY <1>6, <1>7 DEF Rearmed

LEMMA WatchInvStep ==
    ASSUME TypeOK, WatchInv, Handler \/ Layers, NEW event \in BOOLEAN, Watched(event)
    PROVE  WatchInv'
<1>1. WatchTypeOK'
  BY DEF WatchInv, WatchTypeOK, Watched
<1>2. ASSUME Blockers' # {}, watch' = "asleep" PROVE caught'
  BY <1>2 DEF WatchInv, Watched
<1>3. ASSUME Blockers' = {}, quiet', watch' # "over" PROVE lapsed'
  <2>1. quiet /\ ~Rearmed /\ watch # "over"
    BY <1>3 DEF Watched, Active
  <2>2. Blockers = {}
    BY <1>3, <2>1, LastHookRearms
  <2>. QED  BY <1>3, <2>1, <2>2 DEF WatchInv, Watched
<1>. QED  BY <1>1, <1>2, <1>3 DEF WatchInv

LEMMA WatchInvNext == TypeOK /\ WatchInv /\ [WNext]_allVars => WatchInv'
<1> SUFFICES ASSUME TypeOK, WatchInv, [WNext]_allVars PROVE WatchInv'
  OBVIOUS
<1>1. (told' # told) \in BOOLEAN
  OBVIOUS
<1>2. CASE (Handler /\ Watched(told' # told)) \/ (Layers /\ Watched(TRUE))
  BY <1>1, <1>2, WatchInvStep
<1>3. ASSUME UNCHANGED <<task, main>> PROVE Blockers' = Blockers
  BY <1>3 DEF Blockers
<1>4. CASE Loops \/ TimePasses
  <2>1. Blockers' = Blockers /\ caught' = caught
    BY <1>3, <1>4 DEF Loops, TimePasses, vars
  <2>2. CASE Loops
    BY <2>1, <2>2 DEF Loops, CanTimeout, WatchInv, WatchTypeOK
  <2>3. CASE TimePasses
    <3>1. watch' = watch /\ quiet' \in BOOLEAN /\ lapsed' \in BOOLEAN
      BY <2>3 DEF TimePasses
    <3>2. Blockers = {} => lapsed'
      BY <2>3 DEF TimePasses
    <3>. QED  BY <2>1, <3>1, <3>2 DEF WatchInv, WatchTypeOK
  <2>. QED  BY <1>4, <2>2, <2>3
<1>5. CASE TimesOut
  BY <1>5 DEF TimesOut, WatchInv, WatchTypeOK
<1>6. CASE UNCHANGED allVars
  BY <1>3, <1>6 DEF allVars, vars, wvars, WatchInv, WatchTypeOK
<1>. QED  BY <1>2, <1>4, <1>5, <1>6 DEF WNext, Watch

\* With the watchdog in it the handler does nothing it might not do without, so that
\* what is shown above holds of both together.
THEOREM WatchdogRestricts == WSpec => Spec
<1>1. [WNext]_allVars => [Next]_vars
  <2>1. Handler => Next
    BY DEF Handler, Next
  <2>2. Layers => Next \/ UNCHANGED vars
    BY DEF Layers, Data, Next, Conns
  <2>3. Watch \/ TimePasses => Next \/ UNCHANGED vars
    BY DEF Watch, Loops, TimesOut, TimePasses, Next
  <2>. QED  BY <2>1, <2>2, <2>3 DEF WNext, allVars
<1>2. WInit => Init
  BY DEF WInit
<1>. QED  BY <1>1, <1>2, PTL DEF WSpec, Spec

\* A client is timed out after a timeout without an event and without a hook, or in a
\* hook that found watch() asleep.
THEOREM TimedOutRightlyHolds == WSpec => TimedOutRightly
<1>1. WInit => WatchInv
  BY DEF WInit, WatchInv, WatchTypeOK
<1>2. TypeOK /\ WatchInv /\ [WNext]_allVars
        => [TimesOut => IF Blockers = {} THEN lapsed ELSE caught]_allVars
  BY DEF TimesOut, WatchInv
<1>3. WSpec => []TypeOK
  BY WatchdogRestricts, TypeCorrect, PTL
<1>. QED  BY <1>1, <1>2, <1>3, WatchInvNext, PTL DEF WSpec, TimedOutRightly

------------------------------------------------------------------------------
(* ProxyServers. *)

\* The modes that are or were asked for could be served together.
ModesAgree ==
    /\ Spawnable(option.mode) /\ Spawnable(instances)
    /\ \A i \in DOMAIN waiting : Spawnable(waiting[i])

\* An update starts some of its instances, and stops what is none any more.
UpdateApart ==
    /\ update.start \subseteq instances /\ update.stop \cap instances = {}
    /\ ~update.locked => update.start = {} /\ update.stop = {}

\* A server is open for instances that have been started, and halfway for one that is
\* being started.
OpenWhereStarted ==
    \A s \in Specs :
        /\ servers[s] \subseteq Listens[s] /\ opening[s] \subseteq Listens[s]
        /\ servers[s] # {} => s \in (instances \ update.start) \cup update.stop
        /\ opening[s] # {} => s \in update.start

\* SocketsOwned says nothing of what was bound for an instance that is gone; this does.
NoneLost == Stray \subseteq lost

\* The redirector runs for an instance, and not before that has been started.
RedirectorOwned ==
    /\ redirector \in (Local \cap (instances \cup update.stop)) \cup {None}
    /\ redirector \in update.start => ~launched

\* ServersUp, also while an update is under way.
UpUnlessStarting ==
    \A s \in instances \ (Local \cup update.start \cup failed) : servers[s] = Listens[s]

ServersInv == /\ ServersTypeOK /\ ModesAgree /\ UpdateApart /\ OpenWhereStarted /\ NoneLost
        /\ RedirectorOwned /\ UpUnlessStarting

------------------------------------------------------------------------------

LEMMA SocketsOfSpec == \A s \in Specs : Listens[s] \subseteq Sockets
BY DEF Sockets

LEMMA SpawnableSubset ==
    ASSUME NEW M, NEW L, M \subseteq L, Spawnable(L)
    PROVE  Spawnable(M)
BY DEF Spawnable

LEMMA InitServersInv == ServersInit => ServersInv
<1> SUFFICES ASSUME ServersInit PROVE ServersInv
  OBVIOUS
<1> USE DEF ServersInit, Idle
<1>1. ServersTypeOK
  <2>1. <<option.mode>> \in Seq(SUBSET Specs)
    BY DEF Options
  <2>2. servers \in [Specs -> SUBSET Sockets] /\ opening \in [Specs -> SUBSET Sockets]
    OBVIOUS
  <2>3. changes \in 0 .. MaxChanges
    BY ChangesAssumption
  <2>4. option \in Options
    OBVIOUS
  <2>. QED  BY <2>1, <2>2, <2>3, <2>4 DEF ServersTypeOK
<1>2. ModesAgree
  <2>1. Spawnable({})
    BY DEF Spawnable
  <2>. QED  BY <2>1 DEF ModesAgree
<1>3. UpdateApart /\ OpenWhereStarted /\ RedirectorOwned /\ UpUnlessStarting
  BY DEF UpdateApart, OpenWhereStarted, RedirectorOwned, UpUnlessStarting
<1>4. NoneLost
  BY DEF NoneLost, Stray, Owned
<1>. QED  BY <1>1, <1>2, <1>3, <1>4 DEF ServersInv

------------------------------------------------------------------------------
(* Changes and updates *)

LEMMA ConfigureIInv ==
    ASSUME ServersInv, NEW o \in Options, Configure(o)
    PROVE  ServersInv'
<1> DEFINE new == IF Spawnable(o.mode) THEN o ELSE option
<1>1. new \in Options /\ new.mode \in SUBSET Specs /\ Spawnable(new.mode)
  BY DEF ServersInv, ModesAgree, ServersTypeOK, Options
<1>2. option' = new /\ waiting' \in {waiting, Append(waiting, new.mode)}
  BY DEF Configure, Change
<1> HIDE DEF new
<1>3. waiting \in Seq(SUBSET Specs)
  BY DEF ServersInv, ServersTypeOK
<1>4. ServersTypeOK'
  <2>1. waiting' \in Seq(SUBSET Specs)
    BY <1>1, <1>2, <1>3
  <2>2. changes' \in 0 .. MaxChanges /\ missed' \in BOOLEAN
    BY ChangesAssumption DEF ServersInv, ServersTypeOK, Configure
  <2>. QED  BY <1>1, <1>2, <2>1, <2>2 DEF ServersInv, ServersTypeOK, Configure, serverVars
<1>5. ModesAgree'
  <2>1. \A i \in DOMAIN waiting' : Spawnable(waiting'[i])
    BY <1>1, <1>2, <1>3 DEF ServersInv, ModesAgree
  <2>. QED  BY <1>1, <1>2, <2>1 DEF ServersInv, ModesAgree, Configure
<1>6. UNCHANGED <<update, instances, failed, serverVars>>
  BY DEF Configure
<1>7. UpdateApart' /\ OpenWhereStarted' /\ RedirectorOwned' /\ UpUnlessStarting'
  BY <1>6 DEF ServersInv, serverVars, UpdateApart, OpenWhereStarted, RedirectorOwned,
              UpUnlessStarting
<1>8. NoneLost'
  BY <1>6 DEF ServersInv, serverVars, NoneLost, Stray, Owned
<1>. QED  BY <1>4, <1>5, <1>7, <1>8 DEF ServersInv

LEMMA RunningIInv ==
    ASSUME ServersInv, Running
    PROVE  ServersInv'
<1>1. UNCHANGED <<option, waiting, update, instances, failed, serverVars, missed, changes>>
      /\ master' \in {"running", "exited"}
  BY DEF Running
<1>2. ServersTypeOK'
  BY <1>1 DEF ServersInv, ServersTypeOK, serverVars
<1>3. ModesAgree' /\ UpdateApart' /\ OpenWhereStarted' /\ RedirectorOwned'
      /\ UpUnlessStarting'
  BY <1>1 DEF ServersInv, serverVars, ModesAgree, UpdateApart, OpenWhereStarted,
              RedirectorOwned, UpUnlessStarting
<1>4. NoneLost'
  BY <1>1 DEF ServersInv, serverVars, NoneLost, Stray, Owned
<1>. QED  BY <1>2, <1>3, <1>4 DEF ServersInv

LEMMA UpdateEndsIInv ==
    ASSUME ServersInv, UpdateEnds
    PROVE  ServersInv'
<1>1. /\ update'.start = update.start /\ update'.stop = update.stop
      /\ update.start = {} /\ update.stop = {}
      /\ update' \in [locked : BOOLEAN, stop : SUBSET Specs, start : SUBSET Specs,
                      ok : BOOLEAN]
      /\ UNCHANGED <<option, master, waiting, instances, failed, serverVars, missed, changes>>
  BY DEF UpdateEnds, ServersInv, ServersTypeOK
<1>2. ServersTypeOK'
  BY <1>1 DEF ServersInv, ServersTypeOK, serverVars
<1>3. ModesAgree' /\ UpdateApart' /\ OpenWhereStarted' /\ RedirectorOwned'
      /\ UpUnlessStarting'
  BY <1>1 DEF ServersInv, serverVars, ModesAgree, UpdateApart, OpenWhereStarted,
              RedirectorOwned, UpUnlessStarting
<1>4. NoneLost'
  BY <1>1 DEF ServersInv, serverVars, NoneLost, Stray, Owned
<1>. QED  BY <1>2, <1>3, <1>4 DEF ServersInv

LEMMA UpdateBeginsIInv ==
    ASSUME ServersInv, UpdateBegins
    PROVE  ServersInv'
<1> DEFINE wanted == Wanted(Head(waiting))
<1>0. /\ ~update.locked /\ waiting # <<>> /\ waiting' = Tail(waiting)
      /\ update.start = {} /\ update.stop = {}
      /\ UNCHANGED <<option, master, serverVars, missed, changes>>
      /\ waiting \in Seq(SUBSET Specs)
  BY DEF UpdateBegins, ServersInv, UpdateApart, ServersTypeOK
<1>1. /\ waiting' \in Seq(SUBSET Specs)
      /\ \A i \in DOMAIN waiting' : i + 1 \in DOMAIN waiting /\ waiting'[i] = waiting[i + 1]
      /\ Head(waiting) = waiting[1] /\ 1 \in DOMAIN waiting /\ Head(waiting) \in SUBSET Specs
  BY <1>0
<1>2. wanted \subseteq Specs /\ Spawnable(wanted)
  <2>1. Spawnable(Head(waiting))
    BY <1>1 DEF ServersInv, ModesAgree
  <2>2. wanted \subseteq Head(waiting)
    BY DEF Wanted
  <2>. QED  BY <1>1, <2>1, <2>2, SpawnableSubset
\* Both branches say the same, but for failed.
<1>3. /\ instances' = wanted
      /\ update'.stop = instances \ wanted /\ update'.start = wanted \ instances
      /\ update' \in [locked : BOOLEAN, stop : SUBSET Specs, start : SUBSET Specs,
                      ok : BOOLEAN]
      /\ ~update'.locked => wanted = instances
      /\ failed' \subseteq failed /\ failed \subseteq failed' \cup update'.start
  <2>1. CASE wanted = instances
    <3>1. update' = Idle /\ instances' = instances /\ failed' = failed
      BY <2>1 DEF UpdateBegins
    <3>. QED  BY <2>1, <3>1 DEF Idle
  <2>2. CASE wanted # instances
    <3>1. Replace(Head(waiting)) /\ failed' = failed \ update'.start
      BY <2>2 DEF UpdateBegins
    <3>2. instances \in SUBSET Specs
      BY DEF ServersInv, ServersTypeOK
    <3>. QED  BY <3>1, <3>2, <1>2 DEF Replace
  <2>. QED  BY <2>1, <2>2
<1> HIDE DEF wanted
<1>4. ServersTypeOK'
  BY <1>0, <1>1, <1>2, <1>3 DEF ServersInv, ServersTypeOK, serverVars
<1>5. ModesAgree'
  BY <1>0, <1>1, <1>2, <1>3 DEF ServersInv, ModesAgree
<1>6. UpdateApart'
  BY <1>3 DEF UpdateApart
<1>7. OpenWhereStarted'
  BY <1>0, <1>3 DEF ServersInv, OpenWhereStarted, serverVars
<1>8. NoneLost'
  <2>1. Owned \subseteq Owned'
    BY <1>0, <1>3 DEF Owned, serverVars
  <2>. QED  BY <2>1, <1>0 DEF ServersInv, NoneLost, Stray, serverVars
<1>9. RedirectorOwned'
  <2>1. redirector' = redirector
    BY <1>0 DEF serverVars
  <2>. QED  BY <2>1, <1>0, <1>3, SpecAssumption DEF ServersInv, RedirectorOwned
<1>10. UpUnlessStarting'
  BY <1>0, <1>3 DEF ServersInv, UpUnlessStarting, serverVars
<1>. QED  BY <1>4, <1>5, <1>6, <1>7, <1>8, <1>9, <1>10 DEF ServersInv

------------------------------------------------------------------------------
(* The instances *)

\* What is the same in every start and stop.
Progress(s) ==
    /\ update' \in [locked : BOOLEAN, stop : SUBSET Specs, start : SUBSET Specs, ok : BOOLEAN]
    /\ update'.locked = update.locked
    /\ update'.stop \in {update.stop, update.stop \ {s}}
    /\ update'.start \in {update.start, update.start \ {s}}
    /\ failed' \in {failed, failed \ {s}, failed \cup {s}}

LEMMA StoppedProgress ==
    ASSUME ServersTypeOK, NEW s \in Specs, NEW ok \in BOOLEAN, StopEnds(s, ok)
    PROVE  /\ Progress(s)
           /\ update'.stop = update.stop \ {s} /\ update'.start = update.start
BY DEF ServersTypeOK, StopEnds, Progress

LEMMA StartedProgress ==
    ASSUME ServersTypeOK, NEW s \in Specs, NEW ok \in BOOLEAN, StartEnds(s, ok)
    PROVE  /\ Progress(s)
           /\ update'.start = update.start \ {s} /\ update'.stop = update.stop
           /\ ok => failed' = failed \ {s}
           /\ ~ok => failed' = failed \cup {s}
BY DEF ServersTypeOK, StartEnds, Progress

LEMMA ProgressParts ==
    ASSUME ServersInv, NEW s \in Specs, Progress(s),
           s \in update.start \/ s \in update.stop,
           UNCHANGED <<option, master, waiting, instances, missed, changes>>
    PROVE  /\ ModesAgree' /\ UpdateApart'
           /\ update'.stop \subseteq Specs /\ failed' \subseteq Specs
<1>1. ModesAgree'
  BY DEF ServersInv, ModesAgree
<1>2. UpdateApart'
  <2>1. update.locked
    BY DEF ServersInv, UpdateApart
  <2>. QED  BY <2>1 DEF ServersInv, UpdateApart, Progress
<1>. QED  BY <1>1, <1>2 DEF Progress, ServersInv, ServersTypeOK

LEMMA OpenIInv ==
    ASSUME ServersInv, NEW s \in Specs, Listen(s),
           NEW k \in ToOpen(s), Open(s, k)
    PROVE  ServersInv'
<1> DEFINE opened == opening[s] \cup {k}
<1>0. /\ update.stop = {} /\ s \in update.start /\ s \notin Local
      /\ s \in instances /\ servers[s] = {}
      /\ UNCHANGED <<option, master, waiting, instances, redirector, launched, missed,
                     changes, lost>>
      /\ ServersTypeOK
  BY DEF Listen, Starting, Open, ServersInv, OpenWhereStarted, UpdateApart
<1>1. k \in Listens[s] /\ k \notin opening[s] /\ k \in Sockets
  BY SocketsOfSpec DEF ToOpen
<1>2. opened \subseteq Listens[s] /\ opened \subseteq Sockets /\ opened # {}
  BY <1>0, <1>1 DEF ServersInv, OpenWhereStarted, ServersTypeOK
<1>3. bound' = bound \cup {k}
  BY DEF Open
\* The instance is up, or one more of its servers is.
<1>4. \/ /\ servers' = [servers EXCEPT ![s] = opened] /\ opened = Listens[s]
         /\ opening' = [opening EXCEPT ![s] = {}]
         /\ update'.start = update.start \ {s} /\ update'.stop = update.stop
         /\ failed' = failed \ {s} /\ Progress(s)
      \/ /\ servers' = servers /\ opening' = [opening EXCEPT ![s] = opened]
         /\ update' = update /\ failed' = failed
  <2>1. CASE opened = Listens[s]
    BY <2>1, <1>0, StartedProgress DEF Open
  <2>2. CASE opened # Listens[s]
    BY <2>2 DEF Open
  <2>. QED  BY <2>1, <2>2
<1> HIDE DEF opened
<1>5. Progress(s)
  BY <1>0, <1>4 DEF Progress, ServersTypeOK
<1>6. ModesAgree' /\ UpdateApart' /\ failed' \subseteq Specs
  BY <1>0, <1>5, ProgressParts
<1>7. ServersTypeOK'
  BY <1>0, <1>1, <1>2, <1>3, <1>4, <1>5, <1>6 DEF ServersTypeOK, Progress
<1>8. OpenWhereStarted'
  BY <1>0, <1>2, <1>4 DEF ServersInv, OpenWhereStarted, ServersTypeOK
<1>9. NoneLost'
  <2>1. Owned \cup {k} \subseteq Owned'
    BY <1>0, <1>2, <1>4 DEF Owned, ServersTypeOK, opened
  <2>. QED  BY <2>1, <1>0, <1>3 DEF ServersInv, NoneLost, Stray
<1>10. RedirectorOwned'
  BY <1>0, <1>4 DEF ServersInv, RedirectorOwned
<1>11. UpUnlessStarting'
  BY <1>0, <1>4 DEF ServersInv, UpUnlessStarting, ServersTypeOK
<1>. QED  BY <1>6, <1>7, <1>8, <1>9, <1>10, <1>11 DEF ServersInv

LEMMA CannotOpenIInv ==
    ASSUME ServersInv, NEW s \in Specs, Listen(s), CannotOpen(s)
    PROVE  ServersInv'
<1>0. /\ update.stop = {} /\ s \in update.start /\ s \notin Local
      /\ s \in instances /\ servers[s] = {}
      /\ UNCHANGED <<option, master, waiting, instances, redirector, launched, missed,
                     changes, servers, bound>>
      /\ lost' = lost \cup opening[s] /\ opening' = [opening EXCEPT ![s] = {}]
      /\ ServersTypeOK
  BY DEF Listen, Starting, CannotOpen, ServersInv, OpenWhereStarted, UpdateApart
<1>1. /\ Progress(s) /\ update'.start = update.start \ {s} /\ update'.stop = update.stop
      /\ failed' = failed \cup {s}
  BY <1>0, StartedProgress DEF CannotOpen
<1>2. ModesAgree' /\ UpdateApart' /\ failed' \subseteq Specs
  BY <1>0, <1>1, ProgressParts
<1>3. ServersTypeOK'
  BY <1>0, <1>1, <1>2 DEF ServersTypeOK, Progress
<1>4. OpenWhereStarted'
  BY <1>0, <1>1 DEF ServersInv, OpenWhereStarted, ServersTypeOK
<1>5. NoneLost'
  <2>1. Owned \subseteq Owned' \cup opening[s]
    BY <1>0, <1>1 DEF Owned, ServersTypeOK
  <2>. QED  BY <2>1, <1>0 DEF ServersInv, NoneLost, Stray
<1>6. RedirectorOwned'
  BY <1>0, <1>1 DEF ServersInv, RedirectorOwned
<1>7. UpUnlessStarting'
  BY <1>0, <1>1 DEF ServersInv, UpUnlessStarting
<1>. QED  BY <1>2, <1>3, <1>4, <1>5, <1>6, <1>7 DEF ServersInv

LEMMA StopListeningIInv ==
    ASSUME ServersInv, NEW s \in Specs, StopListening(s)
    PROVE  ServersInv'
<1>0. /\ s \in update.stop /\ s \notin Local /\ s \notin instances /\ opening[s] = {}
      /\ servers' = [servers EXCEPT ![s] = {}]
      /\ UNCHANGED <<option, master, waiting, instances, opening, redirector, launched,
                     missed, changes>>
      /\ ServersTypeOK
  BY DEF StopListening, ServersInv, UpdateApart, OpenWhereStarted
<1>1. PICK raised \in BOOLEAN :
         \E left \in IF raised THEN Remaining(s) ELSE {{}} :
            /\ StopEnds(s, servers[s] # {} /\ ~raised)
            /\ bound' = bound \ (servers[s] \ left)
            /\ lost' = lost \cup left
  BY DEF StopListening
<1>2. PICK left \in SUBSET servers[s] :
         /\ bound' = bound \ (servers[s] \ left)
         /\ lost' = lost \cup left
  BY <1>1 DEF Remaining
<1>10. servers[s] \subseteq Sockets
  BY <1>0 DEF ServersTypeOK
<1>3. Progress(s) /\ update'.stop = update.stop \ {s} /\ update'.start = update.start
  <2>1. (servers[s] # {} /\ ~raised) \in BOOLEAN
    OBVIOUS
  <2>. QED  BY <1>0, <1>1, <2>1, StoppedProgress
<1>4. ModesAgree' /\ UpdateApart' /\ failed' \subseteq Specs
  BY <1>0, <1>3, ProgressParts
<1>5. ServersTypeOK'
  BY <1>0, <1>2, <1>3, <1>4, <1>10 DEF ServersTypeOK, Progress
<1>6. OpenWhereStarted'
  BY <1>0, <1>3 DEF ServersInv, OpenWhereStarted, ServersTypeOK
<1>7. NoneLost'
  <2>1. Owned \subseteq Owned' \cup servers[s]
    BY <1>0, <1>3 DEF Owned, ServersTypeOK
  <2>. QED  BY <2>1, <1>2 DEF ServersInv, NoneLost, Stray
<1>8. RedirectorOwned'
  BY <1>0, <1>3, SpecAssumption DEF ServersInv, RedirectorOwned
<1>9. UpUnlessStarting'
  BY <1>0, <1>3 DEF ServersInv, UpUnlessStarting, ServersTypeOK, Progress
<1>. QED  BY <1>4, <1>5, <1>6, <1>7, <1>8, <1>9 DEF ServersInv

\* No socket is touched by what the redirector does.
LEMMA RedirectorParts ==
    ASSUME ServersInv, NEW s \in Specs, s \in Local, Progress(s),
           s \in update.start \/ s \in update.stop,
           UNCHANGED <<option, master, waiting, instances, missed, changes>>,
           UNCHANGED <<servers, opening, bound, lost>>,
           redirector' \in Specs \cup {None}, launched' \in BOOLEAN
    PROVE  /\ ServersTypeOK' /\ ModesAgree' /\ UpdateApart' /\ OpenWhereStarted' /\ NoneLost'
           /\ UpUnlessStarting'
<1>1. ModesAgree' /\ UpdateApart' /\ failed' \subseteq Specs
  BY ProgressParts
<1>2. ServersTypeOK'
  BY <1>1 DEF ServersInv, ServersTypeOK, Progress
<1>3. servers[s] = {} /\ opening[s] = {}
  BY SpecAssumption DEF ServersInv, OpenWhereStarted
<1>4. OpenWhereStarted'
  BY <1>3 DEF ServersInv, OpenWhereStarted, Progress
<1>5. NoneLost'
  <2>1. Owned \subseteq Owned'
    BY <1>3 DEF Owned, Progress
  <2>. QED  BY <2>1 DEF ServersInv, NoneLost, Stray
<1>6. UpUnlessStarting'
  BY DEF ServersInv, UpUnlessStarting, Progress
<1>. QED  BY <1>1, <1>2, <1>4, <1>5, <1>6

LEMMA StartRedirectingIInv ==
    ASSUME ServersInv, NEW s \in Specs, StartRedirecting(s)
    PROVE  ServersInv'
<1>0. /\ s \in update.start /\ s \in Local /\ s \in instances /\ update.stop = {}
      /\ redirector # s /\ s # None /\ ServersTypeOK
      /\ UNCHANGED <<option, master, waiting, instances, missed, changes>>
      /\ UNCHANGED <<servers, opening, bound, lost, launched>>
  BY SpecAssumption DEF StartRedirecting, Starting, ServersInv, UpdateApart
<1>1. /\ Progress(s) /\ update'.stop = update.stop
      /\ redirector' \in {redirector, s}
      /\ redirector' = s => update'.start = IF launched THEN update.start \ {s} ELSE update.start
  <2>1. CASE redirector # None
    BY <2>1, <1>0, StartedProgress DEF StartRedirecting
  <2>2. CASE redirector = None /\ launched
    BY <2>2, <1>0, StartedProgress DEF StartRedirecting
  <2>3. CASE redirector = None /\ ~launched
    BY <2>3, <1>0 DEF StartRedirecting, Progress, ServersTypeOK
  <2>. QED  BY <2>1, <2>2, <2>3
<1>2. redirector' \in Specs \cup {None} /\ launched' \in BOOLEAN
  BY <1>0, <1>1 DEF ServersTypeOK
<1>3. /\ ServersTypeOK' /\ ModesAgree' /\ UpdateApart' /\ OpenWhereStarted' /\ NoneLost'
      /\ UpUnlessStarting'
  BY <1>0, <1>1, <1>2, RedirectorParts
<1>4. RedirectorOwned'
  BY <1>0, <1>1 DEF ServersInv, RedirectorOwned, Progress, ServersTypeOK
<1>. QED  BY <1>3, <1>4 DEF ServersInv

LEMMA LaunchedIInv ==
    ASSUME ServersInv, NEW s \in Specs, Launched(s)
    PROVE  ServersInv'
<1>0. /\ s \in update.start /\ s \in instances /\ update.stop = {}
      /\ redirector = s /\ s # None /\ s \in Local /\ ServersTypeOK
      /\ UNCHANGED <<option, master, waiting, instances, missed, changes>>
      /\ UNCHANGED <<servers, opening, bound, lost>>
  BY SpecAssumption DEF Launched, Starting, ServersInv, UpdateApart, RedirectorOwned
<1>1. /\ Progress(s) /\ update'.stop = update.stop /\ update'.start = update.start \ {s}
      /\ redirector' \in {s, None} /\ launched' \in BOOLEAN
  BY <1>0, StartedProgress DEF Launched
<1>3. /\ ServersTypeOK' /\ ModesAgree' /\ UpdateApart' /\ OpenWhereStarted' /\ NoneLost'
      /\ UpUnlessStarting'
  BY <1>0, <1>1, RedirectorParts
<1>4. RedirectorOwned'
  BY <1>0, <1>1, SpecAssumption DEF ServersInv, RedirectorOwned, ServersTypeOK
<1>. QED  BY <1>3, <1>4 DEF ServersInv

LEMMA StopRedirectingIInv ==
    ASSUME ServersInv, NEW s \in Specs, StopRedirecting(s)
    PROVE  ServersInv'
<1>0. /\ s \in update.stop /\ s \in Local /\ ServersTypeOK /\ redirector' = None
      /\ UNCHANGED <<option, master, waiting, instances, missed, changes>>
      /\ UNCHANGED <<servers, opening, bound, lost, launched>>
  BY DEF StopRedirecting, ServersInv
<1>1. Progress(s) /\ update'.start = update.start
  <2>1. StopEnds(s, redirector # None) /\ (redirector # None) \in BOOLEAN
    BY DEF StopRedirecting
  <2>. QED  BY <1>0, <2>1, StoppedProgress
<1>2. redirector' \in Specs \cup {None} /\ launched' \in BOOLEAN
  BY <1>0 DEF ServersTypeOK
<1>3. /\ ServersTypeOK' /\ ModesAgree' /\ UpdateApart' /\ OpenWhereStarted' /\ NoneLost'
      /\ UpUnlessStarting'
  BY <1>0, <1>1, <1>2, RedirectorParts
<1>4. RedirectorOwned'
  BY <1>0, <1>1, SpecAssumption DEF ServersInv, RedirectorOwned, ServersTypeOK
<1>. QED  BY <1>3, <1>4 DEF ServersInv

------------------------------------------------------------------------------
(* The theorems *)

LEMMA NextServersInv == ServersInv /\ [ServersNext]_proxyVars => ServersInv'
<1> SUFFICES ASSUME ServersInv, [ServersNext]_proxyVars PROVE ServersInv'
  OBVIOUS
<1>1. CASE UpdateBegins
  BY <1>1, UpdateBeginsIInv
<1>2. CASE UpdateEnds
  BY <1>2, UpdateEndsIInv
<1>3. ASSUME NEW s \in Specs, Listen(s) PROVE ServersInv'
  <2>1. PICK k \in ToOpen(s) : Open(s, k) \/ CannotOpen(s)
    BY <1>3 DEF Listen
  <2>. QED  BY <1>3, <2>1, OpenIInv, CannotOpenIInv
<1>4. ASSUME NEW s \in Specs, StopListening(s) PROVE ServersInv'
  BY <1>4, StopListeningIInv
<1>5. ASSUME NEW s \in Specs, StartRedirecting(s) PROVE ServersInv'
  BY <1>5, StartRedirectingIInv
<1>6. ASSUME NEW s \in Specs, Launched(s) PROVE ServersInv'
  BY <1>6, LaunchedIInv
<1>7. ASSUME NEW s \in Specs, StopRedirecting(s) PROVE ServersInv'
  BY <1>7, StopRedirectingIInv
<1>8. CASE Running
  BY <1>8, RunningIInv
<1>9. ASSUME NEW o \in Options, Configure(o) PROVE ServersInv'
  BY <1>9, ConfigureIInv
<1>10. CASE UNCHANGED proxyVars
  <2> USE <1>10 DEF proxyVars
  <2>1. ServersTypeOK' /\ ModesAgree' /\ UpdateApart' /\ OpenWhereStarted'
    BY DEF ServersInv, ServersTypeOK, ModesAgree, UpdateApart, OpenWhereStarted
  <2>2. RedirectorOwned' /\ UpUnlessStarting' /\ NoneLost'
    BY DEF ServersInv, RedirectorOwned, UpUnlessStarting, NoneLost, Stray, Owned
  <2>. QED  BY <2>1, <2>2 DEF ServersInv
<1>. QED  BY <1>1, <1>2, <1>3, <1>4, <1>5, <1>6, <1>7, <1>8, <1>9, <1>10
          DEF ServersNext, Updates

\* The inductive invariant holds in every state.
THEOREM ServersInvariance == ServersSpec => []ServersInv
BY InitServersInv, NextServersInv, PTL DEF ServersSpec

\* The types of Servers, its instances and the option hold in every state.
THEOREM ServersTypeCorrect == ServersSpec => []ServersTypeOK
<1>1. ServersInv => ServersTypeOK
  BY DEF ServersInv
<1>. QED  BY <1>1, ServersInvariance, PTL

\* Servers.update and the instances' start and stop: whatever changes and failures there
\* are, a socket belongs to an instance that can close it or was left by a failed start
\* or stop, and no instance is in the way of another that is being started.
THEOREM SocketsOwnedHolds == ServersSpec => []SocketsOwned
<1>1. ServersInv => SocketsOwned
  <2> SUFFICES ASSUME ServersInv PROVE SocketsOwned
    OBVIOUS
  <2>1. ASSUME NEW s \in Specs, Starting(s), s \notin Local
        PROVE  ToOpen(s) \cap Owned = {}
    <3>1. update.stop = {} /\ s \in instances /\ servers[s] = {}
      BY <2>1 DEF ServersInv, Starting, UpdateApart, OpenWhereStarted
    <3>2. ASSUME NEW k \in ToOpen(s), NEW t \in instances, k \in servers[t] \cup opening[t]
          PROVE  FALSE
      <4>1. k \in Listens[s] /\ k \notin opening[s]
        BY DEF ToOpen
      <4>2. k \in Listens[t]
        BY <3>2 DEF ServersInv, OpenWhereStarted, ServersTypeOK
      <4>3. t = s
        BY <3>1, <4>1, <4>2 DEF ServersInv, ModesAgree, Spawnable
      <4>. QED  BY <3>1, <3>2, <4>1, <4>3
    <3>. QED  BY <3>1, <3>2 DEF Owned
  <2>. QED  BY <2>1 DEF ServersInv, NoneLost, SocketsOwned, Stray
<1>. QED  BY <1>1, ServersInvariance, PTL

\* Between updates every instance listens on all its sockets or its start has failed, and
\* the redirector belongs to an instance (the safety part of ChangesApplied).
THEOREM ServersUpHolds == ServersSpec => []ServersUp
<1>1. ServersInv => ServersUp
  BY DEF ServersInv, ServersUp, UpdateApart, UpUnlessStarting, RedirectorOwned
<1>. QED  BY <1>1, ServersInvariance, PTL

\* What stays in the options is not interrupted: no step of an update, and no failure,
\* ends the service of an instance that is kept, but for the redirector.
THEOREM KeptRunningHolds == ServersSpec => KeptRunning
<1> DEFINE Kept(s) ==
      IsRunning(s) => IsRunning(s)' \/ (s \in Local /\ update.stop \cap Local # {})
<1>1. ASSUME ServersInv, [ServersNext]_proxyVars, NEW s \in instances \cap instances' PROVE Kept(s)
  <2>0. s \in Specs /\ s # None /\ ServersTypeOK
    BY <1>1, SpecAssumption DEF ServersInv, ServersTypeOK
  <2>1. CASE s \notin Local
    <3>1. servers[s] # {} => servers'[s] # {}
      <4>1. ASSUME NEW t \in Specs, Listen(t), servers[s] # {} PROVE servers'[s] # {}
        BY <2>0, <4>1 DEF Listen, Open, CannotOpen, ServersTypeOK
      <4>2. ASSUME NEW t \in Specs, StopListening(t) PROVE servers'[s] = servers[s]
        BY <1>1, <2>0, <4>2 DEF StopListening, ServersInv, UpdateApart, ServersTypeOK
      <4>. QED  BY <1>1, <4>1, <4>2 DEF ServersNext, Updates, UpdateBegins, UpdateEnds, Running,
                   Configure, StartRedirecting, Launched, StopRedirecting, serverVars, proxyVars
    <3>. QED  BY <2>1, <3>1 DEF IsRunning
  <2>2. CASE s \in Local /\ redirector = s /\ launched /\ update.stop \cap Local = {}
    <3>1. redirector' = s /\ launched'
      <4>1. ASSUME NEW t \in Specs, StartRedirecting(t) PROVE redirector' = s /\ launched'
        BY <2>0, <2>2, <4>1 DEF StartRedirecting
      <4>2. ASSUME NEW t \in Specs, Launched(t) PROVE FALSE
        BY <1>1, <2>2, <4>2 DEF Launched, Starting, ServersInv, RedirectorOwned
      <4>3. ASSUME NEW t \in Specs, StopRedirecting(t) PROVE FALSE
        BY <2>2, <4>3 DEF StopRedirecting
      <4>. QED  BY <1>1, <2>2, <4>1, <4>2, <4>3 DEF ServersNext, Updates, UpdateBegins, UpdateEnds,
                   Running, Configure, Listen, StopListening, Open, CannotOpen, serverVars, proxyVars
    <3>. QED  BY <2>2, <3>1 DEF IsRunning
  <2>. QED  BY <2>1, <2>2 DEF IsRunning
<1>2. ServersInv /\ [ServersNext]_proxyVars => [\A s \in instances \cap instances' : Kept(s)]_proxyVars
  BY <1>1
<1> HIDE DEF Kept
<1>3. ServersSpec => [][\A s \in instances \cap instances' : Kept(s)]_proxyVars
  BY <1>2, ServersInvariance, PTL DEF ServersSpec
<1>. QED  BY <1>3 DEF KeptRunning, Kept
==============================================================================
