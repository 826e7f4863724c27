------------------------------ MODULE NextLayer ------------------------------
(***************************************************************************)
(* proxy/layer.py NextLayer: the placeholder layer that keeps every event   *)
(* until an addon has chosen the real layer, then replays the events to     *)
(* it and steps aside.  Both NextLayer and the chosen layer run the pause   *)
(* protocol of Layer.tla; here the chosen layer is an instance of that      *)
(* module and NextLayer's own use of the protocol is written out: its only  *)
(* blocking command is the next_layer hook.                                 *)
(***************************************************************************)
EXTENDS Sequences, Naturals

CONSTANTS Events, Commands, None,
          Data,          \* the events that are DataReceived
          Closed,        \* the events that are ConnectionClosed for the client
          StartEvent     \* the Start event, always the first (see ClientTls.tla, KindAssumption)

VARIABLES
    asking,        \* NextLayer is paused: the next_layer hook is running
    askingQueue,   \* NextLayer's _paused_event_queue
    events,        \* NextLayer.events
    chosen,        \* the addon has set NextLayer.layer
    replayed,      \* how many of events the replay loop of _ask has passed on
    rebound,       \* handle_event, _handle_event and _handle are the chosen layer's
    pc,            \* where NextLayer's handle_event is
    closing,       \* CloseConnection(client) has been sent
    asksOnStart,   \* _ask_on_start
    fed,           \* history: the events passed to NextLayer.handle_event
    stranded       \* history: what exceptions of the chosen layer have left in a queue

\* The chosen layer.
VARIABLES paused, generator, mode, queue, outstanding, created,
          arrived, begun, raised

childVars == <<paused, generator, mode, queue, outstanding, created,
               arrived, begun, raised>>
ownVars == <<asking, askingQueue, events, chosen, replayed, rebound, pc, closing,
             asksOnStart, fed, stranded>>
vars == <<ownVars, childVars>>

Child == INSTANCE Layer

Elems(s) == {s[i] : i \in DOMAIN s}

TypeOK ==
    /\ asking \in BOOLEAN
    /\ askingQueue \in Seq(Events)
    /\ events \in Seq(Events)
    /\ chosen \in BOOLEAN
    /\ replayed \in 0 .. Len(events)
    /\ rebound \in BOOLEAN
    /\ pc \in {"idle", "replaying", "draining"}
    /\ closing \in BOOLEAN /\ asksOnStart \in BOOLEAN
    /\ fed \in Seq(Events)
    /\ stranded \subseteq Events
    /\ Child!TypeOK

Init ==
    /\ asking = FALSE
    /\ askingQueue = <<>>
    /\ events = <<>>
    /\ chosen = FALSE
    /\ replayed = 0
    /\ rebound = FALSE
    /\ pc = "idle"
    /\ closing = FALSE
    /\ asksOnStart \in BOOLEAN
    /\ fed = <<>>
    /\ stranded = {}
    /\ Child!Init

-----------------------------------------------------------------------------

\* Nothing is executing: the server may call handle_event.
Idle == pc = "idle" /\ mode = "idle"

Asks(e) == e \in Data \/ (asksOnStart /\ e = StartEvent)

\* Mutant: the client's ConnectionClosed is kept like any other event.
KeepOpen(e) ==
    /\ events' = Append(events, e)
    /\ asking' = Asks(e)
    /\ UNCHANGED <<chosen, replayed, rebound, closing, asksOnStart>>

\* _handle_event before the choice: keep the event, and ask or close.
Keep(e) ==
    /\ events' = Append(events, e)
    /\ closing' = (closing \/ e \in Closed)
    /\ asking' = Asks(e)
    /\ UNCHANGED <<chosen, replayed, rebound, asksOnStart>>

\* The chosen layer's handle_event: handle now, or queue if it is paused.
GiveToChild(e) == Child!HandleEvent(e) \/ Child!QueueEvent(e)

\* An event arrives and no choice has been made or asked for.
FeedKeep(e) ==
    /\ Idle /\ ~rebound /\ ~asking
    /\ Keep(e)
    /\ fed' = Append(fed, e)
    /\ UNCHANGED <<askingQueue, pc, stranded, childVars>>

\* Mutant: what arrives while the hook is running is dropped.
FeedPausedDropped(e) ==
    /\ Idle /\ ~rebound /\ asking
    /\ fed' = Append(fed, e)
    /\ UNCHANGED <<asking, askingQueue, events, chosen, replayed, rebound, pc,
                   closing, asksOnStart, stranded, childVars>>

\* An event arrives while the hook is running: NextLayer is paused.
FeedPaused(e) ==
    /\ Idle /\ ~rebound /\ asking
    /\ askingQueue' = Append(askingQueue, e)
    /\ fed' = Append(fed, e)
    /\ UNCHANGED <<asking, events, chosen, replayed, rebound, pc, closing, asksOnStart,
                   stranded, childVars>>

\* An event arrives after the handover: it goes straight to the chosen layer.
FeedChild(e) ==
    /\ Idle /\ rebound
    /\ GiveToChild(e)
    /\ fed' = Append(fed, e)
    /\ UNCHANGED <<asking, askingQueue, events, chosen, replayed, rebound, pc, closing,
                   asksOnStart, stranded>>

\* The hook's reply resumes _ask.  With a layer chosen the replay begins, without one the
\* generator ends and __continue turns to the queue.  A layer that was set earlier, before
\* an exception broke its replay, stays.
HookCompleted ==
    /\ Idle /\ asking
    /\ asking' = FALSE
    /\ \E choice \in BOOLEAN :
         /\ chosen' = (chosen \/ choice)
         /\ pc' = IF chosen' THEN "replaying" ELSE "draining"
    /\ UNCHANGED <<askingQueue, events, replayed, rebound, closing, asksOnStart, fed,
                   stranded, childVars>>

\* One turn of the replay loop, once the chosen layer has returned from the
\* previous one.
ReplayKept ==
    /\ pc = "replaying" /\ mode = "idle"
    /\ replayed < Len(events)
    /\ GiveToChild(events[replayed + 1])
    /\ replayed' = replayed + 1
    /\ UNCHANGED <<asking, askingQueue, events, chosen, rebound, pc, closing, asksOnStart,
                   fed, stranded>>

\* Mutant: NextLayer stays in place after the replay.
HandOverNotRebound ==
    /\ pc = "replaying" /\ mode = "idle"
    /\ replayed = Len(events)
    /\ events' = <<>>
    /\ replayed' = 0
    /\ pc' = "draining"
    /\ UNCHANGED <<asking, askingQueue, chosen, rebound, closing, asksOnStart, fed,
                   stranded, childVars>>

\* The loop is over: forget the events and step aside.
HandOver ==
    /\ pc = "replaying" /\ mode = "idle"
    /\ replayed = Len(events)
    /\ events' = <<>>
    /\ replayed' = 0
    /\ rebound' = TRUE
    /\ pc' = "draining"
    /\ UNCHANGED <<asking, askingQueue, chosen, closing, asksOnStart, fed, stranded,
                   childVars>>

\* __continue passes the oldest event queued during the hook to _handle_event,
\* which by now is the chosen layer's handle_event or still NextLayer's own.
DrainQueued ==
    /\ pc = "draining" /\ mode = "idle"
    /\ askingQueue # <<>>
    /\ askingQueue' = Tail(askingQueue)
    /\ \/ /\ rebound
          /\ GiveToChild(Head(askingQueue))
          /\ UNCHANGED <<asking, events, chosen, replayed, rebound, closing, asksOnStart, pc>>
       \/ /\ ~rebound
          /\ Keep(Head(askingQueue))
          /\ pc' = IF Asks(Head(askingQueue)) THEN "idle" ELSE "draining"
          /\ UNCHANGED childVars
    /\ UNCHANGED <<fed, stranded>>

\* Mutant: __continue returns with events still queued.
DrainedEarly ==
    /\ pc = "draining" /\ mode = "idle"
    /\ pc' = "idle"
    /\ UNCHANGED <<asking, askingQueue, events, chosen, replayed, rebound,
                   closing, asksOnStart, fed, stranded,
                   childVars>>

Drained ==
    /\ pc = "draining" /\ mode = "idle"
    /\ askingQueue = <<>>
    /\ pc' = "idle"
    /\ UNCHANGED <<asking, askingQueue, events, chosen, replayed, rebound,
                   closing, asksOnStart, fed, stranded,
                   childVars>>

\* The chosen layer's running generator.  A blocking command of its own
\* carries the chosen layer in command.blocking, so NextLayer passes it on
\* without pausing itself.
ChildRuns == (Child!Finish \/ \E c \in Commands : Child!YieldBlocking(c))
             /\ UNCHANGED ownVars

\* What an exception leaves behind here: events of the replay it breaks off, and the rest of
\* the queue.
LeftBehind ==
    (IF pc = "replaying" THEN Elems(events) ELSE {})
        \cup (IF pc = "idle" THEN {} ELSE Elems(askingQueue))

\* Mutant: a replay that is broken off forgets its events, too.
ChildRaisesForgetful(above) ==
    /\ Child!Raise
    /\ pc' = "idle" /\ replayed' = 0 /\ events' = <<>>
    /\ stranded' = stranded \cup LeftBehind \cup above
    /\ UNCHANGED <<asking, askingQueue, chosen, rebound, closing, asksOnStart, fed>>

\* The chosen layer's generator raises, and the exception leaves NextLayer, too.  A replay
\* that is broken off has not forgotten its events nor stepped aside: the next time
\* NextLayer asks, all of them are replayed again.  The rest of the queue stays until
\* then, after the handover for ever.  above is what is left behind in the layers that the
\* exception goes on to.
ChildRaises(above) ==
    /\ Child!Raise
    /\ pc' = "idle" /\ replayed' = 0
    /\ stranded' = stranded \cup LeftBehind \cup above
    /\ UNCHANGED <<asking, askingQueue, events, chosen, rebound, closing, asksOnStart, fed>>

\* The reply to a command of the chosen layer, passed through NextLayer.
ChildCompleted ==
    /\ Idle /\ rebound
    /\ \E c \in Commands : Child!Continue(c)
    /\ UNCHANGED ownVars

\* Each event is a new object, and a layer is sent Start before anything else.
Feed(e) ==
    /\ e \notin Elems(fed)
    /\ fed = <<>> <=> e = StartEvent
    /\ FeedKeep(e) \/ FeedPaused(e) \/ FeedChild(e)

Steps == ReplayKept \/ HandOver \/ DrainQueued \/ Drained

Works ==
    \/ HookCompleted \/ Steps \/ ChildRuns \/ ChildCompleted
    \/ \E above \in SUBSET Events : ChildRaises(above)

Next == (\E e \in Events : Feed(e)) \/ Works

Spec == Init /\ [][Next]_vars

-----------------------------------------------------------------------------
(* Properties *)

Kept == SubSeq(events, replayed + 1, Len(events))

\* Across the undecided phase, the replay and the handover, the chosen layer gets exactly
\* the events NextLayer was fed, in that order; what it has not got yet is still kept or
\* queued.  An exception of the chosen layer that leaves events behind is the end of that
\* order, but not of the events: none gets lost altogether, and only those that were left
\* behind can be handed over a second time.
HandedOverInOrder ==
    /\ stranded = {} => arrived \o Kept \o askingQueue = fed
    /\ Elems(arrived) \cup Elems(events) \cup Elems(askingQueue) = Elems(fed)
    /\ \A i, j \in DOMAIN arrived : arrived[i] = arrived[j] => i = j \/ arrived[i] \in stranded

\* Nobody has to be woken to move the events on: when no handler runs, what the hook held
\* back is held only while the hook runs, and what NextLayer keeps it keeps only as long
\* as no layer has been chosen, but for what an exception left behind.
NothingHeldBack ==
    Idle => /\ ~asking => Elems(askingQueue) \subseteq stranded
            /\ rebound => events = <<>>
            /\ chosen /\ stranded = {} => rebound /\ askingQueue = <<>>

\* The two together: the chosen layer misses nothing, and waits for nothing that has
\* already come.  (Fairness, and the properties of the whole, are in ClientTls.tla.)
HandedOver == HandedOverInOrder /\ NothingHeldBack

\* A broken replay is repeated: the chosen layer is given an event again.
HandsOverAgain == \E e \in stranded : e \in Elems(arrived) /\ GiveToChild(e)

\* To the chosen layer a NextLayer in front makes no difference but that.
ChosenIsLayer == Child!Init /\ [][Child!Next \/ HandsOverAgain]_childVars

==============================================================================
