-------------------------------- MODULE Layer --------------------------------
(***************************************************************************)
(* The pause/continue protocol of proxy/layer.py.                           *)
(*                                                                          *)
(* A layer handles an event with a generator that yields commands.  When a  *)
(* yielded command is blocking the layer pauses: it remembers the command   *)
(* and the generator, and every event that arrives before the command's     *)
(* reply is queued.  The reply resumes the generator, and once that has     *)
(* finished the queued events are replayed, until one of them pauses the    *)
(* layer again.                                                             *)
(*                                                                          *)
(* One step of the model is one step of the generator protocol; commands    *)
(* that do not block leave the layer's state alone and are not represented. *)
(***************************************************************************)
EXTENDS Sequences, Naturals

CONSTANTS Events,     \* the events a layer can be sent (replies excepted)
          Commands,   \* the blocking command objects the generators create
          None        \* Python's None

ASSUME NoneAssumption == None \notin Events \cup Commands

VARIABLES
    paused,       \* _paused.command, or None
    generator,    \* the event whose generator is unfinished, or None
    mode,         \* where handle_event is: not running, or in one of its two loops
    queue,        \* _paused_event_queue
    outstanding,  \* blocking commands that the server has not answered yet
    created,      \* blocking commands created so far: each is a new object
    arrived,      \* history: the events passed to handle_event, in order
    begun,        \* history: the events passed to _handle_event, in order
    raised        \* history: some generator ended in an exception

vars == <<paused, generator, mode, queue, outstanding, created,
          arrived, begun, raised>>

Modes == {"idle", "handling", "continuing"}

TypeOK ==
    /\ paused \in Commands \cup {None}
    /\ generator \in Events \cup {None}
    /\ mode \in Modes
    /\ queue \in Seq(Events)
    /\ outstanding \in SUBSET Commands
    /\ created \in SUBSET Commands
    /\ arrived \in Seq(Events)
    /\ begun \in Seq(Events)
    /\ raised \in BOOLEAN

Elems(s) == {s[i] : i \in DOMAIN s}

Init ==
    /\ paused = None
    /\ generator = None
    /\ mode = "idle"
    /\ queue = <<>>
    /\ outstanding = {}
    /\ created = {}
    /\ arrived = <<>>
    /\ begun = <<>>
    /\ raised = FALSE

-----------------------------------------------------------------------------
(* handle_event *)

\* Mutant: an event that arrives while the layer is paused is handled at once.
HandleEventThoughPaused(e) ==
    /\ mode = "idle"
    /\ mode' = "handling"
    /\ generator' = e
    /\ arrived' = Append(arrived, e)
    /\ begun' = Append(begun, e)
    /\ UNCHANGED <<paused, queue, outstanding, created, raised>>

\* The layer is not paused: the event's generator starts.
HandleEvent(e) ==
    /\ mode = "idle"
    /\ paused = None
    /\ mode' = "handling"
    /\ generator' = e
    /\ arrived' = Append(arrived, e)
    /\ begun' = Append(begun, e)
    /\ UNCHANGED <<paused, queue, outstanding, created, raised>>

\* Mutant: appendleft instead of append.
QueueEventInFront(e) ==
    /\ mode = "idle"
    /\ paused # None
    /\ queue' = <<e>> \o queue
    /\ arrived' = Append(arrived, e)
    /\ UNCHANGED <<paused, generator, mode, outstanding, created, begun, raised>>

\* The layer is paused and the event is not the reply it waits for.
QueueEvent(e) ==
    /\ mode = "idle"
    /\ paused # None
    /\ queue' = Append(queue, e)
    /\ arrived' = Append(arrived, e)
    /\ UNCHANGED <<paused, generator, mode, outstanding, created, begun, raised>>

\* Mutant: __continue does not reset _paused.
ContinueStillPaused(c) ==
    /\ mode = "idle"
    /\ c \in outstanding
    /\ paused = c
    /\ mode' = "continuing"
    /\ outstanding' = outstanding \ {c}
    /\ UNCHANGED <<paused, generator, queue, created, arrived, begun, raised>>

\* CommandCompleted for the paused command: the generator is resumed (__continue).
Continue(c) ==
    /\ mode = "idle"
    /\ c \in outstanding
    /\ paused = c
    /\ paused' = None
    /\ mode' = "continuing"
    /\ outstanding' = outstanding \ {c}
    /\ UNCHANGED <<generator, queue, created, arrived, begun, raised>>

-----------------------------------------------------------------------------
(* Steps of the running generator *)

\* The generator yields a blocking command, a new object: handle_event
\* remembers both, hands the command over and returns.
YieldBlocking(c) ==
    /\ mode # "idle"
    /\ c \notin created
    /\ created' = created \cup {c}
    /\ outstanding' = outstanding \cup {c}
    /\ paused' = c
    /\ mode' = "idle"
    /\ UNCHANGED <<generator, queue, arrived, begun, raised>>

\* The generator ends in handle_event's own loop, which does not look at the queue.
FinishHandling ==
    /\ mode = "handling"
    /\ mode' = "idle"
    /\ generator' = None
    /\ UNCHANGED <<paused, queue, outstanding, created, arrived, begun, raised>>

\* Mutant: __continue does not loop over the queue.
FinishContinuingUndrained ==
    /\ mode = "continuing"
    /\ mode' = "idle"
    /\ generator' = None
    /\ UNCHANGED <<paused, queue, outstanding, created, arrived, begun, raised>>

\* The generator ends in __continue: with nothing queued handle_event returns,
FinishContinuing ==
    /\ mode = "continuing"
    /\ queue = <<>>
    /\ mode' = "idle"
    /\ generator' = None
    /\ UNCHANGED <<paused, queue, outstanding, created, arrived, begun, raised>>

\* Mutant: the replayed event is not removed from the queue.
ReplayQueuedPeek ==
    /\ mode = "continuing"
    /\ queue # <<>>
    /\ Len(begun) < 6    \* keeps the mutant's states finite
    /\ generator' = Head(queue)
    /\ begun' = Append(begun, Head(queue))
    /\ UNCHANGED <<paused, mode, queue, outstanding, created, arrived, raised>>

\* otherwise the oldest queued event is handled next.
ReplayQueued ==
    /\ mode = "continuing"
    /\ queue # <<>>
    /\ generator' = Head(queue)
    /\ queue' = Tail(queue)
    /\ begun' = Append(begun, Head(queue))
    /\ UNCHANGED <<paused, mode, outstanding, created, arrived, raised>>

\* The generator raises: the exception leaves handle_event at once, without the rest
\* of the queue having been replayed.  server_event logs it and goes on.
Raise ==
    /\ mode # "idle"
    /\ mode' = "idle"
    /\ generator' = None
    /\ raised' = TRUE
    /\ UNCHANGED <<paused, queue, outstanding, created, arrived, begun>>

-----------------------------------------------------------------------------

\* Each event is a new object: it is passed to the layer once.
Arrive(e) == e \notin Elems(arrived) /\ (HandleEvent(e) \/ QueueEvent(e))

Finish == FinishHandling \/ FinishContinuing \/ ReplayQueued

Next ==
    \/ \E e \in Events : Arrive(e)
    \/ \E c \in Commands : Continue(c) \/ YieldBlocking(c)
    \/ Finish
    \/ Raise

Spec == Init /\ [][Next]_vars

\* Generators are finite and the server answers every blocking command.
Fairness == WF_vars(Finish) /\ WF_vars(\E c \in Commands : Continue(c))
FairSpec == Spec /\ Fairness

-----------------------------------------------------------------------------
(* Properties *)

\* Until a handler raises, events are handled in the order in which they arrived, none
\* is lost and none is handled twice, whatever was queued and replayed in between.
Fifo == ~raised => begun \o queue = arrived

\* An event is never left in the queue of a layer that waits for nothing, as no later
\* step would replay it (handle_event's own loop does not), unless a handler raised.
NothingStranded == (mode = "idle" /\ paused = None /\ ~raised) => queue = <<>>

\* Even when handlers raise, every event that arrived has been begun once, or is still
\* queued once.
EachOnce ==
    LET all == begun \o queue
    IN  /\ \A i, j \in DOMAIN all : all[i] = all[j] => i = j
        /\ Elems(all) = Elems(arrived)

\* A layer is a serial FIFO mailbox, one that an exception breaks.
Mail == INSTANCE Mailbox WITH
    NoEvent <- None, inbox <- queue, current <- generator, broken <- raised
Serial == Mail!Spec

\* Every event that arrives is handled to its end, unless a handler raises.
EventuallyHandled ==
    \A e \in Events :
        (e \in Elems(arrived)) ~> (e \in Elems(begun) /\ generator # e) \/ raised

==============================================================================
