---------------------------- MODULE ClientPlayback ----------------------------
(***************************************************************************)
(* addons/clientplayback.py: the queue of flows to be replayed, composed    *)
(* with the view (View.tla), which hears of every step, and with the flows  *)
(* themselves: a flow is one object that live traffic, replays, the user    *)
(* and the view share.                                                      *)
(*                                                                          *)
(* What an HttpStream does with a flow (HttpStream.tla) is reduced to its   *)
(* beginning, which makes the flow live, to the request hook, which may     *)
(* have to wait for a resume, to the response, which a server may never     *)
(* send, and to the end.  Size 0 is a flow without a response.              *)
(***************************************************************************)
EXTENDS View

CONSTANTS
    MaxReplays,    \* bound: flows put into the queue and edits, together
    Traffic        \* the flows that may be live at first

ASSUME ReplayAssumption == MaxReplays \in Nat /\ {0, 1} \subseteq Sizes /\ Traffic \subseteq Flows

VARIABLES
    arranging,  \* bound: the user either rearranges the view or replays flows
    flow,       \* what the Flow objects hold: see FlowRec
    streams,    \* the HttpStreams that work on each flow, with their hook tasks
    playback,   \* the ClientPlayback object
    excused     \* history: flows that check let through although a stream may get them

pvars == <<flow, streams, playback, excused>>
vars == <<view, arranging, flow, streams, playback, excused>>

Backup == [size : Sizes, intercepted : BOOLEAN, killed : BOOLEAN]

\* killed: flow.error is the kill message.  backup: what _backup holds.
FlowRec ==
    [live : BOOLEAN, intercepted : BOOLEAN, killed : BOOLEAN, backup : Backup \cup {None}]

\* by: who made the stream; the playback task awaits the replays it runs itself.
\* scheduled: the task that is to replay the flow has not run yet.  held: the request's
\* hook task waits for the flow to be resumed.  silent: the server neither answers nor
\* closes.  killed, history: the flow was killed while the stream worked on it.
Stream ==
    [by : {"traffic", "playback", "task"},
     at : {"scheduled", "running", "held", "resumed", "silent", "answered"},
     killed : BOOLEAN]

Playback == [queue : Seq(Flows), put : Nat]

NewFlow(live) == [live |-> live, intercepted |-> FALSE, killed |-> FALSE, backup |-> None]

NewStream(by, at) == [by |-> by, at |-> at, killed |-> FALSE]
NoReplay == [queue |-> <<>>, put |-> 0]

\* Nothing is replayed while the view is rearranged.
InitArranging ==
    /\ ViewInit
    /\ flow = [f \in Flows |-> NewFlow(FALSE)]
    /\ streams = [f \in Flows |-> <<>>]
    /\ playback = NoReplay

\* Otherwise every flow is in the view, live or with its response.
InitReplaying ==
    \E alive \in SUBSET Traffic, s \in SetToSeqs(Flows) :
        LET size == [f \in Flows |-> IF f \in alive THEN 0 ELSE 1] IN
        /\ view = FoldLeft(Added, NewView(size, FALSE), s)
        /\ flow = [f \in Flows |-> NewFlow(f \in alive)]
        /\ streams = [f \in Flows |-> IF f \in alive THEN <<NewStream("traffic", "running")>>
                                     ELSE <<>>]
        /\ playback = NoReplay

Init ==
    /\ arranging \in BOOLEAN
    /\ IF arranging THEN InitArranging ELSE InitReplaying
    /\ excused = {}

\* The replays of a flow that the playback task awaits.
Awaited(f) == {i \in DOMAIN streams[f] : streams[f][i].by = "playback"}

\* f == self.inflight; that is None again as soon as a replay got a task of its own.
InFlight(f) == Awaited(f) # {}

-----------------------------------------------------------------------------
\* Streams.

Moves(f, i, at) == streams' = [streams EXCEPT ![f][i].at = at]

Live(f) ==
    /\ flow' = [flow EXCEPT ![f].live = TRUE]
    /\ view' = Added(view, f)

\* A scheduled replay begins: requestheaders puts a flow that was removed back into the
\* view.
Begins(f, i) ==
    /\ streams[f][i].at = "scheduled"
    /\ Moves(f, i, "running")
    /\ Live(f)
    /\ UNCHANGED <<playback, excused>>

\* Somebody intercepts the flow, and its hook task waits.
Holds(f, i) ==
    /\ streams[f][i].at = "running" /\ ~flow[f].killed
    /\ Moves(f, i, "held")
    /\ flow' = [flow EXCEPT ![f].intercepted = TRUE]
    /\ view' = Updated(view, f)
    /\ UNCHANGED <<playback, excused>>

\* A replay has no watchdog: what is not answered is waited for without limit, and so is
\* what a layer that crashed will not do.
Silent(f, i) ==
    /\ streams[f][i].at \in {"running", "resumed"} /\ streams[f][i].by # "traffic"
    /\ Moves(f, i, "silent")
    /\ UNCHANGED <<view, flow, playback, excused>>

\* flow.response is set, of a killed flow as well; the view hears of it at the end.
Responds(f, i) ==
    /\ streams[f][i].at \in {"running", "resumed"}
    /\ Moves(f, i, "answered")
    /\ view' = [view EXCEPT !.size[f] = 1]
    /\ UNCHANGED <<flow, playback, excused>>

\* Mutant: only an error ends a replay.
EndsErrored(f, i) ==
    /\ streams[f][i].at \in {"running", "resumed"}
    /\ streams' = [streams EXCEPT ![f] = RemoveAt(@, i)]
    /\ flow' = [flow EXCEPT ![f].live = FALSE]
    /\ view' = Updated(view, f)
    /\ UNCHANGED <<playback, excused>>
\* The response or error hook, or check_killed; that of a replay sets ReplayHandler.done.
Ends(f, i) ==
    /\ streams[f][i].at \in {"running", "resumed", "answered"}
    /\ streams' = [streams EXCEPT ![f] = RemoveAt(@, i)]
    /\ flow' = [flow EXCEPT ![f].live = FALSE]
    /\ view' = Updated(view, f)
    /\ UNCHANGED <<playback, excused>>

-----------------------------------------------------------------------------
\* The user.

Killable(f) == flow[f].live /\ ~flow[f].killed

Killed(f) ==
    /\ flow' = [flow EXCEPT ![f].killed = TRUE, ![f].intercepted = FALSE, ![f].live = FALSE]
    /\ streams' = [streams EXCEPT ![f] = [i \in DOMAIN @ |-> [@[i] EXCEPT !.killed = TRUE]]]

UserKill(f) ==
    /\ Killable(f) /\ Killed(f)
    /\ view' = Updated(view, f)
    /\ UNCHANGED <<playback, excused>>

\* view.flows.remove kills the flow first.
UserRemove(f) ==
    /\ RemoveFlow(f)
    /\ \/ Killable(f) /\ Killed(f)
       \/ ~Killable(f) /\ UNCHANGED <<flow, streams>>
    /\ UNCHANGED <<playback, excused>>

\* flow.backup
BackedUp(f) ==
    IF flow[f].backup # None THEN flow[f]
    ELSE [flow[f] EXCEPT !.backup = [size |-> view.size[f], killed |-> flow[f].killed,
                                     intercepted |-> flow[f].intercepted]]

\* flow.revert of a flow that has a backup: what is not part of its state is left alone.
Reverted(f) ==
    [flow[f] EXCEPT !.backup = None, !.killed = flow[f].backup.killed,
                    !.intercepted = flow[f].backup.intercepted]

\* The flow is edited, in what does not change its size.
UserEdit(f) ==
    /\ playback.put < MaxReplays
    /\ Stored(view, f) /\ flow[f].backup = None
    /\ flow' = [flow EXCEPT ![f] = BackedUp(f)]
    /\ playback' = [playback EXCEPT !.put = @ + 1]
    /\ view' = Updated(view, f)
    /\ UNCHANGED <<streams, excused>>

\* A flow with a backup always counts as modified.
UserRevert(f) ==
    /\ Stored(view, f) /\ flow[f].backup # None
    /\ flow' = [flow EXCEPT ![f] = Reverted(f)]
    /\ view' = Updated([view EXCEPT !.size[f] = flow[f].backup.size], f)
    /\ UNCHANGED <<streams, playback, excused>>

UserResume(f) ==
    /\ flow[f].intercepted
    /\ flow' = [flow EXCEPT ![f].intercepted = FALSE]
    /\ streams' = [streams EXCEPT ![f] =
                     [i \in DOMAIN @ |-> IF @[i].at = "held"
                                        THEN [@[i] EXCEPT !.at = "resumed"] ELSE @[i]]]
    /\ view' = Updated(view, f)
    /\ UNCHANGED <<playback, excused>>

\* Mutant: only the flow in flight is looked at.
CheckInFlight(f) == ~InFlight(f) /\ ~flow[f].intercepted
\* check: the flow is an HTTP flow with a request.
Check(f) == ~flow[f].live /\ ~InFlight(f) /\ ~flow[f].intercepted

\* What check does not see: a stream that goes on although its flow was killed, and a
\* replay that has not begun.
Unseen(f) ==
    \E i \in DOMAIN streams[f] : streams[f][i].killed \/ streams[f][i].at = "scheduled"

\* start_replay of one flow: it loses its response and its error.
StartReplay(f) ==
    /\ playback.put < MaxReplays
    /\ Stored(view, f) /\ Check(f)
    /\ flow' = [flow EXCEPT ![f] = [BackedUp(f) EXCEPT !.killed = FALSE]]
    /\ playback' = [playback EXCEPT !.queue = Append(@, f), !.put = @ + 1]
    /\ view' = Updated([view EXCEPT !.size[f] = 0], f)
    /\ excused' = IF Unseen(f) THEN excused \cup {f} ELSE excused
    /\ UNCHANGED streams

\* stop_replay: what is queued is reverted, also if it is being replayed as well.
StopReplay ==
    LET reverted == {f \in Elems(playback.queue) : flow[f].backup # None}
        restored == [view EXCEPT !.size = [f \in Flows |->
                       IF f \in reverted THEN flow[f].backup.size ELSE @[f]]]
    IN
    /\ playback.queue # <<>>
    /\ flow' = [f \in Flows |-> IF f \in reverted THEN Reverted(f) ELSE flow[f]]
    /\ view' = FoldLeft(Updated, restored, playback.queue)
    /\ playback' = [playback EXCEPT !.queue = <<>>]
    /\ UNCHANGED <<streams, excused>>

-----------------------------------------------------------------------------

\* playback takes the next flow when nothing is awaited.
Replay(f, by, at) ==
    /\ \A g \in Flows : Awaited(g) = {}
    /\ playback.queue # <<>> /\ f = Head(playback.queue)
    /\ playback' = [playback EXCEPT !.queue = Tail(@)]
    /\ streams' = [streams EXCEPT ![f] = Append(@, NewStream(by, at))]

\* client_replay_concurrency is 1: the replay is awaited, and begins at once.
ReplayAwaited(f) ==
    /\ Replay(f, "playback", "running")
    /\ Live(f)
    /\ UNCHANGED excused

\* There is no limit: each replay gets a task, also that of a flow that is queued again.
ReplayScheduled(f) ==
    /\ Replay(f, "task", "scheduled")
    /\ excused' = excused \cup {g \in Elems(playback'.queue) : g = f}
    /\ UNCHANGED <<flow, view>>

\* The option is read for each flow, and may have been set meanwhile.
TakeNext == \E f \in Flows : ReplayAwaited(f) \/ ReplayScheduled(f)

StreamStep == \E f \in Flows : \E i \in DOMAIN streams[f] :
                  Begins(f, i) \/ Responds(f, i) \/ Ends(f, i)

Replaying ==
    \/ TakeNext \/ StopReplay
    \/ StreamStep
    \/ \E f \in Flows :
         \/ \E i \in DOMAIN streams[f] : Holds(f, i) \/ Silent(f, i)
         \/ UserKill(f) \/ UserRemove(f) \/ UserResume(f) \/ UserEdit(f) \/ UserRevert(f)
         \/ StartReplay(f)
    \/ Clear /\ UNCHANGED pvars

Next ==
    /\ UNCHANGED arranging
    /\ IF arranging THEN ViewNext /\ UNCHANGED pvars ELSE Replaying

Spec == Init /\ [][Next]_vars

\* The event loop runs tasks, streams whose server is not silent come to an end, and
\* users resume what is held.
Fairness ==
    /\ WF_vars(~arranging /\ TakeNext /\ UNCHANGED arranging)
    /\ WF_vars(~arranging /\ StreamStep /\ UNCHANGED arranging)
    /\ WF_vars(~arranging /\ (\E f \in Flows : UserResume(f)) /\ UNCHANGED arranging)
FairSpec == Spec /\ Fairness

-----------------------------------------------------------------------------
(* Properties *)

PlaybackTypeOK ==
    /\ ViewTypeOK
    /\ arranging \in BOOLEAN
    /\ flow \in [Flows -> FlowRec]
    /\ streams \in [Flows -> Seq(Stream)]
    /\ playback \in Playback
    /\ excused \subseteq Flows

\* "Can't replay live flow": no flow is worked on by two streams at a time, but where
\* check cannot see the other: behind a kill, which a revert may have undone for the flow
\* and not for its stream; behind a replay that has not begun; and where a flow that is
\* queued twice is taken without a limit.
InFlightOnce == \A f \in Flows : Len(streams[f]) <= 1 \/ f \in excused

\* The queue is worked off, whatever is killed, edited, reverted, removed, held or stopped
\* and however the limit is changed meanwhile, unless the replay that is awaited has a
\* silent server, or its flow was killed or reverted while it was held.
Stuck == \E f \in Flows : \E i \in Awaited(f) :
            \/ streams[f][i].at = "silent"
            \/ streams[f][i].at = "held" /\ ~flow[f].intercepted
QueueDrains == (playback.queue # <<>>) ~> (playback.queue = <<>> \/ Stuck)

==============================================================================
