------------------------------- MODULE Watchdog -------------------------------
(***************************************************************************)
(* proxy/server.py TimeoutWatchdog, beside the tasks of ConnectionHandler:  *)
(* it closes a client when nothing has happened for a while, but not while  *)
(* a hook runs, which may be a user looking at something.                   *)
(*                                                                          *)
(* There is no clock.  quiet says that the timeout has passed since the     *)
(* last activity, and becomes true at any moment; sleep returns at any      *)
(* moment.  The hooks are those of the connections; a layer's hooks disarm  *)
(* the watchdog in the same way.                                            *)
(***************************************************************************)
EXTENDS ConnectionHandler

VARIABLES
    watch,    \* where the task of watch() is
    quiet,    \* last_activity + timeout < time.time()
    lapsed,   \* history: the timeout has passed while no hook was running
    caught    \* history: the hooks that run began when nothing would stop watch()

wvars == <<watch, quiet, lapsed, caught>>
allVars == <<vars, wvars>>

WatchTypeOK ==
    /\ watch \in {"new", "waiting", "asleep", "over"}
    /\ quiet \in BOOLEAN /\ lapsed \in BOOLEAN /\ caught \in BOOLEAN

InHook == {"connect_hook", "kill_hook", "error_hook", "cancel_hook", "connected_hook",
           "disconnect_hook"}

\* Those who are in a `with disarm()`: blocker is their number.
Blockers == {c \in Servers : task[c] \in InHook}
            \cup (IF main = "connected_hook" THEN {Client} ELSE {})

\* Mutant: clear() is missing.
NeverCleared == TRUE
\* can_timeout is set.
CanTimeout == Blockers = {}

\* A step of c's task ends its hook, though it may go on to another at once.
HookEnds(c) == c \in Blockers /\ IF c = Client THEN main' # main ELSE task'[c] # task[c]

\* Mutant: blocker is not looked at.
AnyHookEnds == \E c \in Conns : HookEnds(c)
\* Mutant: the event is not set again.
NothingRearmed == FALSE
\* The end of disarm(): the last hook that was running is over.
Rearmed == \E c \in Blockers : Blockers = {c} /\ HookEnds(c)

\* Mutant: only events are activity.
EventsOnly(event) == event
\* register_activity, by server_event and at the end of disarm().
Active(event) == event \/ Rearmed

\* What a step of the handler does to the watchdog.  handle_client cancels it when the
\* client has gone.  set() lets wait() return and watch() sleep, even if another hook has
\* cleared the event by the time the task gets to run.
Watched(event) ==
    LET watches == main' \in {"connected_hook", "running"}
    IN  /\ watch' = CASE ~watches                        -> "over"
                      [] watch = "waiting" /\ Rearmed    -> "asleep"
                      [] OTHER                           -> watch
        /\ quiet' = (watch' = "over" \/ (quiet /\ ~Active(event)))
        /\ lapsed' = (lapsed /\ quiet' /\ Blockers' = {})
        /\ caught' = (Blockers' # {}
                      /\ IF Blockers = {} \/ Rearmed THEN watch' = "asleep" ELSE caught)

WInit ==
    /\ Init
    /\ watch = "new" /\ quiet = FALSE /\ lapsed = FALSE /\ caught = FALSE

-----------------------------------------------------------------------------
(* watch() *)

\* The task starts, or finds after its sleep that something has happened.
Loops ==
    /\ watch = "new" \/ (watch = "asleep" /\ ~quiet)
    /\ watch' = IF CanTimeout THEN "asleep" ELSE "waiting"
    /\ UNCHANGED <<vars, quiet, lapsed, caught>>

\* on_timeout does nothing if the client's entry is gone.
TimesOut ==
    /\ watch = "asleep" /\ quiet
    /\ watch' = "over"
    /\ OnTimeout \/ (transport[Client] = "none" /\ UNCHANGED vars)
    /\ UNCHANGED <<quiet, lapsed, caught>>

\* Time passes.  While watch() waits for the end of a hook it does not matter.
TimePasses ==
    /\ ~quiet /\ watch # "over" /\ (watch = "asleep" \/ Blockers = {})
    /\ quiet' = TRUE /\ lapsed' = (Blockers = {})
    /\ UNCHANGED <<vars, watch, caught>>

Watch == Loops \/ TimesOut

-----------------------------------------------------------------------------

\* DataReceived.
Data(c) == task[c] = "reading" /\ UNCHANGED vars

\* Every step by which the layers hear of something is a server_event; what they do
\* about it belongs to one.
Handler ==
    \/ HandleClient \/ \E c \in Servers : ServerTask(c)
    \/ \E c \in Conns : ReaderTask(c) \/ PeerCloses(c) \/ WriteError(c)
Layers ==
    \/ \E c \in Servers : LayerOpens(c)
    \/ \E c \in Conns : LayerCloses(c) \/ LayerHalfCloses(c) \/ Data(c)

WNext ==
    \/ Handler /\ Watched(told' # told)
    \/ Layers /\ Watched(TRUE)
    \/ Watch \/ TimePasses

WSpec == WInit /\ [][WNext]_allVars

\* Sleeps end, and time passes.
WFairness == Fairness /\ WF_allVars(Watch) /\ WF_allVars(TimePasses)

FairWSpec == WSpec /\ WFairness

-----------------------------------------------------------------------------
(* Properties *)

\* A client is closed for inactivity (options.py:245) when for a whole timeout nothing
\* has happened and no hook was running.  While a hook runs it is closed only if watch()
\* had gone to sleep, or was about to, when the hook began.
TimedOutRightly ==
    [][TimesOut => IF Blockers = {} THEN lapsed ELSE caught]_allVars

\* A client is let go: unless it is there and active again and again, handle_client comes
\* to its end, because the client has gone, whatever the other connections are doing, or
\* because it stays silent.
ClientIsLetGo == []<>(task[Client] # "over" /\ ~quiet) \/ <>(main = "done")
==============================================================================
