----------------------------- MODULE FlowControl -----------------------------
(***************************************************************************)
(* Holding, releasing and killing flows.                                    *)
(*                                                                          *)
(* A flow runs through the request and the response hook of the proxy.  In  *)
(* each hook the addons may intercept or kill it; the hook's task then      *)
(* waits in Flow.wait_for_resume until somebody resumes the flow.           *)
(* Meanwhile, and at any other time, users act on the flow through the web  *)
(* interface.  The module brings together flow.py, the hook task of         *)
(* proxy/mode_servers.py, the advanced interceptor with its queue limit and *)
(* auto-resume, the addons that write flow.intercepted themselves (mock     *)
(* responses, scripts), and the web handlers.                               *)
(***************************************************************************)
EXTENDS Naturals, FiniteSets

CONSTANTS
    Flows,
    Domains, Domain,   \* Domain[f]: the host of f's request
    Client,            \* the client address, the same for all flows
    InterceptUrls,     \* the flows whose URL matches advanced_intercept_urls
    BlockUrls,         \* the flows whose URL matches advanced_block_urls
    Enabled,           \* advanced_intercept_enabled
    Mode,              \* advanced_intercept_mode
    MaxQueue,          \* advanced_intercept_max_queue
    SkipCount,         \* the skip count of advanced_skip_domains, 0 for none
    AutoResume,        \* advanced_intercept_auto_resume > 0
    AddonOps,          \* what the addons behind the interceptor may do in a hook
    UserOps            \* what users may do

AllAddonOps == {"script_intercept", "script_resume", "mock", "intercept"}
AllUserOps == {"resume", "kill", "pause", "unpause", "block", "intercept_all",
               "unpause_all", "edit", "revert"}

ASSUME ConfigAssumption ==
    /\ Domain \in [Flows -> Domains] /\ Client \notin Domains
    /\ InterceptUrls \subseteq Flows /\ BlockUrls \subseteq Flows
    /\ Enabled \in BOOLEAN /\ AutoResume \in BOOLEAN
    /\ Mode \in {"pause", "block"}
    /\ MaxQueue \in Nat /\ SkipCount \in Nat
    /\ AddonOps \subseteq AllAddonOps /\ UserOps \subseteq AllUserOps

VARIABLES
    flow,         \* the Flow objects
    stage,        \* how far the proxy has got with each flow
    task,         \* the flow's hook task, see Tasks
    backup,       \* Flow._backup: the saved [intercepted, killed], or NoBackup
    flowStates,   \* AdvancedInterceptor.flow_states, "" for no entry
    pausedConns,  \* paused_connections and paused_ips
    skipped,      \* skip_settings: the flows skipped so far, per domain
    sleepers,     \* pending auto_resume tasks, per flow
    reverted,     \* history: flows that have been reverted
    scripted      \* history: flows a script has intercepted

vars == <<flow, stage, task, backup, flowStates, pausedConns, skipped,
          sleepers, reverted, scripted>>
history == <<reverted, scripted>>
control == <<pausedConns, skipped, sleepers, history>>

\* "set" and "clear" are the two states of _resume_event, "none" that it is None.
FlowRec == [intercepted: BOOLEAN, event: {"none", "clear", "set"},
            killed: BOOLEAN, live: BOOLEAN]

\* "error" is where a killed flow ends: its error hook has been triggered.
Stages == {"new", "request", "sent", "response", "done", "error"}

\* "addons": the addons' hooks ran; "waiting": in _resume_event.wait();
\* "woken": the event was set; "passed": wait_for_resume returned.
Tasks == {"none", "addons", "waiting", "woken", "passed"}

NoBackup == [none |-> TRUE]
Backups == [intercepted: BOOLEAN, killed: BOOLEAN] \cup {NoBackup}
States == {"", "paused", "intercepted", "blocked", "resumed"}

TypeOK ==
    /\ flow \in [Flows -> FlowRec]
    /\ stage \in [Flows -> Stages]
    /\ task \in [Flows -> Tasks]
    /\ backup \in [Flows -> Backups]
    /\ flowStates \in [Flows -> States]
    /\ pausedConns \subseteq Domains \cup {Client}
    /\ skipped \in [Domains -> 0 .. SkipCount]
    /\ sleepers \in [Flows -> Nat]
    /\ reverted \subseteq Flows /\ scripted \subseteq Flows

Init ==
    /\ flow = [f \in Flows |-> [intercepted |-> FALSE, event |-> "none",
                                killed |-> FALSE, live |-> TRUE]]
    /\ stage = [f \in Flows |-> "new"]
    /\ task = [f \in Flows |-> "none"]
    /\ backup = [f \in Flows |-> NoBackup]
    /\ flowStates = [f \in Flows |-> ""]
    /\ pausedConns = {}
    /\ skipped = [d \in Domains |-> 0]
    /\ sleepers = [f \in Flows |-> 0]
    /\ reverted = {} /\ scripted = {}

-----------------------------------------------------------------------------
(* Flow: what its methods do to the object. *)

Killable(r) == r.live /\ ~r.killed

\* Mutant: kill does not record why the flow ended.
KilledSilently(r) == [r EXCEPT !.intercepted = FALSE, !.live = FALSE]

\* kill does not touch the resume event.
Killed(r) == [r EXCEPT !.killed = TRUE, !.intercepted = FALSE, !.live = FALSE]

\* Mutant: intercept does not clear the event an earlier resume has set.
InterceptedNotCleared(r) == [r EXCEPT !.intercepted = TRUE]

Intercepted(r) ==
    IF r.intercepted THEN r
    ELSE [r EXCEPT !.intercepted = TRUE,
                   !.event = IF @ = "none" THEN "none" ELSE "clear"]

\* Mutant: resume forgets the event.
ResumedNoEvent(r) == [r EXCEPT !.intercepted = FALSE]

Resumed(r) ==
    IF ~r.intercepted THEN r
    ELSE [r EXCEPT !.intercepted = FALSE,
                   !.event = IF @ = "none" THEN "none" ELSE "set"]

\* Setting the event wakes the task waiting for it, for good: clearing the
\* event again before the task runs does not put the task back to sleep.
Woken(t, r) == IF t = "waiting" /\ r.event = "set" THEN "woken" ELSE t

-----------------------------------------------------------------------------
(* The advanced interceptor *)

HasUrls == InterceptUrls \cup BlockUrls # {}

ShouldBlock(f) ==
    /\ Enabled \/ BlockUrls # {}
    /\ f \in BlockUrls \/ flowStates[f] = "blocked"

Held == {f \in Flows : flowStates[f] \in {"paused", "intercepted"}}

\* Mutant: off by one.
QueueOverfull == Cardinality(Held) > MaxQueue

QueueFull == Cardinality(Held) >= MaxQueue

\* _should_intercept: pass says whether the method, status code and header
\* filters and the directions let the flow through.  It gets to the queue
\* limit only when no paused connection decided before.
Considered(f) == Enabled \/ HasUrls \/ pausedConns # {}
Forced(f) == {Domain[f], Client} \cap pausedConns # {}
Skips(f, pass) == /\ Considered(f) /\ ~Forced(f) /\ ~QueueFull /\ pass
                  /\ skipped[Domain[f]] < SkipCount
ShouldIntercept(f, pass) ==
    /\ Considered(f)
    /\ \/ Forced(f)
       \/ /\ ~QueueFull /\ pass /\ ~Skips(f, pass)
          /\ f \in InterceptUrls \/ f \in Held

SkipCounted(f, pass) ==
    IF ~Considered(f) \/ Forced(f) \/ QueueFull \/ ~pass THEN skipped
    ELSE [skipped EXCEPT ![Domain[f]] = IF @ < SkipCount THEN @ + 1 ELSE 0]

\* _process_flow: the verdict on the flow in this hook.
Verdict(f, pass) ==
    IF ShouldBlock(f) THEN "block"
    ELSE IF ~ShouldIntercept(f, pass) THEN "pass"
    ELSE Mode

-----------------------------------------------------------------------------
(* The hook task *)

\* What an addon behind the interceptor does.  Scripts and mock responses
\* write flow.intercepted past the methods that also maintain the event.
ByAddon(op, r) ==
    CASE op \in {"script_intercept", "mock"} -> [r EXCEPT !.intercepted = TRUE]
      [] op = "script_resume" -> [r EXCEPT !.intercepted = FALSE]
      [] op = "intercept" -> Intercepted(r)
      [] OTHER -> r

\* The proxy has read a request, or the response to a request it has sent: the
\* hook task runs the addons, first the interceptor and then maybe another.
BeginHook(f) ==
    /\ stage[f] \in {"new", "sent"} /\ task[f] = "none"
    /\ LET dir == IF stage[f] = "new" THEN "request" ELSE "response"
       IN  \E pass \in BOOLEAN, op \in AddonOps \cup {"nothing"} :
             LET verdict == Verdict(f, pass)
                 judged == CASE verdict = "block" /\ Killable(flow[f]) -> Killed(flow[f])
                             [] verdict = "pause" -> Intercepted(flow[f])
                             [] OTHER -> flow[f]
             IN  /\ op = "mock" => dir = "request" /\ judged.live
                 /\ flow' = [flow EXCEPT ![f] = ByAddon(op, judged)]
                 /\ flowStates' = [flowStates EXCEPT ![f] =
                       CASE verdict = "block" /\ Killable(flow[f]) -> "blocked"
                         [] verdict = "pause" -> "paused"
                         [] OTHER -> @]
                 /\ sleepers' = [sleepers EXCEPT ![f] =
                       IF verdict = "pause" /\ AutoResume THEN @ + 1 ELSE @]
                 /\ skipped' = IF ShouldBlock(f) THEN skipped ELSE SkipCounted(f, pass)
                 /\ scripted' = IF op = "script_intercept" THEN scripted \cup {f} ELSE scripted
             /\ stage' = [stage EXCEPT ![f] = dir]
    /\ task' = [task EXCEPT ![f] = "addons"]
    /\ UNCHANGED <<backup, pausedConns, reverted>>

\* Mutant: the task waits for the next set, as on a condition variable.
AwaitNextResume(f) ==
    /\ task[f] = "addons"
    /\ flow' = [flow EXCEPT ![f].event =
                  IF flow[f].intercepted /\ @ = "none" THEN "clear" ELSE @]
    /\ task' = [task EXCEPT ![f] = IF flow[f].intercepted THEN "waiting" ELSE "passed"]
    /\ UNCHANGED <<stage, backup, flowStates, control>>

\* wait_for_resume, up to where it returns or blocks.  An event left set by an
\* earlier resume does not block, whatever flow.intercepted says.
AwaitResume(f) ==
    /\ task[f] = "addons"
    /\ flow' = [flow EXCEPT ![f].event =
                  IF flow[f].intercepted /\ @ = "none" THEN "clear" ELSE @]
    /\ task' = [task EXCEPT ![f] = IF flow'[f].event = "clear" /\ flow[f].intercepted
                                   THEN "waiting" ELSE "passed"]
    /\ UNCHANGED <<stage, backup, flowStates, control>>

\* wait_for_resume has returned and HookCompleted reaches the HTTP layer, which
\* drops a killed flow with an error and goes on with any other.
CompleteHook(f) ==
    /\ task[f] \in {"passed", "woken"}
    /\ task' = [task EXCEPT ![f] = "none"]
    /\ stage' = [stage EXCEPT ![f] = CASE flow[f].killed -> "error"
                                       [] ~flow[f].killed /\ @ = "request" -> "sent"
                                       [] OTHER -> "done"]
    /\ flow' = IF stage'[f] = "sent" THEN flow ELSE [flow EXCEPT ![f].live = FALSE]
    /\ UNCHANGED <<backup, flowStates, control>>

\* The auto_resume task wakes up.  flow.resumable does not exist, so it raises
\* after it has changed the interceptor's entry and before it resumes the flow.
AutoResumeFires(f) ==
    /\ sleepers[f] > 0
    /\ sleepers' = [sleepers EXCEPT ![f] = @ - 1]
    /\ flowStates' = [flowStates EXCEPT ![f] = IF @ = "paused" THEN "resumed" ELSE @]
    /\ UNCHANGED <<flow, stage, task, backup, pausedConns, skipped, history>>

-----------------------------------------------------------------------------
(* Users *)

\* The flow becomes r, its task is woken if that set the event, and the
\* interceptor's entry becomes s.
Act(f, r, s) ==
    /\ flow' = [flow EXCEPT ![f] = r]
    /\ task' = [task EXCEPT ![f] = Woken(@, r)]
    /\ flowStates' = [flowStates EXCEPT ![f] = s]

UserResume(f) ==      \* flow.resume, ResumeFlow(s)
    /\ "resume" \in UserOps /\ flow[f].intercepted
    /\ Act(f, Resumed(flow[f]), flowStates[f])
    /\ UNCHANGED <<stage, backup, control>>

UserKill(f) ==        \* flow.kill, KillFlow(s), view.flows.remove
    /\ "kill" \in UserOps /\ Killable(flow[f])
    /\ Act(f, Killed(flow[f]), flowStates[f])
    /\ UNCHANGED <<stage, backup, control>>

UserPause(f) ==       \* FlowStateControl, action "pause"
    /\ "pause" \in UserOps
    /\ Act(f, Intercepted(flow[f]), "paused")
    /\ UNCHANGED <<stage, backup, control>>

UserUnpause(f) ==     \* FlowStateControl, action "resume"
    /\ "unpause" \in UserOps
    /\ Act(f, Resumed(flow[f]), "")
    /\ UNCHANGED <<stage, backup, control>>

UserBlock(f) ==       \* FlowStateControl, action "block"
    /\ "block" \in UserOps /\ Killable(flow[f])
    /\ Act(f, Killed(flow[f]), "blocked")
    /\ UNCHANGED <<stage, backup, control>>

UserInterceptAll(f) ==  \* FlowStateControl, action "intercept"
    /\ "intercept_all" \in UserOps
    /\ Act(f, Intercepted(flow[f]), "intercepted")
    /\ pausedConns' = pausedConns \cup {Domain[f], Client}
    /\ UNCHANGED <<stage, backup, skipped, sleepers, history>>

UserUnpauseAll(c) ==  \* PausedConnectionsHandler.delete
    /\ "unpause_all" \in UserOps /\ c \in pausedConns
    /\ pausedConns' = pausedConns \ {c}
    /\ UNCHANGED <<flow, stage, task, backup, flowStates, skipped, sleepers, history>>

UserEdit(f) ==        \* any edit of the flow backs it up first
    /\ "edit" \in UserOps /\ backup[f] = NoBackup
    /\ backup' = [backup EXCEPT ![f] = [intercepted |-> flow[f].intercepted,
                                        killed |-> flow[f].killed]]
    /\ UNCHANGED <<flow, stage, task, flowStates, control>>

\* revert restores flow.intercepted and flow.error, but not live or the event.
UserRevert(f) ==
    /\ "revert" \in UserOps /\ backup[f] # NoBackup
    /\ flow' = [flow EXCEPT ![f].intercepted = backup[f].intercepted,
                            ![f].killed = backup[f].killed]
    /\ backup' = [backup EXCEPT ![f] = NoBackup]
    /\ reverted' = reverted \cup {f}
    /\ UNCHANGED <<stage, task, flowStates, pausedConns, skipped, sleepers, scripted>>

\* Users see a flow from its first hook on.
User(f) ==
    /\ stage[f] # "new"
    /\ \/ UserResume(f) \/ UserKill(f) \/ UserPause(f) \/ UserUnpause(f)
       \/ UserBlock(f) \/ UserInterceptAll(f) \/ UserEdit(f) \/ UserRevert(f)

-----------------------------------------------------------------------------

Proxy(f) == BeginHook(f) \/ AwaitResume(f) \/ CompleteHook(f)

Next ==
    \/ \E f \in Flows : Proxy(f) \/ AutoResumeFires(f) \/ User(f)
    \/ \E c \in Domains \cup {Client} : UserUnpauseAll(c)

Spec == Init /\ [][Next]_vars

\* The event loop runs every task that is ready, sleeping tasks wake up, and
\* somebody eventually resumes a flow that stays intercepted.
Fairness ==
    \A f \in Flows : /\ WF_vars(Proxy(f)) /\ WF_vars(AutoResumeFires(f))
                     /\ SF_vars(stage[f] # "new" /\ UserResume(f))
FairSpec == Spec /\ Fairness

-----------------------------------------------------------------------------
(* Properties *)

\* The interceptor alone never holds more flows than advanced_intercept_max_queue
\* allows, over both hooks of every flow.
InterceptorQueueBounded == Cardinality(Held) <= MaxQueue

\* No wake-up is lost: a task waits only on an event that is not set.
NoLostWakeup == \A f \in Flows : task[f] = "waiting" => flow[f].event = "clear"

\* Only kill and revert can leave a task waiting for a flow that is not
\* intercepted, which no resume will ever wake (resume returns early).
StuckOnlyByKillOrRevert ==
    \A f \in Flows : task[f] = "waiting" /\ ~flow[f].intercepted
                        => flow[f].killed \/ f \in reverted

\* A killed flow goes no further: nothing is sent or delivered for it, unless a
\* revert has removed the mark of the kill.  (A flow that has not come to its end
\* is live unless it has been killed.)
KilledNotForwarded ==
    [][\A f \in Flows \ reverted : ~flow[f].live /\ stage'[f] # stage[f]
                           => stage'[f] \notin {"sent", "done"}]_vars

\* A flow that was intercepted when its hook task came to wait is released only
\* after the event was set, that is by a resume.  Scripts and revert write
\* flow.intercepted without the event, and hold no flow that was resumed before.
HeldUntilResumed ==
    [][\A f \in Flows \ (reverted \cup scripted) :
           task[f] = "addons" /\ flow[f].intercepted => task'[f] \in {"addons", "waiting"}]_vars

\* Every flow gets to its end if users resume what is intercepted.
EveryFlowEnds == \A f \in Flows : stage[f] = "request" ~> stage[f] \in {"done", "error"}

==============================================================================
