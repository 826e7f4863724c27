-------------------------- MODULE FlowControlProofs --------------------------
(***************************************************************************)
(* What holds of flow control for any set of flows, any configuration of    *)
(* the interceptor and any users: types, that no wake-up is lost, who can    *)
(* leave a task waiting, that killed flows go no further, and the limit of   *)
(* the interceptor's queue.                                                  *)
(***************************************************************************)
EXTENDS FlowControl, FiniteSetTheorems, TLAPS

TaskInHook ==
    \A f \in Flows : task[f] # "none" => stage[f] \in {"request", "response"}

DeadIsKilled ==
    \A f \in Flows \ reverted :
        ~flow[f].live => flow[f].killed \/ stage[f] \in {"done", "error"}

\* The event of a flow that is held is not left set from an earlier resume.
HeldNotSet ==
    \A f \in Flows \ (reverted \cup scripted) :
        flow[f].intercepted => flow[f].event # "set"

NewHasNoEvent == \A f \in Flows : stage[f] = "new" => flow[f].event = "none"

\* The inductive invariant.  A task waits only while the event is clear, and a
\* wake-up sets it only for a flow that is intercepted, so the first three need
\* each other.  That killed flows go no further needs the next two: a hook task
\* exists only inside a hook, and there only a kill ends a flow's life.  That
\* held flows are held needs the last two: mock responses set intercepted past
\* the event, but in the first hook, when there is none yet.
IInv ==
    /\ TypeOK
    /\ NoLostWakeup
    /\ StuckOnlyByKillOrRevert
    /\ TaskInHook
    /\ DeadIsKilled
    /\ HeldNotSet
    /\ NewHasNoEvent

-----------------------------------------------------------------------------
(* The methods of a flow *)

\* kill, intercept, resume and the addons leave a flow a flow.
LEMMA FlowMethods ==
    ASSUME NEW r \in FlowRec
    PROVE  /\ Killed(r) \in FlowRec
           /\ Intercepted(r) \in FlowRec
           /\ Resumed(r) \in FlowRec
           /\ \A op : ByAddon(op, r) \in FlowRec
           /\ Killed(r).killed
           /\ Intercepted(r).killed = r.killed /\ Intercepted(r).live = r.live
           /\ Resumed(r).killed = r.killed /\ Resumed(r).live = r.live
           /\ \A op : ByAddon(op, r).killed = r.killed /\ ByAddon(op, r).live = r.live
<1>1. Killed(r) \in FlowRec
  BY DEF FlowRec, Killed
<1>2. Intercepted(r) \in FlowRec
  BY DEF FlowRec, Intercepted
<1>3. Resumed(r) \in FlowRec
  BY DEF FlowRec, Resumed
<1>4. \A op : ByAddon(op, r) \in FlowRec
  BY <1>2 DEF FlowRec, ByAddon
<1>5. /\ Killed(r).killed
      /\ Intercepted(r).killed = r.killed /\ Intercepted(r).live = r.live
      /\ Resumed(r).killed = r.killed /\ Resumed(r).live = r.live
  BY DEF FlowRec, Killed, Intercepted, Resumed
<1>6. \A op : ByAddon(op, r).killed = r.killed /\ ByAddon(op, r).live = r.live
  BY <1>5 DEF FlowRec, ByAddon
<1> QED BY <1>1, <1>2, <1>3, <1>4, <1>5, <1>6

\* A task that is woken goes on being a task.
LEMMA WokenType == \A t \in Tasks : \A r : Woken(t, r) \in Tasks
BY DEF Tasks, Woken

\* The skip counters stay within the skip count.
LEMMA SkipType ==
    ASSUME skipped \in [Domains -> 0 .. SkipCount], NEW f \in Flows, NEW pass \in BOOLEAN
    PROVE  SkipCounted(f, pass) \in [Domains -> 0 .. SkipCount]
<1>1. Domain[f] \in Domains /\ SkipCount \in Nat
  BY ConfigAssumption
<1>2. skipped[Domain[f]] \in 0 .. SkipCount
  BY <1>1
<1>3. (IF skipped[Domain[f]] < SkipCount THEN skipped[Domain[f]] + 1 ELSE 0) \in 0 .. SkipCount
  BY <1>1, <1>2
<1> QED BY <1>3 DEF SkipCounted

-----------------------------------------------------------------------------
(* Types *)

LEMMA InitType == Init => TypeOK
<1> SUFFICES ASSUME Init PROVE TypeOK
  OBVIOUS
<1>1. flow \in [Flows -> FlowRec]
  BY DEF Init, FlowRec
<1>2. skipped \in [Domains -> 0 .. SkipCount]
  <2>1. 0 \in 0 .. SkipCount
    BY ConfigAssumption
  <2> QED BY <2>1 DEF Init
<1>3. /\ stage \in [Flows -> Stages] /\ task \in [Flows -> Tasks]
      /\ backup \in [Flows -> Backups] /\ flowStates \in [Flows -> States]
      /\ sleepers \in [Flows -> Nat]
  BY DEF Init, Stages, Tasks, Backups, States
<1>4. /\ pausedConns \subseteq Domains \cup {Client}
      /\ reverted \subseteq Flows /\ scripted \subseteq Flows
  BY DEF Init
<1> QED BY <1>1, <1>2, <1>3, <1>4 DEF TypeOK

\* What every user action but revert and edit does through Act.
LEMMA ActType ==
    ASSUME TypeOK, NEW f \in Flows, NEW r \in FlowRec, NEW s \in States, Act(f, r, s)
    PROVE  /\ flow' \in [Flows -> FlowRec]
           /\ task' \in [Flows -> Tasks]
           /\ flowStates' \in [Flows -> States]
<1>1. Woken(task[f], r) \in Tasks
  BY WokenType DEF TypeOK
<1> QED BY <1>1 DEF TypeOK, Act

LEMMA BeginHookType ==
    ASSUME TypeOK, NEW f \in Flows, BeginHook(f)
    PROVE  TypeOK'
<1> DEFINE dir == IF stage[f] = "new" THEN "request" ELSE "response"
<1>1. PICK pass \in BOOLEAN, op \in AddonOps \cup {"nothing"} :
        LET verdict == Verdict(f, pass)
            judged == CASE verdict = "block" /\ Killable(flow[f]) -> Killed(flow[f])
                        [] verdict = "pause" -> Intercepted(flow[f])
                        [] OTHER -> flow[f]
        IN  /\ flow' = [flow EXCEPT ![f] = ByAddon(op, judged)]
            /\ flowStates' = [flowStates EXCEPT ![f] =
                  CASE verdict = "block" /\ Killable(flow[f]) -> "blocked"
                    [] verdict = "pause" -> "paused"
                    [] OTHER -> @]
            /\ sleepers' = [sleepers EXCEPT ![f] =
                  IF verdict = "pause" /\ AutoResume THEN @ + 1 ELSE @]
            /\ skipped' = IF ShouldBlock(f) THEN skipped ELSE SkipCounted(f, pass)
            /\ scripted' = IF op = "script_intercept" THEN scripted \cup {f} ELSE scripted
  BY Zenon DEF BeginHook
<1> DEFINE verdict == Verdict(f, pass)
           judged == CASE verdict = "block" /\ Killable(flow[f]) -> Killed(flow[f])
                       [] verdict = "pause" -> Intercepted(flow[f])
                       [] OTHER -> flow[f]
<1>2. flow[f] \in FlowRec
  BY DEF TypeOK
<1>3. judged \in FlowRec
  BY <1>2, FlowMethods
<1>4. flow' \in [Flows -> FlowRec]
  <2>1. ByAddon(op, judged) \in FlowRec
    BY <1>3, FlowMethods
  <2> QED BY <1>1, <2>1 DEF TypeOK
<1>5. flowStates' \in [Flows -> States]
  BY <1>1 DEF TypeOK, States
<1>6. sleepers' \in [Flows -> Nat]
  BY <1>1 DEF TypeOK
<1>7. skipped' \in [Domains -> 0 .. SkipCount]
  BY <1>1, SkipType DEF TypeOK
<1>8. scripted' \subseteq Flows
  BY <1>1 DEF TypeOK
<1>9. stage' \in [Flows -> Stages] /\ task' \in [Flows -> Tasks]
  BY DEF BeginHook, TypeOK, Stages, Tasks
<1> QED BY <1>4, <1>5, <1>6, <1>7, <1>8, <1>9 DEF BeginHook, TypeOK
LEMMA NextType == TypeOK /\ [Next]_vars => TypeOK'
<1> SUFFICES ASSUME TypeOK, [Next]_vars PROVE TypeOK'
  OBVIOUS
<1>1. ASSUME NEW f \in Flows, Proxy(f) PROVE TypeOK'
  <2>1. CASE BeginHook(f)
    BY <2>1, BeginHookType
  <2>2. CASE AwaitResume(f)
    BY <2>2 DEF AwaitResume, TypeOK, FlowRec, Tasks, control, history
  <2>3. CASE CompleteHook(f)
    BY <2>3 DEF CompleteHook, TypeOK, FlowRec, Tasks, Stages, control, history
  <2> QED BY <1>1, <2>1, <2>2, <2>3 DEF Proxy
<1>2. ASSUME NEW f \in Flows, AutoResumeFires(f) PROVE TypeOK'
  <2>1. flowStates' \in [Flows -> States]
    BY <1>2 DEF AutoResumeFires, TypeOK, States
  <2>2. sleepers' \in [Flows -> Nat]
    BY <1>2 DEF AutoResumeFires, TypeOK
  <2> QED BY <1>2, <2>1, <2>2 DEF AutoResumeFires, TypeOK, history
<1>3. ASSUME NEW f \in Flows, User(f) PROVE TypeOK'
  <2>1. flow[f] \in FlowRec /\ flowStates[f] \in States
    BY DEF TypeOK
  <2>2. {"", "paused", "blocked", "intercepted"} \subseteq States
    BY DEF States
  <2>3. CASE UserResume(f)
    BY <2>1, <2>3, ActType, FlowMethods DEF UserResume, TypeOK, control, history
  <2>4. CASE UserKill(f)
    BY <2>1, <2>4, ActType, FlowMethods DEF UserKill, TypeOK, control, history
  <2>5. CASE UserPause(f)
    BY <2>1, <2>2, <2>5, ActType, FlowMethods DEF UserPause, TypeOK, control, history
  <2>6. CASE UserUnpause(f)
    BY <2>1, <2>2, <2>6, ActType, FlowMethods DEF UserUnpause, TypeOK, control, history
  <2>7. CASE UserBlock(f)
    BY <2>1, <2>2, <2>7, ActType, FlowMethods DEF UserBlock, TypeOK, control, history
  <2>8. CASE UserInterceptAll(f)
    <3>1. pausedConns' \subseteq Domains \cup {Client}
      BY <2>8, ConfigAssumption DEF UserInterceptAll, TypeOK
    <3> QED BY <2>1, <2>2, <2>8, <3>1, ActType, FlowMethods
            DEF UserInterceptAll, TypeOK, history
  <2>9. CASE UserEdit(f)
    BY <2>1, <2>9 DEF UserEdit, TypeOK, FlowRec, Backups, control, history
  <2>10. CASE UserRevert(f)
    BY <2>1, <2>10 DEF UserRevert, TypeOK, FlowRec, Backups, NoBackup
  <2> QED BY <1>3, <2>3, <2>4, <2>5, <2>6, <2>7, <2>8, <2>9, <2>10 DEF User
<1>4. ASSUME NEW c \in Domains \cup {Client}, UserUnpauseAll(c) PROVE TypeOK'
  BY <1>4 DEF UserUnpauseAll, TypeOK, history
<1>5. CASE UNCHANGED vars
  BY <1>5 DEF vars, TypeOK
<1> QED BY <1>1, <1>2, <1>3, <1>4, <1>5 DEF Next

\* Type correctness.
THEOREM FlowTypeCorrect == Spec => []TypeOK
BY InitType, NextType, PTL DEF Spec

-----------------------------------------------------------------------------
(* The inductive invariant *)

LEMMA InitIInv == Init => IInv
<1> SUFFICES ASSUME Init PROVE IInv
  OBVIOUS
<1>1. TypeOK
  BY InitType
<1>2. /\ NoLostWakeup /\ StuckOnlyByKillOrRevert
      /\ TaskInHook /\ DeadIsKilled /\ HeldNotSet /\ NewHasNoEvent
  BY DEF Init, NoLostWakeup, StuckOnlyByKillOrRevert, TaskInHook, DeadIsKilled,
         HeldNotSet, NewHasNoEvent
<1> QED BY <1>1, <1>2 DEF IInv

\* A hook begins: the addons may kill the flow or write intercepted, and no
\* task waits yet.
LEMMA BeginHookIInv ==
    ASSUME IInv, NEW f \in Flows, BeginHook(f)
    PROVE  IInv'
<1>1. TypeOK'
  BY BeginHookType DEF IInv
<1>2. PICK r \in FlowRec :
        /\ flow' = [flow EXCEPT ![f] = r]
        /\ (r.live = flow[f].live /\ r.killed = flow[f].killed) \/ r.killed
        /\ r.intercepted /\ f \notin reverted \cup scripted' => r.event # "set"
  <2>1. flow[f] \in FlowRec
    BY DEF IInv, TypeOK
  <2>2. PICK pass \in BOOLEAN, op \in AddonOps \cup {"nothing"} :
          /\ flow' = [flow EXCEPT ![f] = ByAddon(op,
                CASE Verdict(f, pass) = "block" /\ Killable(flow[f]) -> Killed(flow[f])
                  [] Verdict(f, pass) = "pause" -> Intercepted(flow[f])
                  [] OTHER -> flow[f])]
          /\ op = "mock" =>
                (IF stage[f] = "new" THEN "request" ELSE "response") = "request"
          /\ scripted' = IF op = "script_intercept" THEN scripted \cup {f} ELSE scripted
    BY Zenon DEF BeginHook
  <2> DEFINE judged == CASE Verdict(f, pass) = "block" /\ Killable(flow[f]) -> Killed(flow[f])
                         [] Verdict(f, pass) = "pause" -> Intercepted(flow[f])
                         [] OTHER -> flow[f]
  <2>3. /\ judged \in FlowRec
        /\ (judged.live = flow[f].live /\ judged.killed = flow[f].killed) \/ judged.killed
    BY <2>1, FlowMethods
  <2>4. /\ ByAddon(op, judged) \in FlowRec
        /\ ByAddon(op, judged).killed = judged.killed
        /\ ByAddon(op, judged).live = judged.live
    BY <2>3, FlowMethods
  <2>5. f \notin reverted \cup scripted /\ judged.intercepted => judged.event # "set"
    BY <2>1 DEF IInv, HeldNotSet, FlowRec, Killed, Intercepted
  <2>6. stage[f] = "new" => judged.event = "none"
    BY <2>1 DEF IInv, NewHasNoEvent, FlowRec, Killed, Intercepted
  <2> HIDE DEF judged
  <2>7. f \notin reverted \cup scripted' /\ ByAddon(op, judged).intercepted
           => ByAddon(op, judged).event # "set"
    <3>1. CASE op = "script_intercept"
      BY <2>2, <3>1
    <3>2. CASE op = "mock"
      BY <2>2, <2>3, <2>6, <3>2 DEF ByAddon, FlowRec
    <3>3. CASE op \notin {"script_intercept", "mock"}
      BY <2>2, <2>3, <2>5, <3>3 DEF ByAddon, FlowRec, Intercepted
    <3> QED BY <3>1, <3>2, <3>3
  <2> QED BY <2>2, <2>3, <2>4, <2>7 DEF judged
<1>3. /\ stage[f] \in {"new", "sent"}
      /\ stage' = [stage EXCEPT ![f] = IF stage[f] = "new" THEN "request" ELSE "response"]
      /\ task' = [task EXCEPT ![f] = "addons"]
      /\ reverted' = reverted /\ scripted \subseteq scripted'
  BY DEF BeginHook
<1>4. NoLostWakeup' /\ StuckOnlyByKillOrRevert'
  BY <1>2, <1>3 DEF IInv, TypeOK, NoLostWakeup, StuckOnlyByKillOrRevert
<1>5. TaskInHook'
  BY <1>3 DEF IInv, TypeOK, TaskInHook
<1>6. DeadIsKilled'
  BY <1>2, <1>3 DEF IInv, TypeOK, DeadIsKilled
<1>7. HeldNotSet' /\ NewHasNoEvent'
  BY <1>2, <1>3 DEF IInv, TypeOK, HeldNotSet, NewHasNoEvent
<1> QED BY <1>1, <1>4, <1>5, <1>6, <1>7 DEF IInv

\* What a user does to a flow with its own methods: whoever sets the event of
\* a waiting task wakes it, and only a kill clears intercepted without.
LEMMA ActIInv ==
    ASSUME IInv, NEW f \in Flows, NEW r \in FlowRec, NEW s, Act(f, r, s),
           r \in {Killed(flow[f]), Intercepted(flow[f]), Resumed(flow[f])},
           stage[f] # "new", stage' = stage, reverted' = reverted, scripted' = scripted
    PROVE  /\ NoLostWakeup' /\ StuckOnlyByKillOrRevert'
           /\ TaskInHook' /\ DeadIsKilled'
           /\ HeldNotSet' /\ NewHasNoEvent'
<1>1. /\ flow[f] \in FlowRec /\ task[f] \in Tasks
      /\ flow' = [flow EXCEPT ![f] = r] /\ task' = [task EXCEPT ![f] = Woken(task[f], r)]
      /\ flow \in [Flows -> FlowRec] /\ task \in [Flows -> Tasks]
  BY DEF IInv, TypeOK, Act
<1>2. task'[f] = "waiting" => task[f] = "waiting" /\ r.event # "set"
  BY <1>1 DEF Woken
<1>3. /\ task[f] = "waiting" => flow[f].event = "clear"
      /\ task[f] = "waiting" /\ ~flow[f].intercepted => flow[f].killed \/ f \in reverted
  BY DEF IInv, NoLostWakeup, StuckOnlyByKillOrRevert
<1>4. task'[f] = "waiting" => r.event = "clear"
  BY <1>1, <1>2, <1>3 DEF FlowRec, Killed, Intercepted, Resumed
<1>5. task'[f] = "waiting" /\ ~r.intercepted => r.killed \/ f \in reverted
  <2>1. CASE r = Killed(flow[f])
    BY <2>1, <1>1, FlowMethods
  <2>2. CASE r = Intercepted(flow[f])
    BY <2>2, <1>1 DEF FlowRec, Intercepted
  <2>3. CASE r = Resumed(flow[f])
    BY <2>3, <1>1, <1>2, <1>3 DEF FlowRec, Resumed
  <2> QED BY <2>1, <2>2, <2>3
<1>6. NoLostWakeup'
  BY <1>1, <1>4 DEF IInv, NoLostWakeup
<1>7. StuckOnlyByKillOrRevert'
  BY <1>1, <1>5 DEF IInv, StuckOnlyByKillOrRevert
<1>8. TaskInHook'
  BY <1>1 DEF IInv, TaskInHook, Woken
<1>9. DeadIsKilled'
  BY <1>1, FlowMethods DEF IInv, DeadIsKilled
<1>10. f \notin reverted \cup scripted /\ r.intercepted => r.event # "set"
  BY <1>1 DEF IInv, HeldNotSet, FlowRec, Killed, Intercepted, Resumed
<1>11. HeldNotSet' /\ NewHasNoEvent'
  BY <1>1, <1>10 DEF IInv, HeldNotSet, NewHasNoEvent
<1> QED BY <1>6, <1>7, <1>8, <1>9, <1>11

LEMMA NextIInv == IInv /\ [Next]_vars => IInv'
<1> SUFFICES ASSUME IInv, [Next]_vars PROVE IInv'
  OBVIOUS
<1>1. TypeOK /\ TypeOK'
  BY NextType DEF IInv
<1> USE DEF NoLostWakeup, StuckOnlyByKillOrRevert, TaskInHook, DeadIsKilled,
            HeldNotSet, NewHasNoEvent
<1>2. ASSUME NEW f \in Flows, Proxy(f) PROVE IInv'
  <2>1. CASE BeginHook(f)
    BY <2>1, BeginHookIInv
  <2>2. CASE AwaitResume(f)
    BY <1>1, <2>2 DEF IInv, TypeOK, FlowRec, AwaitResume, control, history
  <2>3. CASE CompleteHook(f)
    BY <1>1, <2>3 DEF IInv, TypeOK, FlowRec, CompleteHook, control, history
  <2> QED BY <1>2, <2>1, <2>2, <2>3 DEF Proxy
<1>3. ASSUME NEW f \in Flows, AutoResumeFires(f) PROVE IInv'
  BY <1>1, <1>3 DEF IInv, AutoResumeFires, history
<1>4. ASSUME NEW f \in Flows, User(f) PROVE IInv'
  <2>1. flow[f] \in FlowRec /\ stage[f] # "new"
    BY <1>1, <1>4 DEF TypeOK, User
  <2>2. /\ Killed(flow[f]) \in FlowRec /\ Intercepted(flow[f]) \in FlowRec
        /\ Resumed(flow[f]) \in FlowRec
    BY <2>1, FlowMethods
  <2>3. CASE UserResume(f) \/ UserUnpause(f)
    BY <1>1, <2>1, <2>2, <2>3, ActIInv DEF UserResume, UserUnpause, IInv, control, history
  <2>4. CASE UserKill(f) \/ UserBlock(f)
    BY <1>1, <2>1, <2>2, <2>4, ActIInv DEF UserKill, UserBlock, IInv, control, history
  <2>5. CASE UserPause(f) \/ UserInterceptAll(f)
    BY <1>1, <2>1, <2>2, <2>5, ActIInv DEF UserPause, UserInterceptAll, IInv, control, history
  <2>6. CASE UserEdit(f)
    BY <1>1, <2>6 DEF UserEdit, IInv, control, history
  <2>7. CASE UserRevert(f)
    BY <1>1, <2>7 DEF UserRevert, IInv, TypeOK, FlowRec
  <2> QED BY <1>4, <2>3, <2>4, <2>5, <2>6, <2>7 DEF User
<1>5. ASSUME NEW c \in Domains \cup {Client}, UserUnpauseAll(c) PROVE IInv'
  BY <1>1, <1>5 DEF UserUnpauseAll, IInv, history
<1>6. CASE UNCHANGED vars
  BY <1>1, <1>6 DEF vars, IInv
<1> QED BY <1>2, <1>3, <1>4, <1>5, <1>6 DEF Next

THEOREM FlowInvariance == Spec => []IInv
BY InitIInv, NextIInv, PTL DEF Spec

-----------------------------------------------------------------------------

\* No wake-up is lost, whatever addons and users do to a flow in whatever order.
THEOREM NoLostWakeupHolds == Spec => []NoLostWakeup
<1>1. IInv => NoLostWakeup
  BY DEF IInv
<1> QED BY <1>1, FlowInvariance, PTL

\* Only kill and revert can leave a task waiting that no resume wakes.
THEOREM StuckOnlyHolds == Spec => []StuckOnlyByKillOrRevert
<1>1. IInv => StuckOnlyByKillOrRevert
  BY DEF IInv
<1> QED BY <1>1, FlowInvariance, PTL

\* A hook that is completed for a killed flow ends in an error, and no other
\* step of the proxy is a step beyond its hook.
LEMMA StepKilledNotForwarded ==
    ASSUME IInv, [Next]_vars, NEW f \in Flows \ reverted,
           ~flow[f].live, stage'[f] # stage[f]
    PROVE  stage'[f] \notin {"sent", "done"}
<1> USE DEF IInv, TypeOK
<1>1. ASSUME NEW g \in Flows, BeginHook(g) PROVE stage'[f] \notin {"sent", "done"}
  BY <1>1 DEF BeginHook
<1>2. ASSUME NEW g \in Flows, CompleteHook(g) PROVE stage'[f] \notin {"sent", "done"}
  <2>1. f = g
    BY <1>2 DEF CompleteHook
  <2>2. flow[f].killed
    BY <1>2, <2>1 DEF CompleteHook, TaskInHook, DeadIsKilled
  <2> QED BY <1>2, <2>1, <2>2 DEF CompleteHook
<1>3. ASSUME NEW g \in Flows, AwaitResume(g) \/ AutoResumeFires(g) \/ User(g)
      PROVE  stage' = stage
  BY <1>3 DEF AwaitResume, AutoResumeFires, User, UserResume, UserKill, UserPause,
      UserUnpause, UserBlock, UserInterceptAll, UserEdit, UserRevert
<1>4. ASSUME NEW c \in Domains \cup {Client}, UserUnpauseAll(c) PROVE stage' = stage
  BY <1>4 DEF UserUnpauseAll
<1>5. CASE UNCHANGED vars
  BY <1>5 DEF vars
<1> QED BY <1>1, <1>2, <1>3, <1>4, <1>5 DEF Next, Proxy

\* A killed flow goes no further.
THEOREM KilledNotForwardedHolds == Spec => KilledNotForwarded
<1> DEFINE A == \A f \in Flows \ reverted : ~flow[f].live /\ stage'[f] # stage[f]
                    => stage'[f] \notin {"sent", "done"}
<1>1. IInv /\ [Next]_vars => A
  BY StepKilledNotForwarded
<1>2. A => [A]_vars
  OBVIOUS
<1> HIDE DEF A
<1>3. Spec => [][A]_vars
  BY <1>1, FlowInvariance, PTL DEF Spec
<1> QED BY <1>3 DEF A, KilledNotForwarded

\* wait_for_resume blocks for a flow that is held: its event is not set.
LEMMA StepHeldUntilResumed ==
    ASSUME IInv, [Next]_vars, NEW f \in Flows \ (reverted \cup scripted),
           task[f] = "addons", flow[f].intercepted
    PROVE  task'[f] \in {"addons", "waiting"}
<1> USE DEF IInv, TypeOK
<1>1. ASSUME NEW g \in Flows, Proxy(g) PROVE task'[f] \in {"addons", "waiting"}
  <2>1. CASE BeginHook(g)
    BY <2>1 DEF BeginHook
  <2>2. CASE AwaitResume(g)
    BY <2>2 DEF AwaitResume, HeldNotSet, FlowRec
  <2>3. CASE CompleteHook(g)
    BY <2>3 DEF CompleteHook
  <2> QED BY <1>1, <2>1, <2>2, <2>3 DEF Proxy
<1>2. ASSUME NEW g \in Flows, User(g) PROVE task'[f] = "addons"
  <2>1. ASSUME NEW r, NEW s, Act(g, r, s) PROVE task'[f] = "addons"
    BY <2>1 DEF Act, Woken
  <2> QED BY <1>2, <2>1 DEF User, UserResume, UserKill, UserPause, UserUnpause,
             UserBlock, UserInterceptAll, UserEdit, UserRevert
<1>3. ASSUME NEW g \in Flows, AutoResumeFires(g) PROVE task' = task
  BY <1>3 DEF AutoResumeFires
<1>4. ASSUME NEW c \in Domains \cup {Client}, UserUnpauseAll(c) PROVE task' = task
  BY <1>4 DEF UserUnpauseAll
<1>5. CASE UNCHANGED vars
  BY <1>5 DEF vars
<1> QED BY <1>1, <1>2, <1>3, <1>4, <1>5 DEF Next

\* A flow that was intercepted when its hook task came to wait is held.
THEOREM HeldUntilResumedHolds == Spec => HeldUntilResumed
<1> DEFINE A == \A f \in Flows \ (reverted \cup scripted) :
                   task[f] = "addons" /\ flow[f].intercepted
                       => task'[f] \in {"addons", "waiting"}
<1>1. IInv /\ [Next]_vars => A
  BY StepHeldUntilResumed
<1>2. A => [A]_vars
  OBVIOUS
<1> HIDE DEF A
<1>3. Spec => [][A]_vars
  BY <1>1, FlowInvariance, PTL DEF Spec
<1> QED BY <1>3 DEF A, HeldUntilResumed

-----------------------------------------------------------------------------
(* The queue limit *)

\* A step that adds at most one flow to a set below the limit keeps the limit.
LEMMA OneMoreHeld ==
    ASSUME NEW A, NEW B, NEW f, IsFiniteSet(A), B \subseteq A \cup {f},
           Cardinality(A) <= MaxQueue, B \subseteq A \/ Cardinality(A) < MaxQueue
    PROVE  Cardinality(B) <= MaxQueue
<1>1. MaxQueue \in Nat /\ Cardinality(A) \in Nat
  BY ConfigAssumption, FS_CardinalityType
<1>2. CASE B \subseteq A
  <2>1. Cardinality(B) \in Nat /\ Cardinality(B) <= Cardinality(A)
    BY <1>2, FS_Subset, FS_CardinalityType
  <2>. QED  BY <2>1, <1>1
<1>3. CASE Cardinality(A) < MaxQueue
  <2>1. /\ IsFiniteSet(A \cup {f})
        /\ Cardinality(A \cup {f}) = Cardinality(A) \/ Cardinality(A \cup {f}) = Cardinality(A) + 1
    <3>1. IsFiniteSet(A \cup {f})
      BY FS_AddElement
    <3>2. CASE f \in A
      BY <3>1, <3>2, FS_AddElement
    <3>3. CASE f \notin A
      BY <3>1, <3>3, FS_AddElement
    <3>. QED  BY <3>1, <3>2, <3>3
  <2>2. Cardinality(B) \in Nat /\ Cardinality(B) <= Cardinality(A \cup {f})
    BY <2>1, FS_Subset, FS_CardinalityType
  <2>. QED  BY <2>1, <2>2, <1>1, <1>3
<1>. QED  BY <1>2, <1>3

\* As long as users neither pause flows nor intercept whole connections, what the addon
\* holds by itself stays within advanced_intercept_max_queue: the limit is looked at
\* whenever an entry is made, and no connection is paused past it.
THEOREM InterceptorQueueBoundedHolds ==
    ASSUME IsFiniteSet(Flows), UserOps \cap {"pause", "intercept_all"} = {}
    PROVE  Spec => []InterceptorQueueBounded
<1> DEFINE Bounded == pausedConns = {} /\ InterceptorQueueBounded
<1>1. Init => Bounded
  <2> SUFFICES ASSUME Init PROVE Bounded
    OBVIOUS
  <2>1. Held = {}
    BY DEF Init, Held
  <2>2. Cardinality(Held) = 0
    BY <2>1, FS_EmptySet
  <2>3. InterceptorQueueBounded
    BY <2>2, ConfigAssumption DEF InterceptorQueueBounded
  <2>. QED  BY <2>3 DEF Init
<1>2. TypeOK /\ Bounded /\ [Next]_vars => Bounded'
  <2> SUFFICES ASSUME TypeOK, Bounded, [Next]_vars PROVE Bounded'
    OBVIOUS
  <2>1. IsFiniteSet(Held) /\ Cardinality(Held) \in Nat /\ MaxQueue \in Nat
    BY FS_Subset, FS_CardinalityType, ConfigAssumption DEF Held
  <2>2. ASSUME NEW f \in Flows, pausedConns' = {}, Held' \subseteq Held \cup {f},
               Held' \subseteq Held \/ Cardinality(Held) < MaxQueue
        PROVE  Bounded'
    BY <2>1, <2>2, OneMoreHeld DEF InterceptorQueueBounded
  <2>3. ASSUME NEW f \in Flows, BeginHook(f) PROVE Bounded'
    <3>1. PICK verdict \in {"block", "pass", "pause"} :
            /\ verdict = "pause" => ~QueueFull
            /\ flowStates' = [flowStates EXCEPT ![f] =
                  CASE verdict = "block" /\ Killable(flow[f]) -> "blocked"
                    [] verdict = "pause" -> "paused"
                    [] OTHER -> @]
      <4>1. PICK pass \in BOOLEAN :
              flowStates' = [flowStates EXCEPT ![f] =
                  CASE Verdict(f, pass) = "block" /\ Killable(flow[f]) -> "blocked"
                    [] Verdict(f, pass) = "pause" -> "paused"
                    [] OTHER -> @]
        BY <2>3 DEF BeginHook
      <4>2. Verdict(f, pass) \in {"block", "pass", "pause"}
        BY ConfigAssumption DEF Verdict
      <4>3. Verdict(f, pass) = "pause" => ~QueueFull
        BY DEF Verdict, ShouldIntercept, Forced
      <4>. QED  BY <4>1, <4>2, <4>3
    <3>2. flowStates \in [Flows -> States] /\ pausedConns' = pausedConns
      BY <2>3 DEF TypeOK, BeginHook
    <3>3. Held' \subseteq Held \cup {f}
      BY <3>1, <3>2 DEF Held
    <3>4. CASE verdict = "pause"
      BY <3>1, <3>2, <3>3, <3>4, <2>1, <2>2 DEF QueueFull
    <3>5. CASE verdict # "pause"
      <4>1. Held' \subseteq Held
        BY <3>1, <3>2, <3>5 DEF Held
      <4>. QED  BY <3>2, <3>3, <4>1, <2>2
    <3>. QED  BY <3>4, <3>5
  <2>4. ASSUME NEW f \in Flows, AutoResumeFires(f) PROVE Bounded'
    <3>1. Held' \subseteq Held /\ pausedConns' = {}
      BY <2>4 DEF AutoResumeFires, Held, TypeOK
    <3>. QED  BY <3>1, <2>2
  <2>5. ASSUME NEW f \in Flows, User(f) PROVE Bounded'
    <3>1. Held' \subseteq Held /\ pausedConns' = {}
      <4>1. ~UserPause(f) /\ ~UserInterceptAll(f)
        BY DEF UserPause, UserInterceptAll
      <4>2. CASE UserResume(f) \/ UserKill(f)
        BY <4>2 DEF UserResume, UserKill, Act, control, Held, TypeOK
      <4>3. CASE UserUnpause(f) \/ UserBlock(f)
        BY <4>3 DEF UserUnpause, UserBlock, Act, control, Held, TypeOK
      <4>4. CASE UserEdit(f) \/ UserRevert(f)
        BY <4>4 DEF UserEdit, UserRevert, control, Held, TypeOK
      <4>. QED  BY <2>5, <4>1, <4>2, <4>3, <4>4 DEF User
    <3>. QED  BY <3>1, <2>2
  <2>6. CASE UNCHANGED <<flowStates, pausedConns>>
    BY <2>6 DEF InterceptorQueueBounded, Held
  <2>7. ASSUME NEW c \in Domains \cup {Client}, UserUnpauseAll(c) PROVE Bounded'
    BY <2>7 DEF UserUnpauseAll
  <2>8. ASSUME NEW f \in Flows, AwaitResume(f) \/ CompleteHook(f)
        PROVE  UNCHANGED <<flowStates, pausedConns>>
    BY <2>8 DEF AwaitResume, CompleteHook, control
  <2>9. UNCHANGED vars => UNCHANGED <<flowStates, pausedConns>>
    BY DEF vars
  <2>. QED  BY <2>3, <2>4, <2>5, <2>6, <2>7, <2>8, <2>9 DEF Next, Proxy
<1>. QED  BY <1>1, <1>2, FlowTypeCorrect, PTL DEF Spec

==============================================================================
