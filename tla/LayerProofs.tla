----------------------------- MODULE LayerProofs -----------------------------
(***************************************************************************)
(* Proofs about Layer.tla, for any sets of events and commands: the layer   *)
(* is well typed, handles its events in FIFO order without losing one until *)
(* a handler raises, and implements the abstract mailbox.                   *)
(*                                                                          *)
(* And about Relay.tla, the layers that relay messages, for any number of   *)
(* messages: its types, and that the layer is the pair of channels of       *)
(* Channels.tla.                                                            *)
(***************************************************************************)
EXTENDS Layer, Relay, SequenceLemmas, TLAPS

\* The inductive invariant.  Fifo alone is not inductive: an event handled
\* directly is appended to begun behind events that might still be queued.
\* NothingStranded rules that out, and is itself preserved only because a
\* generator running in handle_event's own loop started from an empty queue,
\* and keeps it empty because nothing is queued while a generator runs.  Once a
\* handler has raised nothing of this is left but the bookkeeping of the generator.
IInv ==
    /\ TypeOK
    /\ Fifo
    /\ NothingStranded
    /\ (mode = "handling" /\ ~raised) => queue = <<>>
    /\ (mode # "idle" \/ paused # None) => generator # None
    /\ (mode = "idle" /\ paused = None) => generator = None
    /\ mode # "idle" => paused = None

------------------------------------------------------------------------------

\* Type correctness, also when handlers raise.
THEOREM TypeCorrect == Spec => []TypeOK
<1>1. Init => TypeOK
  BY EmptySeq DEF Init, TypeOK, Modes
<1>2. TypeOK /\ [Next]_vars => TypeOK'
  <2> SUFFICES ASSUME TypeOK, [Next]_vars PROVE TypeOK'
    OBVIOUS
  <2> USE DEF TypeOK, Modes
  <2>1. ASSUME NEW e \in Events, HandleEvent(e) PROVE TypeOK'
    BY <2>1 DEF HandleEvent
  <2>2. ASSUME NEW e \in Events, QueueEvent(e) PROVE TypeOK'
    BY <2>2 DEF QueueEvent
  <2>3. ASSUME NEW c \in Commands, Continue(c) PROVE TypeOK'
    BY <2>3 DEF Continue
  <2>4. ASSUME NEW c \in Commands, YieldBlocking(c) PROVE TypeOK'
    BY <2>4 DEF YieldBlocking
  <2>5. CASE FinishHandling
    BY <2>5 DEF FinishHandling
  <2>6. CASE FinishContinuing
    BY <2>6 DEF FinishContinuing
  <2>7. CASE ReplayQueued
    <3>1. Head(queue) \in Events /\ Tail(queue) \in Seq(Events)
      BY <2>7, HeadTailProperties DEF ReplayQueued
    <3>. QED  BY <2>7, <3>1 DEF ReplayQueued
  <2>8. CASE Raise
    BY <2>8 DEF Raise
  <2>9. CASE UNCHANGED vars
    BY <2>9 DEF vars
  <2>. QED
    BY <2>1, <2>2, <2>3, <2>4, <2>5, <2>6, <2>7, <2>8, <2>9 DEF Next, Arrive, Finish
<1>. QED  BY <1>1, <1>2, PTL DEF Spec

LEMMA InitIInv == Init => IInv
<1>1. Init => TypeOK
  BY EmptySeq DEF Init, TypeOK, Modes
<1>2. <<>> \o <<>> = <<>>
  BY EmptySeq, ConcatEmptySeq
<1>. QED  BY <1>1, <1>2 DEF Init, IInv, Fifo, NothingStranded

LEMMA NextIInv == IInv /\ [Next]_vars => IInv'
<1> SUFFICES ASSUME IInv, [Next]_vars PROVE IInv'
  OBVIOUS
<1> USE NoneAssumption DEF IInv, TypeOK, Modes, Fifo, NothingStranded
<1>1. ASSUME NEW e \in Events, HandleEvent(e) PROVE IInv'
  <2>1. ~raised => queue = <<>> /\ begun = arrived
    BY <1>1, ConcatProperties DEF HandleEvent
  <2>2. ~raised => Append(begun, e) \o <<>> = Append(arrived, e)
    BY <2>1, ConcatEmptySeq
  <2>. QED  BY <1>1, <2>1, <2>2 DEF HandleEvent
<1>2. ASSUME NEW e \in Events, QueueEvent(e) PROVE IInv'
  <2>1. ~raised => begun \o Append(queue, e) = Append(arrived, e)
    BY ConcatAppend
  <2>. QED  BY <1>2, <2>1 DEF QueueEvent
<1>3. ASSUME NEW c \in Commands, Continue(c) PROVE IInv'
  BY <1>3 DEF Continue
<1>4. ASSUME NEW c \in Commands, YieldBlocking(c) PROVE IInv'
  BY <1>4 DEF YieldBlocking
<1>5. CASE FinishHandling
  BY <1>5 DEF FinishHandling
<1>6. CASE FinishContinuing
  BY <1>6 DEF FinishContinuing
<1>7. CASE ReplayQueued
  <2>1. Head(queue) \in Events /\ Tail(queue) \in Seq(Events)
    BY <1>7, HeadTailProperties DEF ReplayQueued
  <2>2. ~raised => Append(begun, Head(queue)) \o Tail(queue) = arrived
    BY <1>7, MoveHead DEF ReplayQueued
  <2>. QED  BY <1>7, <2>1, <2>2 DEF ReplayQueued
<1>8. CASE Raise
  BY <1>8 DEF Raise
<1>9. CASE UNCHANGED vars
  BY <1>9 DEF vars
<1>. QED
  BY <1>1, <1>2, <1>3, <1>4, <1>5, <1>6, <1>7, <1>8, <1>9 DEF Next, Arrive, Finish

THEOREM Invariance == Spec => []IInv
BY InitIInv, NextIInv, PTL DEF Spec

\* Until a handler raises, events are handled in arrival order, and none is lost or
\* handled twice.
THEOREM FifoHolds == Spec => []Fifo
<1>1. IInv => Fifo
  BY DEF IInv
<1>. QED  BY <1>1, Invariance, PTL

\* A layer that waits for nothing has no event left in its queue, until a handler raises.
THEOREM NothingStrandedHolds == Spec => []NothingStranded
<1>1. IInv => NothingStranded
  BY DEF IInv
<1>. QED  BY <1>1, Invariance, PTL

------------------------------------------------------------------------------

\* Raising or not, no event is lost and none is handled twice: the events begun and the
\* events queued are those that arrived, each once.
THEOREM EachOnceHolds == Spec => []EachOnce
<1>0. \A s : Elems(s) = Entries(s)
  BY DEF Elems, Entries
<1> DEFINE Once == Distinct(begun \o queue) /\ Entries(begun \o queue) = Entries(arrived)
<1>1. Init => Once
  BY EmptySeq, ConcatEmptySeq DEF Init, Distinct, Entries
<1>2. TypeOK /\ Once /\ [Next]_vars => Once'
  <2> SUFFICES ASSUME TypeOK, Once, [Next]_vars PROVE Once'
    OBVIOUS
  <2> USE DEF TypeOK
  <2>1. ASSUME NEW e \in Events, e \notin Elems(arrived), HandleEvent(e) PROVE Once'
    <3>1. begun' = Append(begun, e) /\ queue' = queue /\ arrived' = Append(arrived, e)
      BY <2>1 DEF HandleEvent
    <3>2. /\ Distinct(Append(begun, e) \o queue)
          /\ Entries(Append(begun, e) \o queue) = Entries(begun \o queue) \cup {e}
      BY <1>0, <2>1, InsertNew
    <3>3. Entries(Append(arrived, e)) = Entries(arrived) \cup {e}
      BY AppendNew
    <3>. QED  BY <3>1, <3>2, <3>3
  <2>2. ASSUME NEW e \in Events, e \notin Elems(arrived), QueueEvent(e) PROVE Once'
    <3>1. begun' = begun /\ queue' = Append(queue, e) /\ arrived' = Append(arrived, e)
      BY <2>2 DEF QueueEvent
    <3>2. begun \o Append(queue, e) = Append(begun \o queue, e)
      BY ConcatAppend
    <3>3. begun \o queue \in Seq(Events)
      BY ConcatProperties
    <3>4. /\ Distinct(Append(begun \o queue, e))
          /\ Entries(Append(begun \o queue, e)) = Entries(begun \o queue) \cup {e}
      <4> DEFINE all == begun \o queue
      <4>1. all \in Seq(Events) /\ Distinct(all) /\ e \notin Entries(all)
        BY <1>0, <2>2, <3>3
      <4> HIDE DEF all
      <4>2. Distinct(Append(all, e)) /\ Entries(Append(all, e)) = Entries(all) \cup {e}
        BY <4>1, AppendNew
      <4>. QED  BY <4>2 DEF all
    <3>5. Entries(Append(arrived, e)) = Entries(arrived) \cup {e}
      BY AppendNew
    <3>. QED  BY <3>1, <3>2, <3>4, <3>5
  <2>3. CASE ReplayQueued
    <3>1. Append(begun, Head(queue)) \o Tail(queue) = begun \o queue
      BY <2>3, MoveHead DEF ReplayQueued
    <3>. QED  BY <2>3, <3>1 DEF ReplayQueued
  <2>4. CASE UNCHANGED <<begun, queue, arrived>>
    BY <2>4
  <2>5. \/ \E e \in Events : e \notin Elems(arrived) /\ (HandleEvent(e) \/ QueueEvent(e))
        \/ ReplayQueued
        \/ UNCHANGED <<begun, queue, arrived>>
    BY DEF Next, Arrive, Finish, Continue, YieldBlocking, FinishHandling, FinishContinuing,
           Raise, vars
  <2>. QED  BY <2>1, <2>2, <2>3, <2>4, <2>5
<1>3. Once => EachOnce
  BY <1>0 DEF EachOnce, Distinct
<1>. QED  BY <1>1, <1>2, <1>3, TypeCorrect, PTL DEF Spec

------------------------------------------------------------------------------

\* Every step of the layer is a step of the mailbox or leaves it alone.
LEMMA StepRefines == IInv /\ [Next]_vars => [Mail!Next]_(Mail!vars)
<1> SUFFICES ASSUME IInv, [Next]_vars PROVE [Mail!Next]_(Mail!vars)
  OBVIOUS
<1> USE DEF IInv, NothingStranded, Mail!vars
<1>1. ASSUME NEW e \in Events, HandleEvent(e) PROVE Mail!Begin(e)
  BY <1>1 DEF HandleEvent, Mail!Begin
<1>2. ASSUME NEW e \in Events, QueueEvent(e) PROVE Mail!Wait(e)
  BY <1>2 DEF QueueEvent, Mail!Wait
<1>3. ASSUME NEW c \in Commands, Continue(c) \/ YieldBlocking(c)
      PROVE  UNCHANGED Mail!vars
  BY <1>3 DEF Continue, YieldBlocking
<1>4. CASE Finish
  <2>1. CASE FinishHandling
    BY <2>1 DEF FinishHandling, Mail!Rest, Mail!Next
  <2>2. CASE FinishContinuing
    BY <2>2 DEF FinishContinuing, Mail!Rest, Mail!Next
  <2>3. CASE ReplayQueued
    BY <2>3 DEF ReplayQueued, Mail!Proceed, Mail!Next
  <2>. QED  BY <1>4, <2>1, <2>2, <2>3 DEF Finish
<1>5. CASE Raise
  BY <1>5 DEF Raise, Mail!Break, Mail!Next
<1>6. CASE UNCHANGED vars
  BY <1>6 DEF vars
<1>. QED  BY <1>1, <1>2, <1>3, <1>4, <1>5, <1>6 DEF Next, Arrive, Mail!Next

\* A layer implements a serial FIFO mailbox that an exception breaks.
THEOREM LayerImplementsMailbox == Spec => Serial
<1>1. Init => Mail!Init
  BY DEF Init, Mail!Init
<1>. QED  BY <1>1, StepRefines, Invariance, PTL DEF Spec, Serial, Mail!Spec

------------------------------------------------------------------------------
(* The layers that relay messages. *)

\* A relay layer with the state of its connections, as the operators of Relay take it.
Relays == [r : Layer, state : [Sides -> SUBSET Open]]

RelayHooks == {"start", "message", "error", "end"}

\* What an operator that yields no SendData leaves alone.
Same(x, y) ==
    /\ y.r.flow = x.r.flow /\ y.r.linked = x.r.linked
    /\ y.r.queue = x.r.queue /\ y.r.taken = x.r.taken
    /\ y.r.passed = x.r.passed /\ y.r.crashed = x.r.crashed

------------------------------------------------------------------------------
(* What the operators do. *)

LEMMA Sides2 ==
    /\ \A s \in Sides : Other(s) \in Sides /\ Other(s) # s
    /\ \A s, t \in Sides : t # s => t = Other(s)
BY DEF Sides, Other

LEMMA EventTypes ==
    /\ NoEvent \in RelayEvents
    /\ \A s \in Sides : Close(s) \in RelayEvents
    /\ \A s \in Sides, n \in Nat : Numbered(s, n) \in RelayEvents
BY DEF NoEvent, Close, Numbered, RelayEvents, Sides

LEMMA PauseDoes ==
    ASSUME NEW x \in Relays, NEW at \in {"none", "start", "open", "message", "error", "end"},
           NEW y, y = Pause(x, at)
    PROVE  /\ y \in Relays /\ Same(x, y) /\ y.state = x.state
           /\ y.r.at = at /\ ~y.r.draining
           /\ y.r.phase = x.r.phase /\ y.r.event = x.r.event /\ y.r.hooks = x.r.hooks
BY DEF Relays, Layer, Pause, Same

LEMMA HookDoes ==
    ASSUME NEW x \in Relays, NEW name \in RelayHooks, NEW y, y = Hook(x, name)
    PROVE  /\ y \in Relays /\ Same(x, y) /\ y.state = x.state
           /\ y.r.at = name /\ ~y.r.draining
           /\ y.r.phase = x.r.phase /\ y.r.event = x.r.event
<1> DEFINE p == Pause(x, name)
<1>1. /\ p \in Relays /\ Same(x, p) /\ p.state = x.state
      /\ p.r.at = name /\ ~p.r.draining
      /\ p.r.phase = x.r.phase /\ p.r.event = x.r.event
  BY PauseDoes DEF RelayHooks
<1>2. y = [p EXCEPT !.r.hooks[name] = @ + 1]
  BY DEF Hook
<1> HIDE DEF p
<1>3. p.r \in Layer /\ p.r.hooks \in [RelayHooks -> Nat] /\ p.state \in [Sides -> SUBSET Open]
      /\ p = [r |-> p.r, state |-> p.state]
  BY <1>1 DEF Relays, Layer, RelayHooks
<1> DEFINE h == [p.r.hooks EXCEPT ![name] = @ + 1]
           l == [p.r EXCEPT !.hooks = h]
<1>4. h \in [RelayHooks -> Nat]
  BY <1>3
<1>5. y = [p EXCEPT !.r = l]
  BY <1>2, <1>3
<1> HIDE DEF h
<1>6. l \in Layer /\ l.flow = p.r.flow /\ l.linked = p.r.linked /\ l.queue = p.r.queue
      /\ l.taken = p.r.taken /\ l.passed = p.r.passed /\ l.crashed = p.r.crashed
      /\ l.at = p.r.at /\ l.draining = p.r.draining /\ l.phase = p.r.phase
      /\ l.event = p.r.event
  BY <1>3, <1>4 DEF Layer, RelayHooks
<1> HIDE DEF l
<1>. QED  BY <1>1, <1>3, <1>5, <1>6 DEF Relays, Same

LEMMA CloseConnectionsDoes ==
    ASSUME NEW x \in Relays, NEW sides \in SUBSET Sides, NEW y, y = CloseConnections(x, sides)
    PROVE  y \in Relays /\ Same(x, y) /\ y.r = x.r
<1>1. [s \in Sides |-> IF s \in sides THEN Closed ELSE x.state[s]] \in [Sides -> SUBSET Open]
  BY DEF Relays, Closed
<1>. QED  BY <1>1 DEF Relays, CloseConnections, Same

LEMMA HalfCloseDoes ==
    ASSUME NEW x \in Relays, NEW s \in Sides, NEW y, y = HalfClose(x, s)
    PROVE  /\ y \in Relays /\ Same(x, y) /\ y.r = x.r
           /\ \A t \in Sides : "read" \in x.state[t] => "read" \in y.state[t]
BY DEF Relays, HalfClose, Same

LEMMA SendDoes ==
    ASSUME NEW x \in Relays, NEW e \in RelayEvents, NEW y, y = Send(x, e)
    PROVE  /\ y \in Relays /\ y.state = x.state
           /\ y.r.phase = x.r.phase /\ y.r.at = x.r.at /\ y.r.flow = x.r.flow
           /\ y.r.linked = x.r.linked /\ y.r.queue = x.r.queue /\ y.r.taken = x.r.taken
           /\ y.r.event = x.r.event
           /\ \/ y.r.crashed
              \/ /\ y.r.passed = [x.r.passed EXCEPT ![e.side] = Append(@, e.n)]
                 /\ y.r.crashed = x.r.crashed /\ y.r.draining = x.r.draining
<1>1. CASE x.state[Other(e.side)] = {"read"}
  BY <1>1 DEF Relays, Layer, Send
<1>2. CASE x.state[Other(e.side)] # {"read"}
  <2>1. e.side \in Sides /\ e.n \in Nat
    BY DEF RelayEvents
  <2>2. [x.r.passed EXCEPT ![e.side] = Append(@, e.n)] \in [Sides -> Seq(Nat)]
    BY <2>1 DEF Relays, Layer
  <2>. QED  BY <1>2, <2>2 DEF Relays, Layer, Send
<1>. QED  BY <1>1, <1>2

LEMMA ContinuedDoes ==
    ASSUME NEW x \in Relays, NEW y, y = Continued(x)
    PROVE  /\ y \in Relays /\ Same(x, y) /\ y.state = x.state
           /\ y.r.at = "none" /\ y.r.event = NoEvent /\ y.r.draining
           /\ y.r.phase = x.r.phase /\ y.r.hooks = x.r.hooks
BY EventTypes DEF Relays, Layer, Continued, Same

LEMMA ConnectDoes ==
    ASSUME NEW x \in Relays, NEW y, y = Connect(x)
    PROVE  /\ y \in Relays /\ Same(x, y) /\ y.state = x.state /\ y.r.event = x.r.event
           /\ IF x.r.linked
              THEN y.r.phase = "relay" /\ y.r.at = x.r.at /\ y.r.draining = x.r.draining
              ELSE y.r.phase = x.r.phase /\ y.r.at = "open" /\ ~y.r.draining
<1>1. CASE x.r.linked
  BY <1>1 DEF Relays, Layer, Connect, Same
<1>2. CASE ~x.r.linked
  BY <1>2, PauseDoes DEF Connect
<1>. QED  BY <1>1, <1>2

\* The relay has ended, or its last hook is running.
Cut(r) == r.phase = "done" \/ r.at \in {"error", "end"}

LEMMA EndedDoes ==
    ASSUME NEW x \in Relays, NEW y, y = Ended(x)
    PROVE  /\ y \in Relays /\ Same(x, y) /\ y.state = x.state
           /\ y.r.phase = x.r.phase /\ y.r.event = x.r.event
           /\ IF x.r.flow THEN y.r.at = "end" /\ ~y.r.draining
              ELSE y.r.at = x.r.at /\ y.r.draining = x.r.draining
BY HookDoes DEF Ended, RelayHooks, Same

LEMMA PhaseDoes ==
    ASSUME NEW x \in Relays, NEW phase \in {"start", "relay", "done"},
           NEW y, y = [x EXCEPT !.r.phase = phase]
    PROVE  /\ y \in Relays /\ Same(x, y) /\ y.state = x.state
           /\ y.r.phase = phase /\ y.r.at = x.r.at /\ y.r.draining = x.r.draining
           /\ y.r.event = x.r.event
BY DEF Relays, Layer, Same

Kinds == {"tcp", "udp", "websocket"}

\* The layer ends at a close.
Finishes(x, y) ==
    /\ Same(x, y) /\ y.r.event = x.r.event
    /\ y.r.phase = "done" \/ (kind = "websocket" /\ y.r.phase = x.r.phase /\ y.r.at = "end")
    /\ \/ y.r.at = "end" /\ ~y.r.draining
       \/ y.r.at = x.r.at /\ y.r.draining = x.r.draining

LEMMA TcpClosedDoes ==
    ASSUME NEW x \in Relays, NEW e \in RelayEvents, NEW y, y = TcpClosed(x, e)
    PROVE  /\ y \in Relays
           /\ \/ Finishes(x, y) /\ \A s \in Sides : "read" \notin x.state[s]
              \/ /\ y.r = x.r
                 /\ \A s \in Sides : "read" \in x.state[s] => "read" \in y.state[s]
<1>1. CASE AllDone(x)
  <2> DEFINE d == [x EXCEPT !.r.phase = "done"]
             c == CloseConnections(d, Sides)
  <2>1. d \in Relays /\ Same(x, d) /\ d.r.phase = "done" /\ d.r.at = x.r.at
        /\ d.r.draining = x.r.draining /\ d.r.event = x.r.event
    BY PhaseDoes
  <2> HIDE DEF d
  <2>2. c \in Relays /\ c.r = d.r
    BY <2>1, CloseConnectionsDoes
  <2> HIDE DEF c
  <2>3. y = Ended(c)
    BY <1>1 DEF TcpClosed, c, d
  <2>. QED  BY <1>1, <2>1, <2>2, <2>3, EndedDoes DEF AllDone, Finishes, Same
<1>2. CASE ~AllDone(x)
  <2>1. Other(e.side) \in Sides
    BY Sides2 DEF RelayEvents
  <2>. QED  BY <1>2, <2>1, HalfCloseDoes DEF TcpClosed
<1>. QED  BY <1>1, <1>2

LEMMA UdpClosedDoes ==
    ASSUME NEW x \in Relays, NEW e \in RelayEvents, NEW y, y = UdpClosed(x, e)
    PROVE  y \in Relays /\ Finishes(x, y)
<1> DEFINE d == [x EXCEPT !.r.phase = "done"]
           c == CloseConnections(d, {Other(e.side)})
<1>1. d \in Relays /\ Same(x, d) /\ d.r.phase = "done" /\ d.r.at = x.r.at
      /\ d.r.draining = x.r.draining /\ d.r.event = x.r.event
  BY PhaseDoes
<1> HIDE DEF d
<1>2. c \in Relays /\ c.r = d.r
  <2>1. {Other(e.side)} \in SUBSET Sides
    BY Sides2 DEF RelayEvents
  <2>. QED  BY <1>1, <2>1, CloseConnectionsDoes
<1> HIDE DEF c
<1>3. y = Ended(c)
  BY DEF UdpClosed, c, d
<1>. QED  BY <1>1, <1>2, <1>3, EndedDoes DEF Finishes, Same

LEMMA WebSocketClosedDoes ==
    ASSUME NEW x \in Relays, kind = "websocket", x.r.flow, NEW y, y = WebSocketClosed(x)
    PROVE  y \in Relays /\ Finishes(x, y)
<1> DEFINE c == CloseConnections(x, Sides)
<1>1. c \in Relays /\ c.r = x.r
  BY CloseConnectionsDoes
<1> HIDE DEF c
<1>2. y = Ended(c)
  BY DEF WebSocketClosed, c
<1>3. /\ y \in Relays /\ Same(c, y) /\ y.r.phase = c.r.phase /\ y.r.event = c.r.event
      /\ y.r.at = "end" /\ ~y.r.draining
  BY <1>1, <1>2, EndedDoes
<1>. QED  BY <1>1, <1>3 DEF Finishes, Same

\* A message goes to its hook.
Holds(x, e, y) ==
    /\ Same(x, y) /\ y.state = x.state
    /\ y.r.phase = x.r.phase /\ y.r.at = "message" /\ y.r.event = e /\ ~y.r.draining

\* What becomes of an event that is handled.
LEMMA HandleDoes ==
    ASSUME NEW x \in Relays, NEW e \in RelayEvents, kind \in Kinds,
           kind = "websocket" => x.r.flow, NEW y, y = Handle(x, e)
    PROVE  /\ y \in Relays
           /\ \/ x.r.phase = "done" /\ y = x
              \/ x.r.phase # "done" /\ e.type = "data" /\ Holds(x, e, y)
              \/ x.r.phase # "done" /\ e.type = "data" /\ y = Send(x, e)
              \/ /\ x.r.phase # "done" /\ e.type = "closed" /\ Finishes(x, y)
                 /\ kind = "tcp" => \A s \in Sides : "read" \notin x.state[s]
              \/ /\ x.r.phase # "done" /\ e.type = "closed" /\ kind = "tcp" /\ y.r = x.r
                 /\ \A s \in Sides : "read" \in x.state[s] => "read" \in y.state[s]
<1>1. CASE x.r.phase = "done"
  BY <1>1 DEF Handle
<1>2. CASE x.r.phase # "done" /\ e.type = "data"
  <2>1. y = Message(x, e)
    BY <1>2 DEF Handle
  <2>2. CASE x.r.flow
    <3> DEFINE h == [x EXCEPT !.r.event = e]
    <3>1. h \in Relays /\ Same(x, h) /\ h.state = x.state /\ h.r.phase = x.r.phase
          /\ h.r.event = e
      BY DEF Relays, Layer, Same
    <3>2. y = Hook(h, "message")
      BY <2>1, <2>2 DEF Message
    <3> HIDE DEF h
    <3>. QED  BY <1>2, <3>1, <3>2, HookDoes DEF RelayHooks, Holds, Same
  <2>3. CASE ~x.r.flow
    BY <1>2, <2>1, <2>3, SendDoes DEF Message
  <2>. QED  BY <2>2, <2>3
<1>3. CASE x.r.phase # "done" /\ e.type = "closed"
  <2>1. CASE kind = "tcp"
    BY <1>3, <2>1, TcpClosedDoes DEF Handle
  <2>2. CASE kind = "udp"
    BY <1>3, <2>2, UdpClosedDoes DEF Handle
  <2>3. CASE kind = "websocket"
    BY <1>3, <2>3, WebSocketClosedDoes DEF Handle
  <2>. QED  BY <2>1, <2>2, <2>3 DEF Kinds
<1>. QED  BY <1>1, <1>2, <1>3 DEF RelayEvents

------------------------------------------------------------------------------
(* Messages in a queue. *)

IsData(e, s) == e.type = "data" /\ e.side = s

\* The queue holds the messages of s numbered lo + 1 .. hi, each once, in this order.
InOrder(q, s, lo, hi) ==
    /\ \A i \in DOMAIN q : IsData(q[i], s) => q[i].n \in lo + 1 .. hi
    /\ \A i, j \in DOMAIN q : i < j /\ IsData(q[i], s) /\ IsData(q[j], s) => q[i].n < q[j].n
    /\ \A n \in lo + 1 .. hi : \E i \in DOMAIN q : IsData(q[i], s) /\ q[i].n = n

LEMMA NothingInOrder ==
    ASSUME NEW s, NEW lo \in Nat, NEW hi \in Nat, lo <= hi
    PROVE  InOrder(<<>>, s, lo, hi) <=> lo = hi
BY DEF InOrder

LEMMA InOrderAppend ==
    ASSUME NEW q \in Seq(RelayEvents), NEW s, NEW lo \in Nat, NEW hi \in Nat, lo <= hi,
           InOrder(q, s, lo, hi), NEW e \in RelayEvents
    PROVE  /\ ~IsData(e, s) => InOrder(Append(q, e), s, lo, hi)
           /\ IsData(e, s) /\ e.n = hi + 1 => InOrder(Append(q, e), s, lo, hi + 1)
<1> DEFINE p == Append(q, e)
<1>1. /\ Len(q) \in Nat /\ DOMAIN q = 1 .. Len(q) /\ DOMAIN p = 1 .. Len(q) + 1
      /\ \A i \in 1 .. Len(q) : p[i] = q[i]
      /\ p[Len(q) + 1] = e
  OBVIOUS
<1>2. \A i \in DOMAIN q : q[i].n \in Nat
  <2>1. \A i \in DOMAIN q : q[i] \in RelayEvents
    OBVIOUS
  <2>. QED  BY <2>1 DEF RelayEvents
<1> HIDE DEF p
<1>3. ASSUME ~IsData(e, s) PROVE InOrder(p, s, lo, hi)
  BY <1>1, <1>3 DEF InOrder
<1>4. ASSUME IsData(e, s), e.n = hi + 1 PROVE InOrder(p, s, lo, hi + 1)
  <2>1. ASSUME NEW i \in DOMAIN p, IsData(p[i], s) PROVE p[i].n \in lo + 1 .. hi + 1
    BY <1>1, <1>2, <1>4, <2>1 DEF InOrder
  <2>2. ASSUME NEW i \in DOMAIN p, NEW j \in DOMAIN p, i < j, IsData(p[i], s), IsData(p[j], s)
        PROVE  p[i].n < p[j].n
    <3>1. i \in DOMAIN q /\ p[i] = q[i] /\ q[i].n <= hi
      BY <1>1, <2>2 DEF InOrder
    <3>. QED  BY <1>1, <1>2, <1>4, <2>2, <3>1 DEF InOrder
  <2>3. ASSUME NEW n \in lo + 1 .. hi + 1
        PROVE  \E i \in DOMAIN p : IsData(p[i], s) /\ p[i].n = n
    <3>1. CASE n = hi + 1
      BY <1>1, <1>4, <3>1
    <3>2. CASE n # hi + 1
      <4>1. n \in lo + 1 .. hi
        BY <3>2
      <4>2. PICK i \in DOMAIN q : IsData(q[i], s) /\ q[i].n = n
        BY <4>1 DEF InOrder
      <4>. QED  BY <1>1, <4>2
    <3>. QED  BY <3>1, <3>2
  <2>. QED  BY <2>1, <2>2, <2>3 DEF InOrder
<1>. QED  BY <1>3, <1>4 DEF p

LEMMA InOrderTail ==
    ASSUME NEW q \in Seq(RelayEvents), q # <<>>, NEW s, NEW lo \in Nat, NEW hi \in Nat,
           InOrder(q, s, lo, hi)
    PROVE  /\ ~IsData(Head(q), s) => InOrder(Tail(q), s, lo, hi)
           /\ IsData(Head(q), s) =>
                 Head(q).n = lo + 1 /\ lo + 1 <= hi /\ InOrder(Tail(q), s, lo + 1, hi)
<1> DEFINE t == Tail(q)
           e == Head(q)
<1>1. /\ Len(q) \in Nat \ {0} /\ DOMAIN q = 1 .. Len(q) /\ DOMAIN t = 1 .. Len(q) - 1
      /\ \A i \in 1 .. Len(q) - 1 : t[i] = q[i + 1]
      /\ e = q[1]
  OBVIOUS
<1>2. \A i \in DOMAIN q : q[i].n \in Nat
  <2>1. \A i \in DOMAIN q : q[i] \in RelayEvents
    OBVIOUS
  <2>. QED  BY <2>1 DEF RelayEvents
<1> HIDE DEF t, e
<1>3. \A i \in DOMAIN t : i + 1 \in DOMAIN q /\ t[i] = q[i + 1]
  BY <1>1
<1>4. \A i \in DOMAIN q : i = 1 \/ (i - 1 \in DOMAIN t /\ t[i - 1] = q[i])
  BY <1>1
<1>5. ASSUME NEW i \in DOMAIN t, NEW j \in DOMAIN t, i < j, IsData(t[i], s), IsData(t[j], s)
      PROVE  t[i].n < t[j].n
  <2>1. i + 1 \in DOMAIN q /\ j + 1 \in DOMAIN q /\ i + 1 < j + 1
    BY <1>1, <1>5
  <2>. QED  BY <1>3, <1>5, <2>1 DEF InOrder
<1>6. ASSUME ~IsData(e, s) PROVE InOrder(t, s, lo, hi)
  <2>1. \A i \in DOMAIN t : IsData(t[i], s) => t[i].n \in lo + 1 .. hi
    BY <1>3 DEF InOrder
  <2>2. ASSUME NEW n \in lo + 1 .. hi PROVE \E i \in DOMAIN t : IsData(t[i], s) /\ t[i].n = n
    <3>1. PICK i \in DOMAIN q : IsData(q[i], s) /\ q[i].n = n
      BY DEF InOrder
    <3>2. i # 1
      BY <1>1, <1>6, <3>1
    <3>. QED  BY <1>4, <3>1, <3>2
  <2>. QED  BY <1>5, <2>1, <2>2 DEF InOrder
<1>7. ASSUME IsData(e, s) PROVE e.n = lo + 1 /\ lo + 1 <= hi /\ InOrder(t, s, lo + 1, hi)
  <2>1. 1 \in DOMAIN q /\ e.n \in lo + 1 .. hi
    BY <1>1, <1>7 DEF InOrder
  <2>2. PICK i \in DOMAIN q : IsData(q[i], s) /\ q[i].n = lo + 1
    BY <2>1 DEF InOrder
  <2>3. i = 1
    <3>1. i # 1 => q[1].n < q[i].n
      BY <1>1, <1>7, <2>1, <2>2 DEF InOrder
    <3>. QED  BY <1>1, <2>1, <2>2, <3>1
  <2>4. e.n = lo + 1
    BY <1>1, <2>2, <2>3
  <2>5. ASSUME NEW j \in DOMAIN t, IsData(t[j], s) PROVE t[j].n \in lo + 2 .. hi
    <3>1. j + 1 \in DOMAIN q /\ t[j] = q[j + 1] /\ 1 < j + 1
      BY <1>1, <1>3
    <3>2. q[1].n < q[j + 1].n /\ q[j + 1].n \in lo + 1 .. hi
      BY <1>1, <1>7, <2>1, <2>5, <3>1 DEF InOrder
    <3>. QED  BY <1>1, <2>4, <3>1, <3>2
  <2>6. ASSUME NEW n \in lo + 2 .. hi PROVE \E j \in DOMAIN t : IsData(t[j], s) /\ t[j].n = n
    <3>1. PICK j \in DOMAIN q : IsData(q[j], s) /\ q[j].n = n
      BY DEF InOrder
    <3>2. j # 1
      BY <1>1, <2>4, <3>1
    <3>. QED  BY <1>4, <3>1, <3>2
  <2>. QED  BY <1>5, <2>1, <2>4, <2>5, <2>6 DEF InOrder
<1>. QED  BY <1>6, <1>7 DEF t, e

\* How many messages of s have been passed on when e has been dealt with.
Due(r, e, s) == Len(r.passed[s]) + (IF IsData(e, s) THEN 1 ELSE 0)

\* With e in hand, the queue holds what is still to be passed on, in order.
Numbers(r, e) ==
    \A s \in Sides :
        /\ Due(r, e, s) <= r.taken[s]
        /\ InOrder(r.queue, s, Due(r, e, s), r.taken[s])
        /\ IsData(e, s) => e.n = Due(r, e, s)

InHand(r) == IF r.at = "message" THEN r.event ELSE NoEvent

LEMMA Counts ==
    ASSUME NEW r \in Layer, NEW e \in RelayEvents, NEW s \in Sides
    PROVE  /\ r.queue \in Seq(RelayEvents) /\ r.taken[s] \in Nat /\ r.passed[s] \in Seq(Nat)
           /\ Len(r.passed[s]) \in Nat /\ Due(r, e, s) \in Nat
           /\ ~IsData(NoEvent, s) /\ Due(r, NoEvent, s) = Len(r.passed[s])
<1>1. /\ r.queue \in Seq(RelayEvents) /\ r.taken[s] \in Nat /\ r.passed[s] \in Seq(Nat)
  BY DEF Layer
<1>2. Len(r.passed[s]) \in Nat
  BY <1>1
<1>3. ~IsData(NoEvent, s)
  BY DEF NoEvent, Close, IsData
<1>4. Due(r, e, s) \in Nat /\ Due(r, NoEvent, s) = Len(r.passed[s])
  <2>1. \A n \in Nat : n + 0 = n /\ n + 1 \in Nat
    OBVIOUS
  <2>. QED  BY <1>2, <1>3, <2>1 DEF Due
<1>. QED  BY <1>1, <1>2, <1>3, <1>4

LEMMA NewMessage ==
    ASSUME NEW s \in Sides, NEW n \in Nat, NEW m, m = Numbered(s, n + 1)
    PROVE  /\ m \in RelayEvents /\ IsData(m, s) /\ m.n = n + 1
           /\ \A t \in Sides : IsData(m, t) => t = s
<1>1. n + 1 \in Nat
  OBVIOUS
<1>. QED  BY <1>1, EventTypes DEF Numbered, IsData

LEMMA SentNumbers ==
    ASSUME NEW r \in Layer, NEW q \in Layer, NEW e \in RelayEvents, e.type = "data", Numbers(r, e),
           q.passed = [r.passed EXCEPT ![e.side] = Append(@, e.n)],
           q.queue = r.queue, q.taken = r.taken
    PROVE  /\ Numbers(q, NoEvent)
           /\ e.n = Len(r.passed[e.side]) + 1 /\ e.n <= r.taken[e.side]
<1>1. e.side \in Sides /\ IsData(e, e.side) /\ e.n \in Nat
  BY DEF RelayEvents, IsData
<1>2. ASSUME NEW s \in Sides PROVE Due(q, NoEvent, s) = Due(r, e, s)
  <2>1. r.passed \in [Sides -> Seq(Nat)]
    BY DEF Layer
  <2>2. CASE s = e.side
    <3>1. q.passed[s] = Append(r.passed[s], e.n)
      BY <2>1, <2>2
    <3>2. Len(q.passed[s]) = Len(r.passed[s]) + 1
      BY <1>1, <3>1, Counts
    <3>. QED  BY <1>1, <2>2, <3>2, Counts DEF Due
  <2>3. CASE s # e.side
    <3>1. q.passed[s] = r.passed[s]
      BY <2>1, <2>3
    <3>. QED  BY <2>3, <3>1, Counts DEF Due, IsData
  <2>. QED  BY <2>2, <2>3
<1>. QED  BY <1>1, <1>2, Counts DEF Numbers, Due

LEMMA TakenNumbers ==
    ASSUME NEW r \in Layer, NEW q \in Layer, NEW s \in Sides, NEW e \in RelayEvents,
           Numbers(r, e), q.passed = r.passed,
           q.taken = [r.taken EXCEPT ![s] = @ + 1],
           q.queue = Append(r.queue, Numbered(s, r.taken[s] + 1))
    PROVE  Numbers(q, e)
<1> DEFINE m == Numbered(s, r.taken[s] + 1)
<1>1. m \in RelayEvents /\ IsData(m, s) /\ m.n = r.taken[s] + 1 /\ \A t \in Sides : IsData(m, t) => t = s
  <2>1. r.taken[s] \in Nat
    BY EventTypes, Counts
  <2>. QED  BY <2>1, NewMessage
<1>2. r.taken \in [Sides -> Nat]
  BY DEF Layer
<1> HIDE DEF m
<1>3. ASSUME NEW t \in Sides
      PROVE  /\ Due(q, e, t) <= q.taken[t] /\ InOrder(q.queue, t, Due(q, e, t), q.taken[t])
             /\ IsData(e, t) => e.n = Due(q, e, t)
  <2>1. Due(q, e, t) = Due(r, e, t)
    BY DEF Due
  <2>2. Due(r, e, t) <= r.taken[t] /\ InOrder(r.queue, t, Due(r, e, t), r.taken[t])
        /\ (IsData(e, t) => e.n = Due(r, e, t))
    BY DEF Numbers
  <2>3. /\ q.queue = Append(r.queue, m) /\ r.queue \in Seq(RelayEvents)
        /\ Due(r, e, t) \in Nat /\ r.taken[t] \in Nat
    BY Counts DEF m
  <2>4. CASE t = s
    <3>1. q.taken[t] = r.taken[t] + 1
      BY <1>2, <2>4
    <3>2. InOrder(q.queue, t, Due(r, e, t), r.taken[t] + 1)
      BY <1>1, <2>2, <2>3, <2>4, InOrderAppend
    <3>. QED  BY <2>1, <2>2, <2>3, <2>4, <3>1, <3>2
  <2>5. CASE t # s
    <3>1. q.taken[t] = r.taken[t]
      BY <1>2, <2>5
    <3>2. InOrder(q.queue, t, Due(r, e, t), r.taken[t])
      <4>1. ~IsData(m, t)
        BY <1>1, <2>5
      <4>2. m \in RelayEvents
        BY <1>1
      <4> DEFINE d == Due(r, e, t)
                 q0 == r.queue
                 h == r.taken[t]
      <4>3. q0 \in Seq(RelayEvents) /\ d \in Nat /\ h \in Nat /\ d <= h /\ InOrder(q0, t, d, h)
        BY <2>2, <2>3
      <4> HIDE DEF d, q0, h
      <4>4. InOrder(Append(q0, m), t, d, h)
        BY <4>1, <4>2, <4>3, InOrderAppend
      <4>. QED  BY <2>3, <4>4 DEF d, q0, h
    <3>. QED  BY <2>1, <2>2, <3>1, <3>2
  <2>. QED  BY <2>4, <2>5
<1>. QED  BY <1>3 DEF Numbers

LEMMA CloseQueuedNumbers ==
    ASSUME NEW r \in Layer, NEW q \in Layer, NEW s \in Sides, NEW e \in RelayEvents,
           Numbers(r, e), q.passed = r.passed, q.taken = r.taken,
           q.queue = Append(r.queue, Close(s))
    PROVE  Numbers(q, e)
<1>1. Close(s) \in RelayEvents /\ \A t \in Sides : ~IsData(Close(s), t)
  BY EventTypes DEF Close, IsData
<1>2. ASSUME NEW t \in Sides
      PROVE  /\ Due(q, e, t) = Due(r, e, t)
             /\ InOrder(q.queue, t, Due(r, e, t), r.taken[t])
  <2>1. r.queue \in Seq(RelayEvents) /\ Due(r, e, t) \in Nat /\ r.taken[t] \in Nat
    BY Counts
  <2>2. Due(r, e, t) <= r.taken[t] /\ InOrder(r.queue, t, Due(r, e, t), r.taken[t])
    BY DEF Numbers
  <2>. QED  BY <1>1, <2>1, <2>2, InOrderAppend DEF Due
<1>. QED  BY <1>2 DEF Numbers

LEMMA TakenAtOnceNumbers ==
    ASSUME NEW r \in Layer, NEW q \in Layer, NEW s \in Sides,
           Numbers(r, NoEvent), r.queue = <<>>, q.queue = <<>>, q.passed = r.passed,
           q.taken = [r.taken EXCEPT ![s] = @ + 1]
    PROVE  Numbers(q, Numbered(s, r.taken[s] + 1)) /\ Len(r.passed[s]) = r.taken[s]
<1> DEFINE m == Numbered(s, r.taken[s] + 1)
<1>1. m \in RelayEvents /\ IsData(m, s) /\ m.n = r.taken[s] + 1 /\ \A t \in Sides : IsData(m, t) => t = s
  <2>1. r.taken[s] \in Nat
    BY EventTypes, Counts
  <2>. QED  BY <2>1, NewMessage
<1>2. r.taken \in [Sides -> Nat]
  BY DEF Layer
<1> HIDE DEF m
<1>3. ASSUME NEW t \in Sides PROVE Len(r.passed[t]) = r.taken[t] /\ r.taken[t] \in Nat
  <2>1. /\ Due(r, NoEvent, t) = Len(r.passed[t])
        /\ Len(r.passed[t]) \in Nat /\ r.taken[t] \in Nat
    BY EventTypes, Counts
  <2>2. Len(r.passed[t]) <= r.taken[t] /\ InOrder(<<>>, t, Len(r.passed[t]), r.taken[t])
    BY <2>1 DEF Numbers
  <2>. QED  BY <2>1, <2>2, NothingInOrder
<1>4. ASSUME NEW t \in Sides PROVE Due(q, m, t) = q.taken[t] /\ q.taken[t] \in Nat
  <2>1. Due(q, m, t) = r.taken[t] + (IF IsData(m, t) THEN 1 ELSE 0) /\ r.taken[t] \in Nat
    BY <1>3 DEF Due
  <2>2. CASE t = s
    BY <1>1, <1>2, <2>1, <2>2
  <2>3. CASE t # s
    BY <1>1, <1>2, <2>1, <2>3
  <2>. QED  BY <2>2, <2>3
<1>5. \A t \in Sides : InOrder(q.queue, t, q.taken[t], q.taken[t])
  <2>1. \A n \in Nat : n <= n
    OBVIOUS
  <2>. QED  BY <1>4, <2>1, NothingInOrder
<1>6. Numbers(q, m)
  <2>1. m.n = q.taken[s]
    BY <1>1, <1>2
  <2>2. \A t \in Sides : q.taken[t] <= q.taken[t]
    BY <1>4
  <2>. QED  BY <1>1, <1>4, <1>5, <2>1, <2>2 DEF Numbers
<1>. QED  BY <1>3, <1>6 DEF m

LEMMA HeadNumbers ==
    ASSUME NEW r \in Layer, NEW q \in Layer, Numbers(r, NoEvent), r.queue # <<>>,
           q.queue = Tail(r.queue), q.passed = r.passed, q.taken = r.taken
    PROVE  Numbers(q, Head(r.queue))
<1> DEFINE e == Head(r.queue)
<1>1. e \in RelayEvents /\ r.queue \in Seq(RelayEvents)
  BY DEF Layer
<1>2. ASSUME NEW s \in Sides
      PROVE  /\ Due(q, e, s) <= q.taken[s] /\ InOrder(q.queue, s, Due(q, e, s), q.taken[s])
             /\ IsData(e, s) => e.n = Due(q, e, s)
  <2> DEFINE lo == Len(r.passed[s])
             hi == r.taken[s]
  <2>1. lo \in Nat /\ hi \in Nat /\ lo <= hi /\ InOrder(r.queue, s, lo, hi)
    BY EventTypes, Counts DEF Numbers
  <2>2. /\ ~IsData(e, s) => InOrder(Tail(r.queue), s, lo, hi)
        /\ IsData(e, s) => e.n = lo + 1 /\ lo + 1 <= hi /\ InOrder(Tail(r.queue), s, lo + 1, hi)
    BY <1>1, <2>1, InOrderTail
  <2>3. Due(q, e, s) = lo + (IF IsData(e, s) THEN 1 ELSE 0)
    BY DEF Due
  <2> HIDE DEF lo, hi
  <2>4. q.queue = Tail(r.queue) /\ q.taken[s] = hi
    BY DEF hi
  <2>5. CASE IsData(e, s)
    BY <2>1, <2>2, <2>3, <2>4, <2>5
  <2>6. CASE ~IsData(e, s)
    BY <2>1, <2>2, <2>3, <2>4, <2>6
  <2>. QED  BY <2>5, <2>6
<1>. QED  BY <1>2 DEF Numbers

------------------------------------------------------------------------------
(* The invariant. *)

\* How phase, pause and queue go together.
Phases(r) ==
    /\ r.at = "message" => r.event.type = "data" /\ r.phase = "relay"
    /\ r.phase = "start" => r.at \in {"start", "open", "error"}
    /\ r.at = "open" => r.phase = "start" /\ ~r.linked
    /\ r.at = "start" => r.phase = "start"
    /\ r.at = "error" => r.phase = "start"
    /\ r.phase = "relay" => r.linked
    /\ r.at = "end" => (r.phase = "done" \/ kind = "websocket")
    /\ r.draining => r.at = "none" /\ r.phase # "start"
    /\ ~Cut(r) /\ r.at = "none" /\ ~r.draining => r.queue = <<>>

\* A close in the queue, and a connection that no longer reads, are of a side that has
\* stopped, as long as the layer itself has closed nothing.
Stops(r, st, S) ==
    /\ \A i \in DOMAIN r.queue : r.queue[i].type = "closed" => r.queue[i].side \in S
    /\ ~Cut(r) => \A s \in Sides : s = "client" \/ r.linked => "read" \in st[s] \/ s \in S

Good == Phases(relay) /\ Stops(relay, state, stopped)
        /\ (~Cut(relay) => Numbers(relay, InHand(relay)))
Typed == RelayTypeOK /\ (kind = "websocket" => relay.flow)

\* After a crash only the types are left.
RelayInv == Typed /\ (~relay.crashed => Good)

\* The layer can handle e.
Ready(x, e, S) ==
    /\ x.r.at = "none" /\ x.r.phase # "start" /\ (x.r.phase = "relay" => x.r.linked)
    /\ x.r.draining \/ x.r.queue = <<>> \/ Cut(x.r)
    /\ ~Cut(x.r) => Numbers(x.r, e)
    /\ Stops(x.r, x.state, S) /\ (e.type = "closed" => e.side \in S)

\* What the channels see of it: nothing, a message passed on, or the end.
Unseen(x, y) == y.r.passed = x.r.passed /\ (Cut(y.r) <=> Cut(x.r))
Passes(x, y, s) ==
    /\ ~Cut(x.r) /\ ~Cut(y.r) /\ x.r.linked
    /\ Len(x.r.passed[s]) < x.r.taken[s]
    /\ y.r.passed = [x.r.passed EXCEPT ![s] = Append(@, Len(@) + 1)]
Cuts(x, y, S) ==
    /\ y.r.passed = x.r.passed /\ ~Cut(x.r) /\ Cut(y.r)
    /\ ~x.r.linked \/ (IF kind = "tcp" THEN S = Sides ELSE S # {})

LEMMA ClosedNumbers ==
    ASSUME NEW r \in Layer, NEW e \in RelayEvents, e.type = "closed"
    PROVE  Numbers(r, e) <=> Numbers(r, NoEvent)
<1>1. \A s \in Sides : ~IsData(e, s) /\ ~IsData(NoEvent, s)
  BY EventTypes DEF IsData, NoEvent, Close
<1>. QED  BY <1>1 DEF Numbers, Due

LEMMA SameNumbers ==
    ASSUME NEW r, NEW q, q.queue = r.queue, q.taken = r.taken, q.passed = r.passed, NEW e
    PROVE  Numbers(q, e) <=> Numbers(r, e)
BY DEF Numbers, Due

LEMMA HandleKeeps ==
    ASSUME NEW x \in Relays, NEW e \in RelayEvents, NEW S \in SUBSET Sides, kind \in Kinds,
           kind = "websocket" => x.r.flow, Ready(x, e, S),
           NEW y, y = Handle(x, e), ~y.r.crashed
    PROVE  /\ Phases(y.r) /\ Stops(y.r, y.state, S)
           /\ ~Cut(y.r) => Numbers(y.r, InHand(y.r))
           /\ \/ Unseen(x, y)
              \/ Passes(x, y, e.side) /\ e.type = "data"
              \/ Cuts(x, y, S) /\ e.type = "closed"
<1>1. x.r \in Layer /\ x.r.at = "none" /\ x.r.phase \in {"relay", "done"}
      /\ (x.r.phase = "relay" => x.r.linked)
  BY DEF Ready, Relays, Layer
<1>2. Cut(x.r) <=> x.r.phase = "done"
  BY <1>1 DEF Cut
<1>3. y \in Relays /\ y.r \in Layer
  BY HandleDoes DEF Relays
<1>4. CASE x.r.phase = "done" /\ y = x
  BY <1>1, <1>2, <1>4 DEF Phases, Ready, Unseen, Cut
<1>5. CASE x.r.phase # "done" /\ e.type = "data" /\ Holds(x, e, y)
  <2>1. Numbers(x.r, e) /\ x.r.phase = "relay" /\ x.r.linked
    BY <1>1, <1>2, <1>5 DEF Ready
  <2>2. /\ y.r.at = "message" /\ y.r.event = e /\ y.r.phase = "relay" /\ y.r.linked
        /\ ~y.r.draining /\ y.r.passed = x.r.passed /\ y.r.queue = x.r.queue
        /\ y.r.taken = x.r.taken /\ y.state = x.state
    BY <1>5, <2>1 DEF Holds, Same
  <2>3. Numbers(y.r, InHand(y.r))
    BY <2>1, <2>2, SameNumbers DEF InHand
  <2>4. ~Cut(y.r) /\ ~Cut(x.r)
    BY <1>2, <1>5, <2>2 DEF Cut
  <2>5. Phases(y.r)
    BY <1>5, <2>2, <2>4 DEF Phases
  <2>6. Stops(y.r, y.state, S)
    BY <2>1, <2>2, <2>4 DEF Stops, Ready
  <2>. QED  BY <2>2, <2>3, <2>4, <2>5, <2>6 DEF Unseen
<1>6. CASE x.r.phase # "done" /\ e.type = "data" /\ y = Send(x, e)
  <2>1. Numbers(x.r, e) /\ x.r.phase = "relay" /\ x.r.linked /\ (x.r.draining \/ x.r.queue = <<>>)
    BY <1>1, <1>2, <1>6 DEF Ready
  <2>2. /\ y.state = x.state /\ y.r.phase = "relay" /\ y.r.at = "none" /\ y.r.linked
        /\ y.r.queue = x.r.queue /\ y.r.taken = x.r.taken
        /\ y.r.passed = [x.r.passed EXCEPT ![e.side] = Append(@, e.n)]
        /\ y.r.draining = x.r.draining
    BY <1>1, <1>6, <2>1, SendDoes
  <2>3. /\ Numbers(y.r, NoEvent)
        /\ e.n = Len(x.r.passed[e.side]) + 1 /\ e.n <= x.r.taken[e.side]
    BY <1>1, <1>3, <1>6, <2>1, <2>2, SentNumbers
  <2>4. ~Cut(y.r) /\ ~Cut(x.r)
    BY <1>2, <1>6, <2>2 DEF Cut
  <2>5. Phases(y.r)
    BY <2>1, <2>2, <2>4 DEF Phases
  <2>6. Stops(y.r, y.state, S)
    BY <2>1, <2>2, <2>4 DEF Stops, Ready
  <2>7. Len(x.r.passed[e.side]) < x.r.taken[e.side]
    <3>1. e.side \in Sides
      BY DEF RelayEvents
    <3>2. Len(x.r.passed[e.side]) \in Nat /\ x.r.taken[e.side] \in Nat
      BY <1>1, <3>1, Counts
    <3>. QED  BY <2>3, <3>2
  <2>8. Passes(x, y, e.side)
    BY <2>1, <2>2, <2>3, <2>4, <2>7 DEF Passes
  <2>9. Numbers(y.r, InHand(y.r))
    BY <2>2, <2>3 DEF InHand
  <2>. QED  BY <1>6, <2>4, <2>5, <2>6, <2>8, <2>9
<1>7. CASE /\ x.r.phase # "done" /\ e.type = "closed" /\ Finishes(x, y)
           /\ kind = "tcp" => \A s \in Sides : "read" \notin x.state[s]
  <2>1. Cut(y.r) /\ ~Cut(x.r) /\ y.r.passed = x.r.passed /\ x.r.phase = "relay" /\ x.r.linked
    BY <1>1, <1>2, <1>7 DEF Finishes, Cut, Same
  <2>2. Phases(y.r)
    BY <1>1, <1>7, <2>1 DEF Finishes, Phases, Same
  <2>3. Stops(y.r, y.state, S)
    BY <1>7, <2>1 DEF Finishes, Same, Stops, Ready
  <2>4. IF kind = "tcp" THEN S = Sides ELSE S # {}
    <3>1. e.side \in S
      BY <1>7 DEF Ready
    <3>2. ASSUME kind = "tcp" PROVE \A s \in Sides : s \in S
      BY <1>7, <2>1, <3>2 DEF Ready, Stops
    <3>. QED  BY <3>1, <3>2
  <2>. QED  BY <1>7, <2>1, <2>2, <2>3, <2>4 DEF Cuts
<1>8. CASE /\ x.r.phase # "done" /\ e.type = "closed" /\ kind = "tcp" /\ y.r = x.r
           /\ \A s \in Sides : "read" \in x.state[s] => "read" \in y.state[s]
  <2>1. ~Cut(x.r) /\ x.r.phase = "relay" /\ x.r.linked /\ (x.r.draining \/ x.r.queue = <<>>)
    BY <1>1, <1>2, <1>8 DEF Ready
  <2>2. Numbers(y.r, InHand(y.r))
    BY <1>1, <1>8, <2>1, ClosedNumbers DEF InHand, Ready
  <2>3. Phases(y.r)
    BY <1>1, <1>8, <2>1 DEF Phases
  <2>4. Stops(y.r, y.state, S)
    BY <1>8, <2>1 DEF Stops, Ready
  <2>. QED  BY <1>8, <2>1, <2>2, <2>3, <2>4 DEF Unseen
<1>. QED  BY <1>4, <1>5, <1>6, <1>7, <1>8, HandleDoes

------------------------------------------------------------------------------
(* The actions. *)

\* What each of them has to show.
Right ==
    /\ relay' \in Layer /\ state' \in [Sides -> SUBSET Open] /\ relay'.flow = relay.flow
    /\ relay.crashed => relay'.crashed
    /\ Good /\ ~relay'.crashed => Good' /\ [Pipes!Next]_(Pipes!vars)

\* Good' without the prime.
GoodAt(r, st, S) ==
    Phases(r) /\ Stops(r, st, S) /\ (~Cut(r) => Numbers(r, InHand(r)))

LEMMA GoodNext ==
    ASSUME kind' = kind, NEW y, Becomes(y), NEW S, stopped' = S, GoodAt(y.r, y.state, S)
    PROVE  Good'
BY DEF Becomes, GoodAt, Good, Phases, Stops, Cut, Numbers, InHand, Due

\* The steps of the channels.
LEMMA PipesStutter ==
    ASSUME kind' = kind, relay'.taken = relay.taken, relay'.passed = relay.passed,
           stopped' = stopped, relay'.linked = relay.linked, Cut(relay)' <=> Cut(relay)
    PROVE  UNCHANGED Pipes!vars
BY DEF Pipes!vars, Cut

LEMMA PipesTake ==
    ASSUME kind' = kind, NEW s \in Sides, relay'.taken = [relay.taken EXCEPT ![s] = @ + 1],
           relay'.passed = relay.passed,
           stopped' = stopped, relay'.linked = relay.linked, Cut(relay)' <=> Cut(relay)
    PROVE  Pipes!Next
<1>1. Pipes!Take(s)
  BY DEF Pipes!Take, Cut
<1>. QED  BY <1>1 DEF Pipes!Next

LEMMA PipesPass ==
    ASSUME kind' = kind, NEW s \in Sides, relay'.taken = relay.taken,
           relay'.passed = [relay.passed EXCEPT ![s] = Append(@, Len(@) + 1)],
           Len(relay.passed[s]) < relay.taken[s], relay.linked,
           stopped' = stopped, relay'.linked = relay.linked, ~Cut(relay)', ~Cut(relay)
    PROVE  Pipes!Next
<1>1. Pipes!Pass(s)
  BY DEF Pipes!Pass, Cut
<1>. QED  BY <1>1 DEF Pipes!Next

LEMMA PipesTakeAndPass ==
    ASSUME kind' = kind, NEW s \in Sides, relay'.taken = [relay.taken EXCEPT ![s] = @ + 1],
           relay'.passed = [relay.passed EXCEPT ![s] = Append(@, Len(@) + 1)],
           Len(relay.passed[s]) = relay.taken[s], relay.linked,
           stopped' = stopped, relay'.linked = relay.linked, ~Cut(relay)', ~Cut(relay)
    PROVE  Pipes!Next
<1>1. Pipes!TakeAndPass(s)
  BY DEF Pipes!TakeAndPass, Cut
<1>. QED  BY <1>1 DEF Pipes!Next

LEMMA PipesStop ==
    ASSUME kind' = kind, NEW s \in Sides, stopped' = stopped \cup {s},
           relay'.taken = relay.taken, relay'.passed = relay.passed,
           relay'.linked = relay.linked, Cut(relay)' <=> Cut(relay)
    PROVE  Pipes!Next
<1>1. Sides \ stopped' = (Sides \ stopped) \ {s}
  OBVIOUS
<1>2. Pipes!Stop(s)
  BY <1>1 DEF Pipes!Stop, Cut
<1>. QED  BY <1>2 DEF Pipes!Next

LEMMA PipesLink ==
    ASSUME kind' = kind, relay'.taken = relay.taken, relay'.passed = relay.passed,
           stopped' = stopped, ~relay.linked, relay'.linked = TRUE, ~Cut(relay)', ~Cut(relay)
    PROVE  Pipes!Next
<1>1. Pipes!Link
  BY DEF Pipes!Link, Cut
<1>. QED  BY <1>1 DEF Pipes!Next

LEMMA PipesCut ==
    ASSUME kind' = kind, stopped' \subseteq Sides,
           stopped' = stopped \/ \E s \in Sides : stopped' = stopped \cup {s},
           relay'.taken = relay.taken, relay'.passed = relay.passed,
           relay'.linked = relay.linked, Cut(relay)', ~Cut(relay),
           ~relay.linked \/ (IF kind = "tcp" THEN stopped' = Sides ELSE stopped' # {})
    PROVE  Pipes!Next
<1>1. \/ Sides \ stopped' = Sides \ stopped
      \/ \E s \in Sides : Sides \ stopped' = (Sides \ stopped) \ {s}
  OBVIOUS
<1>2. ~relay.linked \/ (IF kind = "tcp" THEN Sides \ stopped' = {} ELSE Sides \ stopped' # Sides)
  OBVIOUS
<1>3. Pipes!Cut
  BY <1>1, <1>2 DEF Pipes!Cut, Cut
<1>. QED  BY <1>3 DEF Pipes!Next

\* Every action ends like this.
LEMMA ActionRight ==
    ASSUME kind' = kind, NEW y \in Relays, Becomes(y), y.r.flow = relay.flow,
           relay.crashed => y.r.crashed,
           Good /\ ~y.r.crashed =>
              GoodAt(y.r, y.state, stopped') /\ [Pipes!Next]_(Pipes!vars)
    PROVE  Right
<1>1. relay' = y.r /\ state' = y.state
  BY DEF Becomes
<1>2. relay' \in Layer /\ state' \in [Sides -> SUBSET Open]
  BY <1>1 DEF Relays
<1>3. GoodAt(y.r, y.state, stopped') => Good'
  BY GoodNext
<1>. QED  BY <1>1, <1>2, <1>3 DEF Right

LEMMA Now ==
    ASSUME Typed
    PROVE  /\ x0 \in Relays /\ x0.r = relay /\ x0.state = state /\ kind \in Kinds
           /\ relay \in Layer /\ state \in [Sides -> SUBSET Open] /\ stopped \in SUBSET Sides
           /\ relay.queue \in Seq(RelayEvents) /\ relay.event \in RelayEvents
           /\ InHand(relay) \in RelayEvents /\ (kind = "websocket" => relay.flow)
<1>1. /\ relay \in Layer /\ state \in [Sides -> SUBSET Open] /\ kind \in Kinds
      /\ stopped \in SUBSET Sides /\ (kind = "websocket" => relay.flow)
  BY DEF Typed, RelayTypeOK, Kinds
<1>2. relay.queue \in Seq(RelayEvents) /\ relay.event \in RelayEvents
  BY <1>1 DEF Layer
<1>. QED  BY <1>1, <1>2, EventTypes DEF x0, Relays, InHand

LEMMA SendLeaves ==
    ASSUME NEW x \in Relays, NEW e \in RelayEvents, NEW y, y = Send(x, e)
    PROVE  /\ y.r.flow = x.r.flow /\ y.r.linked = x.r.linked
           /\ y.r.taken = x.r.taken /\ (x.r.crashed => y.r.crashed)
<1>1. CASE x.state[Other(e.side)] = {"read"}
  BY <1>1 DEF Relays, Layer, Send
<1>2. CASE x.state[Other(e.side)] # {"read"}
  BY <1>2 DEF Relays, Layer, Send
<1>. QED  BY <1>1, <1>2

LEMMA HandleLeaves ==
    ASSUME NEW x \in Relays, NEW e \in RelayEvents, kind \in Kinds,
           kind = "websocket" => x.r.flow, NEW y, y = Handle(x, e)
    PROVE  /\ y \in Relays /\ y.r.flow = x.r.flow /\ y.r.linked = x.r.linked
           /\ y.r.taken = x.r.taken /\ (x.r.crashed => y.r.crashed)
<1>1. y \in Relays
  BY HandleDoes
<1>2. y = Send(x, e) \/ (y.r.flow = x.r.flow /\ y.r.linked = x.r.linked
        /\ y.r.taken = x.r.taken /\ y.r.crashed = x.r.crashed)
  BY HandleDoes DEF Holds, Finishes, Same
<1>. QED  BY <1>1, <1>2, SendLeaves

\* handle_event while the layer is paused.
Queued(x, e) == [x EXCEPT !.r.queue = Append(@, e)]

LEMMA QueuedDoes ==
    ASSUME NEW x \in Relays, NEW e \in RelayEvents, NEW y, y = Queued(x, e)
    PROVE  /\ y \in Relays /\ y.state = x.state
           /\ y.r.queue = Append(x.r.queue, e) /\ y.r.at = x.r.at /\ y.r.event = x.r.event
           /\ y.r.phase = x.r.phase /\ y.r.flow = x.r.flow /\ y.r.linked = x.r.linked
           /\ y.r.taken = x.r.taken /\ y.r.passed = x.r.passed
           /\ y.r.crashed = x.r.crashed /\ y.r.draining = x.r.draining
<1>1. Append(x.r.queue, e) \in Seq(RelayEvents)
  BY DEF Relays, Layer
<1>. QED  BY <1>1 DEF Relays, Layer, Queued

LEMMA QueuedCloses ==
    ASSUME NEW q \in Seq(RelayEvents), NEW e \in RelayEvents, NEW S, NEW T, S \subseteq T,
           \A i \in DOMAIN q : q[i].type = "closed" => q[i].side \in S,
           e.type = "closed" => e.side \in T
    PROVE  \A i \in DOMAIN Append(q, e) :
               Append(q, e)[i].type = "closed" => Append(q, e)[i].side \in T
<1> DEFINE p == Append(q, e)
<1>1. /\ DOMAIN q = 1 .. Len(q) /\ DOMAIN p = 1 .. Len(q) + 1 /\ Len(q) \in Nat
      /\ \A i \in 1 .. Len(q) : p[i] = q[i]
      /\ p[Len(q) + 1] = e
  OBVIOUS
<1> HIDE DEF p
<1>2. \A i \in DOMAIN p : i \in DOMAIN q \/ i = Len(q) + 1
  BY <1>1
<1>3. \A i \in DOMAIN p : p[i].type = "closed" => p[i].side \in T
  BY <1>1, <1>2
<1>. QED  BY <1>3 DEF p

\* handle_event while it is not.
Undrained(x) == [x EXCEPT !.r.draining = FALSE]

LEMMA UndrainedDoes ==
    ASSUME NEW x \in Relays, NEW y, y = Undrained(x)
    PROVE  /\ y \in Relays /\ Same(x, y) /\ y.state = x.state
           /\ y.r.phase = x.r.phase /\ y.r.at = x.r.at /\ y.r.event = x.r.event
           /\ ~y.r.draining
BY DEF Relays, Layer, Undrained, Same

LEMMA IncomingRight ==
    ASSUME Typed, kind' = kind, NEW s \in Sides, Idle, Incoming(s), stopped' = stopped
    PROVE  Right
<1> DEFINE n == relay.taken[s] + 1
           e == Numbered(s, n)
           x == [x0 EXCEPT !.r.taken[s] = n]
           y == Arrived(x, e)
<1>1. /\ x0 \in Relays /\ x0.r = relay /\ x0.state = state /\ kind \in Kinds
      /\ relay \in Layer /\ relay.queue \in Seq(RelayEvents) /\ InHand(relay) \in RelayEvents
      /\ stopped \in SUBSET Sides /\ (kind = "websocket" => relay.flow)
  BY Now
<1>2. n \in Nat /\ [relay.taken EXCEPT ![s] = @ + 1] \in [Sides -> Nat]
  BY <1>1 DEF Layer
<1>3. e \in RelayEvents /\ e.type = "data" /\ e.side = s
  BY <1>2, EventTypes DEF Numbered
<1>4. /\ x \in Relays /\ x.state = state /\ x.r.taken = [relay.taken EXCEPT ![s] = @ + 1]
      /\ x.r.phase = relay.phase /\ x.r.flow = relay.flow /\ x.r.linked = relay.linked
      /\ x.r.at = relay.at /\ x.r.event = relay.event /\ x.r.queue = relay.queue
      /\ x.r.draining = relay.draining /\ x.r.passed = relay.passed
      /\ x.r.crashed = relay.crashed
  <2>1. x = [x0 EXCEPT !.r = [relay EXCEPT !.taken = [relay.taken EXCEPT ![s] = @ + 1]]]
    BY <1>1
  <2>. QED  BY <1>1, <1>2, <2>1 DEF Relays, Layer
<1>5. Becomes(y)
  BY DEF Incoming
<1>6. x.r \in Layer /\ (Cut(x.r) <=> Cut(relay))
  BY <1>4 DEF Relays, Cut
<1> HIDE DEF x
<1>7. CASE relay.at # "none"
  <2>1. y = Queued(x, e)
    BY <1>4, <1>7 DEF Arrived, Queued
  <2> HIDE DEF y, e
  <2>2. /\ y \in Relays /\ y.state = x.state
        /\ y.r.queue = Append(x.r.queue, e) /\ y.r.at = x.r.at /\ y.r.event = x.r.event
        /\ y.r.phase = x.r.phase /\ y.r.flow = x.r.flow /\ y.r.linked = x.r.linked
        /\ y.r.taken = x.r.taken /\ y.r.passed = x.r.passed
        /\ y.r.crashed = x.r.crashed /\ y.r.draining = x.r.draining
    BY <1>3, <1>4, <2>1, QueuedDoes
  <2>3. /\ y \in Relays /\ y.state = state
        /\ y.r.queue = Append(relay.queue, e) /\ y.r.at = relay.at /\ y.r.event = relay.event
        /\ y.r.phase = relay.phase /\ y.r.flow = relay.flow /\ y.r.linked = relay.linked
        /\ y.r.taken = x.r.taken /\ y.r.passed = relay.passed
        /\ y.r.crashed = relay.crashed /\ y.r.draining = relay.draining
    BY <1>4, <2>2
  <2>4. y.r \in Layer /\ (Cut(y.r) <=> Cut(relay)) /\ InHand(y.r) = InHand(relay)
    BY <2>3 DEF Relays, Cut, InHand
  <2>5. ASSUME Good PROVE GoodAt(y.r, y.state, stopped)
    <3>1. Phases(y.r)
      BY <1>7, <2>3, <2>4, <2>5 DEF Good, Phases
    <3>2. Stops(y.r, y.state, stopped)
      <4>1. \A i \in DOMAIN relay.queue :
               relay.queue[i].type = "closed" => relay.queue[i].side \in stopped
        BY <2>5 DEF Good, Stops
      <4>2. \A i \in DOMAIN y.r.queue :
               y.r.queue[i].type = "closed" => y.r.queue[i].side \in stopped
        BY <1>1, <1>3, <2>3, <4>1, QueuedCloses
      <4>. QED  BY <2>3, <2>4, <2>5, <4>2 DEF Good, Stops
    <3>3. ASSUME ~Cut(y.r) PROVE Numbers(y.r, InHand(y.r))
      <4>1. Numbers(relay, InHand(relay))
        BY <2>4, <2>5, <3>3 DEF Good
      <4>. QED  BY <1>1, <1>4, <2>3, <2>4, <4>1, TakenNumbers DEF e
    <3>. QED  BY <3>1, <3>2, <3>3 DEF GoodAt
  <2>6. Pipes!Next
    <3>1. relay' = y.r /\ (Cut(relay)' <=> Cut(relay))
      BY <1>5, <2>4 DEF Becomes, Cut
    <3>. QED  BY <1>4, <2>3, <3>1, PipesTake
  <2>. QED  BY <1>5, <2>3, <2>5, <2>6, ActionRight
<1>8. CASE relay.at = "none"
  <2> DEFINE z == Undrained(x)
  <2>1. y = Handle(z, e)
    BY <1>4, <1>8 DEF Arrived, Undrained
  <2>2. /\ z \in Relays /\ z.r \in Layer /\ Same(x, z) /\ z.state = state
        /\ z.r.phase = relay.phase /\ z.r.at = "none" /\ ~z.r.draining
    BY <1>4, <1>8, UndrainedDoes DEF Relays
  <2> HIDE DEF y, z, e
  <2>3. /\ y \in Relays /\ y.r.flow = relay.flow /\ y.r.linked = relay.linked
        /\ y.r.taken = x.r.taken /\ (relay.crashed => y.r.crashed)
    BY <1>1, <1>3, <1>4, <2>1, <2>2, HandleLeaves DEF Same
  <2>4. ASSUME Good, ~y.r.crashed PROVE GoodAt(y.r, y.state, stopped) /\ Pipes!Next
    <3>1. (Cut(z.r) <=> Cut(relay)) /\ z.r.queue = relay.queue /\ z.r.passed = relay.passed
          /\ z.r.linked = relay.linked /\ z.r.taken = [relay.taken EXCEPT ![s] = @ + 1]
      BY <1>4, <1>8, <2>2 DEF Cut, Same
    <3>2. ~Cut(relay) => relay.queue = <<>>
      BY <1>8, <2>4 DEF Good, Phases, Idle
    <3>3. ASSUME ~Cut(relay)
          PROVE  Numbers(z.r, e) /\ Len(relay.passed[s]) = relay.taken[s]
      <4>1. Numbers(relay, NoEvent)
        BY <1>8, <2>4, <3>3 DEF Good, InHand
      <4>. QED  BY <1>1, <2>2, <3>1, <3>2, <3>3, <4>1, TakenAtOnceNumbers DEF e
    <3>4. Ready(z, e, stopped)
      <4>1. z.r.phase # "start" /\ (z.r.phase = "relay" => z.r.linked)
        BY <1>8, <2>2, <2>4, <3>1 DEF Good, Phases
      <4>2. Stops(z.r, z.state, stopped)
        BY <2>2, <2>4, <3>1 DEF Good, Stops
      <4>3. e.type # "closed"
        BY <1>3
      <4>. QED  BY <2>2, <3>1, <3>2, <3>3, <4>1, <4>2, <4>3 DEF Ready
    <3>5. /\ Phases(y.r) /\ Stops(y.r, y.state, stopped)
          /\ ~Cut(y.r) => Numbers(y.r, InHand(y.r))
          /\ \/ Unseen(z, y)
             \/ Passes(z, y, s)
      <4>1. kind = "websocket" => z.r.flow
        BY <1>1, <1>4, <2>2 DEF Same
      <4>. QED  BY <1>1, <1>3, <2>1, <2>2, <2>4, <3>4, <4>1, HandleKeeps
    <3>6. relay' = y.r /\ (Cut(relay)' <=> Cut(y.r))
      BY <1>5 DEF Becomes, Cut
    <3>7. CASE Unseen(z, y)
      <4>1. Pipes!Next
        BY <1>4, <2>3, <3>1, <3>6, <3>7, PipesTake DEF Unseen
      <4>. QED  BY <3>5, <4>1 DEF GoodAt
    <3>8. CASE Passes(z, y, s)
      <4>1. Pipes!Next
        BY <1>4, <2>3, <3>1, <3>3, <3>6, <3>8, PipesTakeAndPass DEF Passes
      <4>. QED  BY <3>5, <4>1 DEF GoodAt
    <3>. QED  BY <3>5, <3>7, <3>8
  <2>. QED  BY <1>5, <2>3, <2>4, ActionRight
<1>. QED  BY <1>7, <1>8

\* A close of s comes in; perhaps the connection of s has lost its state.
LEMMA CloseRight ==
    ASSUME Typed, kind' = kind, NEW s \in Sides, Idle, stopped' = stopped \cup {s},
           NEW x \in Relays, x.r = relay, \A t \in Sides : t # s => x.state[t] = state[t],
           Becomes(Arrived(x, Close(s)))
    PROVE  Right
<1> DEFINE e == Close(s)
           y == Arrived(x, e)
           S == stopped \cup {s}
<1>1. /\ kind \in Kinds /\ relay \in Layer /\ relay.queue \in Seq(RelayEvents)
      /\ InHand(relay) \in RelayEvents /\ S \in SUBSET Sides /\ stopped' = S
      /\ (kind = "websocket" => relay.flow)
  BY Now
<1>2. e \in RelayEvents /\ e.type = "closed" /\ e.side = s /\ s \in S /\ stopped \subseteq S
  BY EventTypes DEF Close
<1>3. Becomes(y)
  OBVIOUS
<1> HIDE DEF S
<1>4. CASE relay.at # "none"
  <2>1. y = Queued(x, e)
    BY <1>4 DEF Arrived, Queued
  <2> HIDE DEF y, e
  <2>2. /\ y \in Relays /\ y.state = x.state
        /\ y.r.queue = Append(relay.queue, e) /\ y.r.at = relay.at /\ y.r.event = relay.event
        /\ y.r.phase = relay.phase /\ y.r.flow = relay.flow /\ y.r.linked = relay.linked
        /\ y.r.taken = relay.taken /\ y.r.passed = relay.passed
        /\ y.r.crashed = relay.crashed /\ y.r.draining = relay.draining
    BY <1>2, <2>1, QueuedDoes
  <2>3. y.r \in Layer /\ (Cut(y.r) <=> Cut(relay)) /\ InHand(y.r) = InHand(relay)
    BY <2>2 DEF Relays, Cut, InHand
  <2>4. ASSUME Good PROVE GoodAt(y.r, y.state, S)
    <3>1. Phases(y.r)
      BY <1>4, <2>2, <2>3, <2>4 DEF Good, Phases
    <3>2. Stops(y.r, y.state, S)
      <4>1. \A i \in DOMAIN relay.queue :
               relay.queue[i].type = "closed" => relay.queue[i].side \in stopped
        BY <2>4 DEF Good, Stops
      <4>2. \A i \in DOMAIN y.r.queue :
               y.r.queue[i].type = "closed" => y.r.queue[i].side \in S
        BY <1>1, <1>2, <2>2, <4>1, QueuedCloses
      <4>3. ASSUME ~Cut(y.r), NEW t \in Sides, t = "client" \/ y.r.linked
            PROVE  "read" \in y.state[t] \/ t \in S
        BY <1>2, <2>2, <2>3, <2>4, <4>3 DEF Good, Stops
      <4>. QED  BY <4>2, <4>3 DEF Stops
    <3>3. ASSUME ~Cut(y.r) PROVE Numbers(y.r, InHand(y.r))
      <4>1. Numbers(relay, InHand(relay))
        BY <2>3, <2>4, <3>3 DEF Good
      <4>. QED  BY <1>1, <2>2, <2>3, <4>1, CloseQueuedNumbers DEF e
    <3>. QED  BY <3>1, <3>2, <3>3 DEF GoodAt
  <2>5. Pipes!Next
    <3>1. relay' = y.r /\ (Cut(relay)' <=> Cut(relay))
      BY <1>3, <2>3 DEF Becomes, Cut
    <3>. QED  BY <2>2, <3>1, PipesStop
  <2>. QED  BY <1>1, <1>3, <2>2, <2>4, <2>5, ActionRight
<1>5. CASE relay.at = "none"
  <2> DEFINE z == Undrained(x)
  <2>1. y = Handle(z, e)
    BY <1>5 DEF Arrived, Undrained
  <2>2. /\ z \in Relays /\ z.r \in Layer /\ Same(x, z) /\ z.state = x.state
        /\ z.r.phase = relay.phase /\ z.r.at = "none" /\ ~z.r.draining
    BY <1>5, UndrainedDoes DEF Relays
  <2> HIDE DEF y, z, e
  <2>3. (kind = "websocket" => z.r.flow) /\ z.r.crashed = relay.crashed /\ z.r.flow = relay.flow
        /\ z.r.taken = relay.taken /\ z.r.linked = relay.linked
    BY <1>1, <2>2 DEF Same
  <2>4. /\ y \in Relays /\ y.r.flow = relay.flow /\ y.r.linked = relay.linked
        /\ y.r.taken = relay.taken /\ (relay.crashed => y.r.crashed)
    BY <1>1, <1>2, <2>1, <2>2, <2>3, HandleLeaves
  <2>5. ASSUME Good, ~y.r.crashed PROVE GoodAt(y.r, y.state, S) /\ Pipes!Next
    <3>1. (Cut(z.r) <=> Cut(relay)) /\ z.r.queue = relay.queue /\ z.r.passed = relay.passed
      BY <1>5, <2>2 DEF Cut, Same
    <3>2. ~Cut(relay) => relay.queue = <<>>
      BY <1>5, <2>5 DEF Good, Phases, Idle
    <3>3. ASSUME ~Cut(relay) PROVE Numbers(z.r, e)
      <4>1. Numbers(relay, NoEvent)
        BY <1>5, <2>5, <3>3 DEF Good, InHand
      <4>2. Numbers(relay, e)
        BY <1>1, <1>2, <4>1, ClosedNumbers
      <4>. QED  BY <2>3, <3>1, <4>2, SameNumbers
    <3>4. Ready(z, e, S)
      <4>1. z.r.phase # "start" /\ (z.r.phase = "relay" => z.r.linked)
        BY <1>5, <2>2, <2>3, <2>5 DEF Good, Phases
      <4>2. \A i \in DOMAIN z.r.queue :
               z.r.queue[i].type = "closed" => z.r.queue[i].side \in S
        BY <1>2, <2>5, <3>1 DEF Good, Stops
      <4>3. ASSUME ~Cut(z.r), NEW t \in Sides, t = "client" \/ z.r.linked
            PROVE  "read" \in z.state[t] \/ t \in S
        BY <1>2, <2>2, <2>3, <2>5, <3>1, <4>3 DEF Good, Stops
      <4>4. Stops(z.r, z.state, S)
        BY <4>2, <4>3 DEF Stops
      <4>. QED  BY <1>2, <2>2, <3>1, <3>2, <3>3, <4>1, <4>4 DEF Ready
    <3>5. /\ Phases(y.r) /\ Stops(y.r, y.state, S)
          /\ ~Cut(y.r) => Numbers(y.r, InHand(y.r))
          /\ \/ Unseen(z, y)
             \/ Cuts(z, y, S)
      BY <1>1, <1>2, <2>1, <2>2, <2>3, <2>5, <3>4, HandleKeeps
    <3>6. relay' = y.r /\ (Cut(relay)' <=> Cut(y.r))
      BY <1>3 DEF Becomes, Cut
    <3>7. CASE Unseen(z, y)
      <4>1. Pipes!Next
        BY <2>4, <3>1, <3>6, <3>7, PipesStop DEF Unseen
      <4>. QED  BY <3>5, <4>1 DEF GoodAt
    <3>8. CASE Cuts(z, y, S)
      <4>1. Pipes!Next
        BY <1>1, <2>3, <2>4, <3>1, <3>6, <3>8, PipesCut DEF Cuts
      <4>. QED  BY <3>5, <4>1 DEF GoodAt
    <3>. QED  BY <3>5, <3>7, <3>8
  <2>. QED  BY <1>1, <1>3, <2>4, <2>5, ActionRight
<1>. QED  BY <1>4, <1>5

LEMMA EndsRight ==
    ASSUME Typed, NEW s \in Sides, Ends(s)
    PROVE  Right
<1>1. PICK left \in SUBSET Open : Becomes(Arrived([x0 EXCEPT !.state[s] = left], Close(s)))
  <2>1. state[s] \in SUBSET Open
    BY Now
  <2>. QED  BY <2>1 DEF Ends, Closed
<1> DEFINE x == [x0 EXCEPT !.state[s] = left]
<1>2. x \in Relays /\ x.r = relay /\ \A t \in Sides : t # s => x.state[t] = state[t]
  <2>1. x0 \in Relays /\ x0.r = relay /\ x0.state = state
    BY Now
  <2>. QED  BY <2>1 DEF Relays
<1> HIDE DEF x
<1>3. kind' = kind /\ Idle /\ stopped' = stopped \cup {s}
  BY DEF Ends
<1>. QED  BY <1>1, <1>2, <1>3, CloseRight DEF x

LEMMA CloseFrameRight ==
    ASSUME Typed, NEW s \in Sides, CloseFrame(s)
    PROVE  Right
<1>1. kind' = kind /\ Idle /\ stopped' = stopped \cup {s} /\ Becomes(Arrived(x0, Close(s)))
  BY DEF CloseFrame
<1>2. x0 \in Relays /\ x0.r = relay /\ x0.state = state
  BY Now
<1>. QED  BY <1>1, <1>2, CloseRight

\* Steps that leave queue and connections alone.
LEMMA StopsKept ==
    ASSUME NEW r, NEW q, NEW st, NEW S, Stops(r, st, S), q.queue = r.queue,
           Cut(q) \/ (~Cut(r) /\ q.linked = r.linked)
    PROVE  \A t : Cut(q) \/ t = st => Stops(q, t, S)
BY DEF Stops

LEMMA StartReturnsRight ==
    ASSUME Typed, kind' = kind, stopped' = stopped, relay.at = "start",
           Becomes(Connect(Continued(x0)))
    PROVE  Right
<1> DEFINE c == Continued(x0)
           y == Connect(c)
<1>1. x0 \in Relays /\ x0.r = relay /\ x0.state = state /\ relay \in Layer
  BY Now
<1>2. /\ c \in Relays /\ Same(x0, c) /\ c.state = state /\ c.r.at = "none" /\ c.r.draining
      /\ c.r.phase = relay.phase
  BY <1>1, ContinuedDoes
<1>3. Becomes(y)
  OBVIOUS
<1> HIDE DEF c
<1>4. /\ y \in Relays /\ Same(c, y) /\ y.state = state
      /\ IF c.r.linked THEN y.r.phase = "relay" /\ y.r.at = "none" /\ y.r.draining
         ELSE y.r.phase = relay.phase /\ y.r.at = "open" /\ ~y.r.draining
  BY <1>2, ConnectDoes
<1> HIDE DEF y
<1>5. /\ y.r.flow = relay.flow /\ y.r.linked = relay.linked /\ y.r.queue = relay.queue
      /\ y.r.taken = relay.taken /\ y.r.passed = relay.passed /\ y.r.crashed = relay.crashed
  BY <1>1, <1>2, <1>4 DEF Same
<1>6. ASSUME Good PROVE GoodAt(y.r, y.state, stopped) /\ UNCHANGED Pipes!vars
  <2>1. relay.phase = "start" /\ ~Cut(relay)
    BY <1>6 DEF Good, Phases, Cut
  <2>2. ~Cut(y.r) /\ (y.r.phase = "relay" => y.r.linked) /\ y.r.phase \in {"start", "relay"}
        /\ (y.r.phase = "start" => y.r.at = "open" /\ ~y.r.linked /\ ~y.r.draining)
        /\ (y.r.phase = "relay" => y.r.at = "none" /\ y.r.draining)
    BY <1>2, <1>4, <1>5, <2>1 DEF Cut, Same
  <2>3. Phases(y.r)
    BY <2>2 DEF Phases
  <2>4. Stops(y.r, y.state, stopped)
    BY <1>4, <1>5, <1>6, <2>1, <2>2, StopsKept DEF Good
  <2>5. Numbers(y.r, InHand(y.r))
    <3>1. Numbers(relay, NoEvent) /\ InHand(y.r) = NoEvent
      BY <1>6, <2>1, <2>2 DEF Good, InHand
    <3>. QED  BY <1>5, <3>1, SameNumbers
  <2>6. relay' = y.r /\ (Cut(relay)' <=> Cut(y.r))
    BY <1>3 DEF Becomes, Cut
  <2>. QED  BY <1>5, <2>1, <2>2, <2>3, <2>4, <2>5, <2>6, PipesStutter DEF GoodAt
<1>. QED  BY <1>3, <1>4, <1>5, <1>6, ActionRight

LEMMA MessageReturnsRight ==
    ASSUME Typed, kind' = kind, stopped' = stopped, relay.at = "message",
           Becomes(Send(Continued(x0), relay.event))
    PROVE  Right
<1> DEFINE c == Continued(x0)
           e == relay.event
           y == Send(c, e)
<1>1. x0 \in Relays /\ x0.r = relay /\ x0.state = state /\ relay \in Layer /\ e \in RelayEvents
  BY Now
<1>2. /\ c \in Relays /\ Same(x0, c) /\ c.state = state /\ c.r.at = "none" /\ c.r.draining
      /\ c.r.phase = relay.phase
  BY <1>1, ContinuedDoes
<1>3. Becomes(y)
  OBVIOUS
<1> HIDE DEF c, e
<1>4. /\ y \in Relays /\ y.state = state /\ y.r.phase = relay.phase /\ y.r.at = "none"
      /\ y.r.queue = c.r.queue
      /\ \/ y.r.crashed
         \/ y.r.passed = [c.r.passed EXCEPT ![e.side] = Append(@, e.n)] /\ y.r.draining
  BY <1>1, <1>2, SendDoes
<1>5. /\ y.r.flow = c.r.flow /\ y.r.linked = c.r.linked /\ y.r.taken = c.r.taken
      /\ (c.r.crashed => y.r.crashed)
  BY <1>1, <1>2, SendLeaves
<1> HIDE DEF y
<1>6. /\ y.r.flow = relay.flow /\ y.r.linked = relay.linked /\ y.r.taken = relay.taken
      /\ y.r.queue = relay.queue /\ c.r.passed = relay.passed
      /\ (relay.crashed => y.r.crashed)
  BY <1>1, <1>2, <1>4, <1>5 DEF Same
<1>7. ASSUME Good, ~y.r.crashed PROVE GoodAt(y.r, y.state, stopped) /\ Pipes!Next
  <2>1. /\ relay.phase = "relay" /\ relay.linked /\ e.type = "data" /\ ~Cut(relay)
        /\ y.r.passed = [relay.passed EXCEPT ![e.side] = Append(@, e.n)] /\ y.r.draining
    BY <1>4, <1>6, <1>7 DEF Good, Phases, Cut, e
  <2>2. ~Cut(y.r) /\ InHand(y.r) = NoEvent /\ Phases(y.r) /\ y.r \in Layer
    BY <1>4, <1>6, <2>1 DEF Cut, InHand, Phases, Relays
  <2>3. Stops(y.r, y.state, stopped)
    BY <1>4, <1>6, <1>7, <2>1, <2>2, StopsKept DEF Good
  <2>4. Numbers(relay, e)
    BY <1>7, <2>1 DEF Good, InHand, e
  <2>5. Numbers(y.r, NoEvent) /\ e.n = Len(relay.passed[e.side]) + 1 /\ e.n <= relay.taken[e.side]
    BY <1>1, <1>6, <2>1, <2>2, <2>4, SentNumbers
  <2>6. e.side \in Sides /\ Len(relay.passed[e.side]) < relay.taken[e.side]
    <3>1. e.side \in Sides
      BY <1>1 DEF RelayEvents
    <3>2. Len(relay.passed[e.side]) \in Nat /\ relay.taken[e.side] \in Nat
      BY <1>1, <3>1, Counts
    <3>. QED  BY <2>5, <3>1, <3>2
  <2>7. relay' = y.r /\ (Cut(relay)' <=> Cut(y.r))
    BY <1>3 DEF Becomes, Cut
  <2>8. Pipes!Next
    BY <1>6, <2>1, <2>2, <2>5, <2>6, <2>7, PipesPass
  <2>. QED  BY <2>2, <2>3, <2>5, <2>8 DEF GoodAt
<1>. QED  BY <1>3, <1>4, <1>6, <1>7, ActionRight

\* The relay has ended, and leaves the queue to be dropped.
LEMMA DoneRight ==
    ASSUME Typed, kind' = kind, stopped' = stopped, NEW y \in Relays, Becomes(y), Same(x0, y),
           y.r.phase = "done", y.r.at = "none",
           Good => Cut(relay) \/ ~relay.linked
    PROVE  Right
<1>1. x0.r = relay
  BY Now
<1>2. /\ y.r.flow = relay.flow /\ y.r.linked = relay.linked /\ y.r.queue = relay.queue
      /\ y.r.taken = relay.taken /\ y.r.passed = relay.passed /\ y.r.crashed = relay.crashed
  BY <1>1 DEF Same
<1>3. Cut(y.r) /\ Phases(y.r)
  BY DEF Cut, Phases
<1>4. relay' = y.r /\ Cut(relay)'
  BY <1>3 DEF Becomes, Cut
<1>5. ASSUME Good PROVE GoodAt(y.r, y.state, stopped)
  <2>1. Stops(y.r, y.state, stopped)
    BY <1>2, <1>3, <1>5, StopsKept DEF Good
  <2>. QED  BY <1>3, <2>1 DEF GoodAt
<1>6. ASSUME Good PROVE [Pipes!Next]_(Pipes!vars)
  <2>1. CASE Cut(relay)
    BY <1>2, <1>4, <2>1, PipesStutter
  <2>2. CASE ~Cut(relay)
    <3>1. stopped' \subseteq Sides
      BY Now
    <3>. QED  BY <1>2, <1>4, <1>6, <2>2, <3>1, PipesCut
  <2>. QED  BY <2>1, <2>2
<1>. QED  BY <1>2, <1>5, <1>6, ActionRight

\* tcp_error is over, or there is none.
LEMMA ErrorOverRight ==
    ASSUME Typed, kind' = kind, stopped' = stopped, relay.at \in {"open", "error"},
           Becomes(CloseConnections([Continued(x0) EXCEPT !.r.phase = "done"], {"client"}))
    PROVE  Right
<1> DEFINE c == Continued(x0)
           d == [c EXCEPT !.r.phase = "done"]
           y == CloseConnections(d, {"client"})
<1>1. x0 \in Relays /\ x0.r = relay /\ {"client"} \in SUBSET Sides
  BY Now DEF Sides
<1>2. c \in Relays /\ Same(x0, c) /\ c.r.at = "none"
  BY <1>1, ContinuedDoes
<1>3. Becomes(y)
  OBVIOUS
<1> HIDE DEF c
<1>4. d \in Relays /\ Same(c, d) /\ d.r.phase = "done" /\ d.r.at = "none"
  BY <1>2, PhaseDoes
<1> HIDE DEF d
<1>5. y \in Relays /\ y.r = d.r
  BY <1>1, <1>4, CloseConnectionsDoes
<1> HIDE DEF y
<1>6. Same(x0, y) /\ y.r.phase = "done" /\ y.r.at = "none"
  BY <1>2, <1>4, <1>5 DEF Same
<1>7. Good => Cut(relay) \/ ~relay.linked
  BY DEF Good, Phases, Cut
<1>. QED  BY <1>3, <1>5, <1>6, <1>7, DoneRight

LEMMA EndReturnsRight ==
    ASSUME Typed, kind' = kind, stopped' = stopped, relay.at = "end",
           Becomes([Continued(x0) EXCEPT !.r.live = FALSE,
                      !.r.phase = IF kind = "websocket" THEN "done" ELSE @])
    PROVE  Right
<1> DEFINE c == Continued(x0)
           y == [c EXCEPT !.r.live = FALSE, !.r.phase = IF kind = "websocket" THEN "done" ELSE @]
<1>1. x0 \in Relays /\ x0.r = relay /\ x0.state = state
  BY Now
<1>2. /\ c \in Relays /\ Same(x0, c) /\ c.state = state /\ c.r.at = "none"
      /\ c.r.phase = relay.phase
  BY <1>1, ContinuedDoes
<1>3. Becomes(y)
  OBVIOUS
<1> HIDE DEF c
<1>4. /\ y \in Relays /\ Same(c, y) /\ y.r.at = "none"
      /\ y.r.phase = (IF kind = "websocket" THEN "done" ELSE relay.phase)
  BY <1>2 DEF Relays, Layer, Same
<1> HIDE DEF y
<1>5. Same(x0, y)
  BY <1>2, <1>4 DEF Same
<1>6. CASE y.r.phase = "done"
  BY <1>3, <1>4, <1>5, <1>6, DoneRight DEF Cut
<1>7. CASE y.r.phase # "done"
  <2>1. ~Good
    BY <1>4, <1>7 DEF Good, Phases
  <2>2. y.r.flow = relay.flow /\ y.r.crashed = relay.crashed
    BY <1>1, <1>5 DEF Same
  <2>. QED  BY <1>3, <1>4, <2>1, <2>2, ActionRight
<1>. QED  BY <1>6, <1>7

LEMMA HookReturnsRight ==
    ASSUME Typed, HookReturns
    PROVE  Right
<1>1. kind' = kind /\ stopped' = stopped
  BY DEF HookReturns
<1>2. CASE relay.at = "start" /\ Becomes(Connect(Continued(x0)))
  BY <1>1, <1>2, StartReturnsRight
<1>3. CASE relay.at = "message" /\ Becomes(Send(Continued(x0), relay.event))
  BY <1>1, <1>3, MessageReturnsRight
<1>4. CASE /\ relay.at = "error"
           /\ Becomes(CloseConnections([Continued(x0) EXCEPT !.r.phase = "done"], {"client"}))
  BY <1>1, <1>4, ErrorOverRight
<1>5. CASE /\ relay.at = "end"
           /\ Becomes([Continued(x0) EXCEPT !.r.live = FALSE,
                         !.r.phase = IF kind = "websocket" THEN "done" ELSE @])
  BY <1>1, <1>5, EndReturnsRight
<1>. QED  BY <1>2, <1>3, <1>4, <1>5 DEF HookReturns

LEMMA OpenFailsRight ==
    ASSUME Typed, OpenFails
    PROVE  Right
<1>1. kind' = kind /\ stopped' = stopped /\ relay.at = "open"
  BY DEF OpenFails
<1>2. CASE ~relay.flow
  BY <1>1, <1>2, ErrorOverRight DEF OpenFails
<1>3. CASE relay.flow
  <2> DEFINE y == Hook(x0, "error")
  <2>1. Becomes(y)
    BY <1>3 DEF OpenFails
  <2>2. x0 \in Relays /\ x0.r = relay /\ x0.state = state /\ stopped \in SUBSET Sides
    BY Now
  <2>3. /\ y \in Relays /\ Same(x0, y) /\ y.state = state /\ y.r.at = "error"
        /\ ~y.r.draining /\ y.r.phase = relay.phase
    BY <2>2, HookDoes DEF RelayHooks
  <2> HIDE DEF y
  <2>4. /\ y.r.flow = relay.flow /\ y.r.linked = relay.linked /\ y.r.queue = relay.queue
        /\ y.r.taken = relay.taken /\ y.r.passed = relay.passed /\ y.r.crashed = relay.crashed
    BY <2>2, <2>3 DEF Same
  <2>5. Cut(y.r)
    BY <2>3 DEF Cut
  <2>6. ASSUME Good PROVE GoodAt(y.r, y.state, stopped) /\ Pipes!Next
    <3>1. relay.phase = "start" /\ ~relay.linked /\ ~Cut(relay)
      BY <1>1, <2>6 DEF Good, Phases, Cut
    <3>2. Phases(y.r)
      BY <2>3, <2>5, <3>1 DEF Phases
    <3>3. Stops(y.r, y.state, stopped)
      BY <2>4, <2>5, <2>6, StopsKept DEF Good
    <3>4. relay' = y.r /\ Cut(relay)'
      BY <2>1, <2>5 DEF Becomes, Cut
    <3>. QED  BY <1>1, <2>2, <2>4, <2>5, <3>1, <3>2, <3>3, <3>4, PipesCut DEF GoodAt
  <2>. QED  BY <1>1, <2>1, <2>3, <2>4, <2>6, ActionRight
<1>. QED  BY <1>2, <1>3

LEMMA OpenedRight ==
    ASSUME Typed, Opened
    PROVE  Right
<1> DEFINE c == Continued(x0)
           y == [c EXCEPT !.r.phase = "relay", !.r.linked = TRUE, !.state["server"] = Open]
<1>1. kind' = kind /\ stopped' = stopped /\ relay.at = "open" /\ Becomes(y)
  BY DEF Opened
<1>2. x0 \in Relays /\ x0.r = relay /\ x0.state = state
  BY Now
<1>3. c \in Relays /\ Same(x0, c) /\ c.state = state /\ c.r.at = "none" /\ c.r.draining
  BY <1>2, ContinuedDoes
<1> HIDE DEF c
<1>4. /\ y \in Relays /\ y.r.phase = "relay" /\ y.r.linked /\ y.r.at = "none" /\ y.r.draining
      /\ y.r.flow = c.r.flow /\ y.r.queue = c.r.queue /\ y.r.taken = c.r.taken
      /\ y.r.passed = c.r.passed /\ y.r.crashed = c.r.crashed
      /\ y.state = [state EXCEPT !["server"] = Open] /\ y.state \in [Sides -> SUBSET Open]
  BY <1>3 DEF Relays, Layer, Open
<1> HIDE DEF y
<1>5. /\ y.r.flow = relay.flow /\ y.r.queue = relay.queue /\ y.r.taken = relay.taken
      /\ y.r.passed = relay.passed /\ y.r.crashed = relay.crashed
  BY <1>2, <1>3, <1>4 DEF Same
<1>6. ASSUME Good PROVE GoodAt(y.r, y.state, stopped) /\ Pipes!Next
  <2>1. relay.phase = "start" /\ ~relay.linked /\ ~Cut(relay)
    BY <1>1, <1>6 DEF Good, Phases, Cut
  <2>2. ~Cut(y.r) /\ Phases(y.r) /\ InHand(y.r) = NoEvent
    BY <1>4 DEF Cut, Phases, InHand
  <2>3. Stops(y.r, y.state, stopped)
    <3>1. \A s \in Sides : s = "client" \/ s = "server"
      BY DEF Sides
    <3>2. "read" \in state["client"] \/ "client" \in stopped
      BY <1>6, <2>1 DEF Good, Stops, Sides
    <3>3. y.state["client"] = state["client"] /\ y.state["server"] = Open
      BY <1>2, <1>4, Now DEF Sides
    <3>4. \A s \in Sides : "read" \in y.state[s] \/ s \in stopped
      BY <3>1, <3>2, <3>3 DEF Open
    <3>. QED  BY <1>5, <1>6, <3>4 DEF Good, Stops
  <2>4. Numbers(y.r, NoEvent)
    <3>1. Numbers(relay, NoEvent)
      BY <1>1, <1>6, <2>1 DEF Good, InHand
    <3>. QED  BY <1>5, <3>1, SameNumbers
  <2>5. relay' = y.r /\ (Cut(relay)' <=> Cut(y.r)) /\ relay'.linked = TRUE
    <3>1. relay' = y.r
      BY <1>1 DEF Becomes
    <3>2. y.r.linked \in BOOLEAN
      BY <1>4 DEF Relays, Layer
    <3>. QED  BY <1>4, <3>1, <3>2 DEF Cut
  <2>6. Pipes!Next
    BY <1>1, <1>5, <2>1, <2>2, <2>5, PipesLink
  <2>. QED  BY <2>2, <2>3, <2>4, <2>6 DEF GoodAt
<1>. QED  BY <1>1, <1>4, <1>5, <1>6, ActionRight

LEMMA ReplayRight ==
    ASSUME Typed, Replay
    PROVE  Right
<1> DEFINE x == [x0 EXCEPT !.r.queue = Tail(@)]
           e == Head(relay.queue)
           y == Handle(x, e)
<1>1. /\ kind' = kind /\ stopped' = stopped /\ Becomes(y)
      /\ relay.draining /\ relay.queue # <<>>
  BY DEF Replay
<1>2. /\ x0 \in Relays /\ x0.r = relay /\ x0.state = state /\ kind \in Kinds
      /\ relay \in Layer /\ relay.queue \in Seq(RelayEvents)
      /\ stopped \in SUBSET Sides /\ (kind = "websocket" => relay.flow)
  BY Now
<1>3. e \in RelayEvents /\ Tail(relay.queue) \in Seq(RelayEvents)
  BY <1>1, <1>2
<1>4. /\ x \in Relays /\ x.r \in Layer /\ x.state = state /\ x.r.queue = Tail(relay.queue)
      /\ x.r.phase = relay.phase /\ x.r.flow = relay.flow /\ x.r.linked = relay.linked
      /\ x.r.at = relay.at /\ x.r.draining = relay.draining /\ x.r.passed = relay.passed
      /\ x.r.taken = relay.taken /\ x.r.crashed = relay.crashed
  BY <1>2, <1>3 DEF Relays, Layer
<1> HIDE DEF x, y, e
<1>5. y = Handle(x, e)
  BY DEF y
<1>6. /\ y \in Relays /\ y.r.flow = relay.flow /\ y.r.linked = relay.linked
      /\ y.r.taken = relay.taken /\ (relay.crashed => y.r.crashed)
  BY <1>2, <1>3, <1>4, <1>5, HandleLeaves
<1>7. ASSUME Good, ~y.r.crashed
      PROVE  GoodAt(y.r, y.state, stopped) /\ [Pipes!Next]_(Pipes!vars)
  <2>1. /\ relay.at = "none" /\ relay.phase # "start" /\ (relay.phase = "relay" => relay.linked)
    BY <1>1, <1>7 DEF Good, Phases
  <2>2. Cut(x.r) <=> Cut(relay)
    BY <1>4 DEF Cut
  <2>3. ASSUME ~Cut(relay) PROVE Numbers(x.r, e)
    <3>1. Numbers(relay, NoEvent)
      BY <1>7, <2>1, <2>3 DEF Good, InHand
    <3>. QED  BY <1>1, <1>2, <1>4, <3>1, HeadNumbers DEF e
  <2>4. Stops(x.r, x.state, stopped) /\ (e.type = "closed" => e.side \in stopped)
    <3> DEFINE q == relay.queue
               p == Tail(q)
    <3>1. \A i \in DOMAIN q : q[i].type = "closed" => q[i].side \in stopped
      BY <1>7 DEF Good, Stops
    <3>2. e = q[1] /\ 1 \in DOMAIN q /\ \A i \in DOMAIN p : i + 1 \in DOMAIN q /\ p[i] = q[i + 1]
      BY <1>1, <1>2 DEF e
    <3>3. x.r.queue = p
      BY <1>4
    <3> HIDE DEF q, p
    <3>4. \A i \in DOMAIN x.r.queue : x.r.queue[i].type = "closed" => x.r.queue[i].side \in stopped
      BY <3>1, <3>2, <3>3
    <3>. QED  BY <1>4, <1>7, <2>2, <3>1, <3>2, <3>4 DEF Good, Stops
  <2>5. Ready(x, e, stopped)
    BY <1>1, <1>4, <2>1, <2>2, <2>3, <2>4 DEF Ready
  <2>6. /\ Phases(y.r) /\ Stops(y.r, y.state, stopped)
        /\ ~Cut(y.r) => Numbers(y.r, InHand(y.r))
        /\ \/ Unseen(x, y)
           \/ Passes(x, y, e.side)
           \/ Cuts(x, y, stopped)
    BY <1>2, <1>3, <1>4, <1>5, <1>7, <2>5, HandleKeeps
  <2>7. relay' = y.r /\ (Cut(relay)' <=> Cut(y.r))
    BY <1>1 DEF Becomes, Cut
  <2>8. CASE Unseen(x, y)
    <3>1. UNCHANGED Pipes!vars
      BY <1>1, <1>4, <1>6, <2>2, <2>7, <2>8, PipesStutter DEF Unseen
    <3>. QED  BY <2>6, <3>1 DEF GoodAt
  <2>9. CASE Passes(x, y, e.side)
    <3>1. e.side \in Sides
      BY <1>3 DEF RelayEvents
    <3>2. Pipes!Next
      BY <1>1, <1>4, <1>6, <2>2, <2>7, <2>9, <3>1, PipesPass DEF Passes
    <3>. QED  BY <2>6, <3>2 DEF GoodAt
  <2>10. CASE Cuts(x, y, stopped)
    <3>1. Pipes!Next
      BY <1>1, <1>2, <1>4, <1>6, <2>2, <2>7, <2>10, PipesCut DEF Cuts
    <3>. QED  BY <2>6, <3>1 DEF GoodAt
  <2>. QED  BY <2>6, <2>8, <2>9, <2>10
<1>. QED  BY <1>1, <1>6, <1>7, ActionRight

------------------------------------------------------------------------------
(* The theorems. *)

LEMMA RelayInitRight == RelayInit => RelayInv /\ Pipes!Init
<1> SUFFICES ASSUME RelayInit PROVE RelayInv /\ Pipes!Init
  OBVIOUS
<1>1. /\ kind \in Kinds /\ reading \in {{"client"}, Sides}
      /\ state = [s \in Sides |-> IF s \in reading THEN Open ELSE Closed]
      /\ stopped = {} /\ injected = 0
  BY DEF RelayInit, Kinds
<1>2. PICK flow \in BOOLEAN :
         LET new == [phase |-> "start", flow |-> flow, linked |-> reading = Sides,
                     at |-> "none", event |-> NoEvent, queue |-> <<>>,
                     draining |-> FALSE, crashed |-> FALSE, live |-> flow,
                     hooks |-> [h \in RelayHooks |-> 0],
                     taken |-> [s \in Sides |-> 0], passed |-> [s \in Sides |-> <<>>]]
             x == [r |-> new, state |-> state]
         IN  /\ kind = "websocket" => flow /\ new.linked
             /\ relay = IF flow THEN Hook(x, "start").r ELSE Connect(x).r
  BY DEF RelayInit, RelayHooks
<1> DEFINE new == [phase |-> "start", flow |-> flow, linked |-> reading = Sides,
                   at |-> "none", event |-> NoEvent, queue |-> <<>>,
                   draining |-> FALSE, crashed |-> FALSE, live |-> flow,
                   hooks |-> [h \in RelayHooks |-> 0],
                   taken |-> [s \in Sides |-> 0], passed |-> [s \in Sides |-> <<>>]]
           x == [r |-> new, state |-> state]
<1>3. /\ x \in Relays /\ x.state = state /\ x.r = new
  <2>1. state \in [Sides -> SUBSET Open]
    BY <1>1 DEF Closed
  <2>2. /\ [h \in RelayHooks |-> 0] \in [RelayHooks -> Nat] /\ [s \in Sides |-> 0] \in [Sides -> Nat]
        /\ [s \in Sides |-> <<>>] \in [Sides -> Seq(Nat)] /\ <<>> \in Seq(RelayEvents)
    OBVIOUS
  <2>3. (reading = Sides) \in BOOLEAN
    OBVIOUS
  <2>. QED  BY <2>1, <2>2, <2>3, EventTypes DEF Relays, Layer, RelayHooks
<1>4. /\ kind = "websocket" => flow /\ x.r.linked
      /\ relay = IF flow THEN Hook(x, "start").r ELSE Connect(x).r
  BY <1>2
<1>5. /\ x.r.phase = "start" /\ x.r.flow = flow /\ x.r.linked = (reading = Sides)
      /\ x.r.at = "none" /\ x.r.queue = <<>> /\ ~x.r.draining /\ ~x.r.crashed
      /\ x.r.taken = [s \in Sides |-> 0] /\ x.r.passed = [s \in Sides |-> <<>>]
  BY <1>3
<1> HIDE DEF x
<1>6. PICK y \in Relays :
         /\ relay = y.r /\ Same(x, y)
         /\ \/ flow /\ y.r.at = "start" /\ y.r.phase = "start" /\ ~y.r.draining
            \/ ~flow /\ x.r.linked /\ y.r.at = "none" /\ y.r.phase = "relay" /\ ~y.r.draining
            \/ ~flow /\ ~x.r.linked /\ y.r.at = "open" /\ y.r.phase = "start" /\ ~y.r.draining
  <2>1. CASE flow
    BY <1>3, <1>4, <1>5, <2>1, HookDoes DEF RelayHooks
  <2>2. CASE ~flow
    BY <1>3, <1>4, <1>5, <2>2, ConnectDoes
  <2>. QED  BY <2>1, <2>2
<1>7. /\ relay \in Layer /\ relay.flow = flow /\ relay.linked = (reading = Sides)
      /\ relay.queue = <<>> /\ ~relay.crashed
      /\ relay.taken = [s \in Sides |-> 0] /\ relay.passed = [s \in Sides |-> <<>>]
  BY <1>5, <1>6 DEF Same, Relays
<1>8. ~Cut(relay) /\ relay.at # "message"
  BY <1>6 DEF Cut
<1>9. Typed
  <2>1. state \in [Sides -> SUBSET Open] /\ reading \subseteq Sides /\ stopped \subseteq Sides
    BY <1>1 DEF Closed, Sides
  <2>2. injected \in 0 .. MaxInject
    BY <1>1, BoundAssumption
  <2>. QED  BY <1>1, <1>4, <1>7, <2>1, <2>2 DEF Typed, RelayTypeOK, Kinds
<1>10. Good
  <2>1. Phases(relay)
    BY <1>5, <1>6, <1>7, <1>8 DEF Phases
  <2>2. Stops(relay, state, stopped)
    <3>1. DOMAIN relay.queue = {}
      BY <1>7
    <3>2. \A s \in Sides : s = "client" \/ relay.linked => "read" \in state[s]
      BY <1>1, <1>7 DEF Open, Sides
    <3>. QED  BY <3>1, <3>2 DEF Stops
  <2>3. Numbers(relay, NoEvent)
    <3>1. ASSUME NEW s \in Sides
          PROVE  Due(relay, NoEvent, s) = 0 /\ relay.taken[s] = 0 /\ ~IsData(NoEvent, s)
      BY <1>7, EventTypes, Counts
    <3>2. \A s \in Sides : InOrder(relay.queue, s, 0, 0)
      BY <1>7, NothingInOrder
    <3>. QED  BY <3>1, <3>2 DEF Numbers
  <2>. QED  BY <1>8, <2>1, <2>2, <2>3 DEF Good, InHand
<1>11. Pipes!Init
  <2>1. (kind = "tcp") \in BOOLEAN /\ relay.linked \in BOOLEAN /\ Sides \ stopped = Sides
    BY <1>1, <1>7 DEF Layer
  <2>. QED  BY <1>7, <1>8, <2>1 DEF Pipes!Init, Cut
<1>. QED  BY <1>9, <1>10, <1>11 DEF RelayInv

LEMMA NextRight == Typed /\ RelayNext => Right
<1> SUFFICES ASSUME Typed, RelayNext PROVE Right
  OBVIOUS
<1>1. ASSUME NEW s \in Sides, Data(s) PROVE Right
  BY <1>1, IncomingRight DEF Data
<1>2. ASSUME NEW s \in Sides, Inject(s) PROVE Right
  BY <1>2, IncomingRight DEF Inject
<1>. QED  BY <1>1, <1>2, EndsRight, CloseFrameRight, HookReturnsRight, OpenedRight,
             OpenFailsRight, ReplayRight DEF RelayNext

LEMMA TypedNext == Typed /\ [RelayNext]_relayVars => Typed'
<1> SUFFICES ASSUME Typed, [RelayNext]_relayVars PROVE Typed'
  OBVIOUS
<1>1. CASE UNCHANGED relayVars
  BY <1>1 DEF Typed, RelayTypeOK, relayVars
<1>2. CASE RelayNext
  <2>1. relay' \in Layer /\ state' \in [Sides -> SUBSET Open] /\ relay'.flow = relay.flow
    BY <1>2, NextRight DEF Right
  <2>2. kind' = kind /\ reading' \subseteq Sides /\ stopped' \subseteq Sides
        /\ injected' \in 0 .. MaxInject
    <3>1. reading \subseteq Sides /\ stopped \subseteq Sides /\ injected \in 0 .. MaxInject
      BY DEF Typed, RelayTypeOK
    <3>2. ASSUME NEW s \in Sides, Data(s) \/ Ends(s) \/ CloseFrame(s)
          PROVE  /\ kind' = kind /\ reading' \subseteq reading /\ injected' = injected
                 /\ stopped' = stopped \/ stopped' = stopped \cup {s}
      BY <3>2 DEF Data, Ends, CloseFrame
    <3>3. ASSUME NEW s \in Sides, Inject(s)
          PROVE  /\ kind' = kind /\ reading' = reading /\ stopped' = stopped
                 /\ injected' \in 0 .. MaxInject
      BY <3>1, <3>3, BoundAssumption DEF Inject
    <3>4. ASSUME HookReturns \/ Opened \/ OpenFails \/ Replay
          PROVE  /\ kind' = kind /\ stopped' = stopped /\ injected' = injected
                 /\ reading' = reading \/ reading' = reading \cup {"server"}
      BY <3>4 DEF HookReturns, Opened, OpenFails, Replay
    <3>5. "server" \in Sides
      BY DEF Sides
    <3>. QED  BY <1>2, <3>1, <3>2, <3>3, <3>4, <3>5 DEF RelayNext
  <2>. QED  BY <2>1, <2>2 DEF Typed, RelayTypeOK
<1>. QED  BY <1>1, <1>2

LEMMA RelayInvNext ==
    RelayInv /\ [RelayNext]_relayVars => RelayInv' /\ [relay'.crashed \/ Pipes!Next]_(Pipes!vars)
<1> SUFFICES ASSUME RelayInv, [RelayNext]_relayVars
             PROVE  RelayInv' /\ [relay'.crashed \/ Pipes!Next]_(Pipes!vars)
  OBVIOUS
<1>1. Typed /\ Typed'
  BY TypedNext DEF RelayInv
<1>2. CASE UNCHANGED relayVars
  <2>1. UNCHANGED Pipes!vars
    BY <1>2 DEF relayVars, Pipes!vars
  <2>2. (~relay.crashed => Good)'
    BY <1>2 DEF RelayInv, relayVars, Good, Phases, Stops, Cut, Numbers, Due, InHand
  <2>. QED  BY <1>1, <2>1, <2>2 DEF RelayInv
<1>3. CASE RelayNext
  <2>1. /\ relay.crashed => relay'.crashed
        /\ Good /\ ~relay'.crashed => Good' /\ [Pipes!Next]_(Pipes!vars)
    BY <1>1, <1>3, NextRight DEF Right
  <2>2. CASE relay'.crashed
    BY <1>1, <2>2 DEF RelayInv
  <2>3. CASE ~relay'.crashed
    BY <1>1, <2>1, <2>3 DEF RelayInv
  <2>. QED  BY <2>2, <2>3
<1>. QED  BY <1>2, <1>3

\* The types of the layer's state, whatever arrives and whenever it crashes.
THEOREM RelayTypeCorrect == RelaySpec => []RelayTypeOK
<1>1. RelayInit => Typed
  BY RelayInitRight DEF RelayInv
<1>2. Typed => RelayTypeOK
  BY DEF Typed
<1>. QED  BY <1>1, <1>2, TypedNext, PTL DEF RelaySpec

\* Up to a crash every step of the layer is a step of the two channels or none: messages are
\* passed on in order and without a gap, and only until the last side, or with UDP and
\* WebSocket any side, has stopped.
THEOREM ChannelledHolds == RelaySpec => Channelled
<1>1. RelayInit => RelayInv /\ Pipes!Init
  BY RelayInitRight
<1>2. RelayInv /\ [RelayNext]_relayVars => RelayInv'
  BY RelayInvNext
<1>3. RelayInv /\ [RelayNext]_relayVars => [relay'.crashed \/ Pipes!Next]_(Pipes!vars)
  BY RelayInvNext
<1>. QED  BY <1>1, <1>2, <1>3, PTL DEF RelaySpec, Channelled

==============================================================================
