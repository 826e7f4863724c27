------------------------------- MODULE Mailbox -------------------------------
(***************************************************************************)
(* What a proxy layer promises to whoever feeds it events: a serial FIFO    *)
(* mailbox.  Events are handled one at a time, each exactly once and in the *)
(* order in which they arrived; an event that finds the mailbox busy waits. *)
(* A handler that fails breaks it: the order is no longer kept.             *)
(* Layer.tla is shown to implement this specification.                      *)
(***************************************************************************)
EXTENDS Sequences

CONSTANTS Events,   \* the events that can be sent to the layer
          NoEvent   \* "nothing is being handled"

VARIABLES inbox,    \* events that arrived and are not yet handled
          current,  \* the event being handled, or NoEvent
          broken    \* an event was abandoned: what waited then may stay behind

vars == <<inbox, current, broken>>

Init ==
    /\ inbox = <<>>
    /\ current = NoEvent
    /\ broken = FALSE

\* An event that finds the layer free is handled at once, in a broken one past those
\* that stayed behind.
Begin(e) ==
    /\ current = NoEvent
    /\ inbox = <<>> \/ broken
    /\ current' = e
    /\ UNCHANGED <<inbox, broken>>

\* An event that finds the layer busy waits behind the earlier ones.
Wait(e) ==
    /\ current # NoEvent
    /\ inbox' = Append(inbox, e)
    /\ UNCHANGED <<current, broken>>

\* Handling ends, and the oldest waiting event, if any, is next.
Proceed ==
    /\ current # NoEvent /\ inbox # <<>>
    /\ current' = Head(inbox)
    /\ inbox' = Tail(inbox)
    /\ UNCHANGED broken
Rest ==
    /\ current # NoEvent
    /\ inbox = <<>> \/ broken
    /\ current' = NoEvent
    /\ UNCHANGED <<inbox, broken>>

\* Handling is abandoned.
Break ==
    /\ current # NoEvent
    /\ current' = NoEvent
    /\ broken' = TRUE
    /\ UNCHANGED inbox

Next == (\E e \in Events : Begin(e) \/ Wait(e)) \/ Proceed \/ Rest \/ Break

Spec == Init /\ [][Next]_vars

==============================================================================
