------------------------------- MODULE Channels -------------------------------
(***************************************************************************)
(* What a relay promises to the two peers it connects: a channel in each    *)
(* direction that passes the messages of its sender on in order and without *)
(* a gap, until it is cut.  With half-closing peers it is cut when neither  *)
(* sends any more, otherwise as soon as one does not.                       *)
(* Relay.tla is shown to implement this specification.                      *)
(***************************************************************************)
EXTENDS Naturals, Sequences

CONSTANT Sides        \* the two peers

VARIABLES
    halfClose,  \* one direction may outlive the other
    taken,      \* how many messages came from, or in the name of, each side
    passed,     \* those of each side that were passed on, by their number
    sending,    \* the sides that have not stopped sending
    linked,     \* both sides have been connected
    cut         \* nothing more will be passed on

vars == <<halfClose, taken, passed, sending, linked, cut>>

Init ==
    /\ halfClose \in BOOLEAN
    /\ taken = [s \in Sides |-> 0]
    /\ passed = [s \in Sides |-> <<>>]
    /\ sending = Sides
    /\ linked \in BOOLEAN
    /\ cut = FALSE

\* A message waits.
Take(s) ==
    /\ taken' = [taken EXCEPT ![s] = @ + 1]
    /\ UNCHANGED <<halfClose, passed, sending, linked, cut>>

Pass(s) ==
    /\ linked /\ ~cut
    /\ Len(passed[s]) < taken[s]
    /\ passed' = [passed EXCEPT ![s] = Append(@, Len(@) + 1)]
    /\ UNCHANGED <<halfClose, taken, sending, linked, cut>>

\* A message is passed on as soon as it comes, if none waits.
TakeAndPass(s) ==
    /\ linked /\ ~cut
    /\ Len(passed[s]) = taken[s]
    /\ taken' = [taken EXCEPT ![s] = @ + 1]
    /\ passed' = [passed EXCEPT ![s] = Append(@, Len(@) + 1)]
    /\ UNCHANGED <<halfClose, sending, linked, cut>>

Stop(s) ==
    /\ sending' = sending \ {s}
    /\ UNCHANGED <<halfClose, taken, passed, linked, cut>>

Link ==
    /\ ~linked /\ ~cut
    /\ linked' = TRUE
    /\ UNCHANGED <<halfClose, taken, passed, sending, cut>>

\* The last side, or without half-closing any side, has stopped, perhaps in this step;
\* or the sides could not be connected.
Cut ==
    /\ ~cut
    /\ sending' = sending \/ \E s \in Sides : sending' = sending \ {s}
    /\ ~linked \/ (IF halfClose THEN sending' = {} ELSE sending' # Sides)
    /\ cut' = TRUE
    /\ UNCHANGED <<halfClose, taken, passed, linked>>

Next == Link \/ Cut \/ \E s \in Sides : Take(s) \/ Pass(s) \/ TakeAndPass(s) \/ Stop(s)

Spec == Init /\ [][Next]_vars
==============================================================================
