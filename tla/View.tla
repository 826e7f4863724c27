--------------------------------- MODULE View ---------------------------------
(***************************************************************************)
(* addons/view.py: the flow store and the sorted, filtered view of it that   *)
(* the user interfaces show, with its focus and its settings.               *)
(*                                                                          *)
(* The view is a list sorted by a key that is generated once per flow and   *)
(* order and cached in the flow's settings; the list also remembers the key *)
(* each flow was inserted with, and finds a flow by its key.  The object is *)
(* one record; each operator below takes it and returns what the code       *)
(* leaves.  Flows change independently of it, and it is told afterwards.    *)
(*                                                                          *)
(* Orders by time of creation (t) and by size (z) stand for the four there  *)
(* are: one key never changes, the other may.  A filter is the set of sizes *)
(* it matches.                                                              *)
(***************************************************************************)
EXTENDS Naturals, Sequences, FiniteSets, SequencesExt

CONSTANTS
    Flows,    \* the flows: 1 .. N, in the order of their creation
    Sizes,    \* what a flow can look like
    Marked,   \* the flows the user has marked
    None

ASSUME FlowAssumption ==
    /\ Flows \subseteq Nat /\ IsFiniteSet(Flows)
    /\ Sizes \subseteq Nat /\ None \notin Nat

VARIABLE view    \* the View object and its flows: see ViewRec

Orders == {"t", "z"}
Keys == Flows \cup Sizes \cup {None}

\* size: what each flow looks like now.  cached: settings[f]["_order_..."].  shown:
\* _view, with the key of each position.
ViewRec ==
    [size : [Flows -> Sizes],
     store : Seq(Flows), cached : [Flows -> [Orders -> Keys]],
     shown : Seq([flow : Flows, key : Keys]), order : Orders, reversed : BOOLEAN,
     matches : SUBSET Sizes, showMarked : BOOLEAN, follow : BOOLEAN,
     focus : Flows \cup {None}, raised : BOOLEAN]

Elems(s) == {s[i] : i \in DOMAIN s}

\* What of a sequence is in S, in its order.
Only(s, S) == FlattenSeq([i \in DOMAIN s |-> IF s[i] \in S THEN <<s[i]>> ELSE <<>>])

NoKeys == [o \in Orders |-> None]

-----------------------------------------------------------------------------
\* _OrderKey and the sorted list.

Generate(v, f) == IF v.order = "t" THEN f ELSE v.size[f]

Stored(v, f) == f \in Elems(v.store)

\* __call__: the cached key of a stored flow, or a new one.
Key(v, f) ==
    IF Stored(v, f) /\ v.cached[f][v.order] # None THEN v.cached[f][v.order]
    ELSE Generate(v, f)

\* __call__ caches what it generates for a stored flow.
Keyed(v, f) == IF Stored(v, f) THEN [v EXCEPT !.cached[f][v.order] = Key(v, f)] ELSE v

\* Where the list looks for a flow, and whether it finds it; looking caches the key.
At(v, f) == {i \in DOMAIN v.shown : v.shown[i] = [flow |-> f, key |-> Key(v, f)]}
Finds(v, f) == At(v, f) # {}
LookedUp(v, f) == IF v.shown = <<>> THEN v ELSE Keyed(v, f)
Shown(v) == {e.flow : e \in Elems(v.shown)}

\* bisect_right.
Bisect(v, f) == Cardinality({i \in DOMAIN v.shown : v.shown[i].key <= Key(v, f)})

Inserted(v, f) ==
    [v EXCEPT !.shown = InsertAt(@, Bisect(v, f) + 1, [flow |-> f, key |-> Key(v, f)])]

\* remove is a ValueError if the list does not find the flow.
Taken(v, f) ==
    IF Finds(v, f) THEN [v EXCEPT !.shown = RemoveAt(@, CHOOSE i \in At(v, f) : TRUE)]
    ELSE [v EXCEPT !.raised = TRUE]

BaseAdd(v, f) == Inserted(Keyed(v, f), f)

-----------------------------------------------------------------------------
\* Focus.

\* __getitem__, from 0.
Item(v, i) ==
    v.shown[IF v.reversed THEN Len(v.shown) - i ELSE i + 1].flow

Lesser(i, j) == IF i < j THEN i ELSE j

\* _nearest: _bisect counts from the other end in a reversed view.
Nearest(v, f) ==
    LET at == CASE ~v.reversed -> Bisect(v, f)
                [] v.reversed /\ Bisect(v, f) = 0 -> 1
                [] OTHER -> Len(v.shown) - Bisect(v, f) + 1
    IN  Lesser(at, Len(v.shown) - 1)

\* _sig_view_refresh.
Refreshed(v) ==
    CASE v.shown = <<>>                              -> [v EXCEPT !.focus = None]
      [] v.shown # <<>> /\ v.focus = None            -> [v EXCEPT !.focus = Item(v, 0)]
      [] v.shown # <<>> /\ v.focus # None /\ ~Finds(v, v.focus) ->
           [LookedUp(v, v.focus) EXCEPT !.focus = Item(v, Nearest(v, v.focus))]
      [] OTHER                                       -> v

\* Mutant: the focus does not hear of the flow.
HiddenSilently(v, f) == Taken(v, f)
\* sig_view_remove, with the flow's place in the list, which is not reversed.
Hidden(v, f) ==
    LET at == CHOOSE i \in At(v, f) : TRUE
        w == Taken(v, f)
    IN  CASE w.shown = <<>> -> [w EXCEPT !.focus = None]
          [] w.shown # <<>> /\ w.focus = f ->
               [w EXCEPT !.focus = Item(w, Lesser(at - 1, Len(w.shown) - 1))]
          [] OTHER -> w

\* A flow comes into view: focus_follow, then _sig_view_add.
Appears(v, f) ==
    LET w == BaseAdd(v, f)
    IN  IF w.follow \/ w.focus = None THEN [w EXCEPT !.focus = f] ELSE w

-----------------------------------------------------------------------------
\* The view's operations.

Filtered(v, f) == v.size[f] \in v.matches

\* Mutant: the key is changed while the list still holds the flow under the old one.
ReorderedTooLate(v, f) ==
    IF v.cached[f][v.order] = Generate(v, f) THEN v
    ELSE Inserted(Taken([v EXCEPT !.cached[f][v.order] = Generate(v, f)], f), f)
\* _OrderKey.refresh.
Reordered(v, f) ==
    IF v.cached[f][v.order] = Generate(v, f) THEN v
    ELSE Refreshed(Inserted([Taken(v, f) EXCEPT !.cached[f][v.order] = Generate(v, f)], f))

\* add: a flow that is there already is ignored.  Marks are not looked at.
Added(v, f) ==
    LET w == [v EXCEPT !.store = Append(@, f)] IN
    CASE Stored(v, f)                     -> v
      [] ~Stored(v, f) /\ ~Filtered(v, f) -> w
      [] OTHER                            -> Appears(w, f)

\* update.  Only a flow that stays in view gets a new key, and only in this order.
Updated(v, f) ==
    LET w == LookedUp(v, f) IN
    CASE ~Stored(v, f)                                     -> v
      [] Stored(v, f) /\ Filtered(v, f) /\ ~Finds(w, f)    -> Appears(w, f)
      [] Stored(v, f) /\ Filtered(v, f) /\ Finds(w, f)     -> Reordered(w, f)
      [] Stored(v, f) /\ ~Filtered(v, f) /\ Finds(w, f)    -> Hidden(w, f)
      [] OTHER                                             -> w

\* Mutant: the settings are not told.
RemovedKeepingSettings(v, f) ==
    IF ~Stored(v, f) THEN v
    ELSE LET w == IF Finds(v, f) THEN Hidden(v, f) ELSE v
         IN  [w EXCEPT !.store = Only(@, Flows \ {f})]
\* remove.
Removed(v, f) ==
    IF ~Stored(v, f) THEN v
    ELSE LET w == IF Finds(v, f) THEN Hidden(v, f) ELSE v
         IN  [w EXCEPT !.store = Only(@, Flows \ {f}), !.cached[f] = NoKeys]

\* A new list, filled with one flow after the other.
Rebuilt(v, s) == FoldLeft(BaseAdd, [v EXCEPT !.shown = <<>>], s)

\* _refilter: keys that are cached stay.
Refiltered(v) ==
    LET visible == {f \in Flows : (v.showMarked => f \in Marked) /\ Filtered(v, f)}
    IN  Refreshed(Rebuilt(v, Only(v.store, visible)))

\* sig_store_refresh.
Expired(v) ==
    [v EXCEPT !.cached = [f \in Flows |-> IF Stored(v, f) THEN @[f] ELSE NoKeys]]

\* set_order: what is shown, sorted anew.
Sorted(v, order) ==
    Rebuilt([v EXCEPT !.order = order], [i \in DOMAIN v.shown |-> v.shown[i].flow])

Cleared(v) == Expired(Refreshed([v EXCEPT !.store = <<>>, !.shown = <<>>]))

ClearedUnmarked(v) ==
    Expired(Refiltered([v EXCEPT !.store = Only(@, Marked)]))

-----------------------------------------------------------------------------
\* Steps.

NewView(size, follow) ==
    [size |-> size, store |-> <<>>, cached |-> [f \in Flows |-> NoKeys], shown |-> <<>>,
     order |-> "t", reversed |-> FALSE, matches |-> Sizes, showMarked |-> FALSE,
     follow |-> follow, focus |-> None, raised |-> FALSE]

ViewInit == \E size \in [Flows -> Sizes], follow \in BOOLEAN : view = NewView(size, follow)

\* A flow changes; hooks that do not lead to update are left out of sight.
Change(f) == \E z \in Sizes \ {view.size[f]} : view' = [view EXCEPT !.size[f] = z]

Add(f) == ~Stored(view, f) /\ view' = Added(view, f)
Update(f) == Stored(view, f) /\ view' = Updated(view, f)
RemoveFlow(f) == Stored(view, f) /\ view' = Removed(view, f)
Clear == view' = Cleared(view)
ClearUnmarked == view' = ClearedUnmarked(view)
SetOrder(o) == o # view.order /\ view' = Sorted(view, o)
SetReversed == view' = Refreshed([view EXCEPT !.reversed = ~@])
SetFilter(m) == m # view.matches /\ view' = Refiltered([view EXCEPT !.matches = m])
ToggleMarked == view' = Refiltered([view EXCEPT !.showMarked = ~@])
\* view.focus.go, next, prev
FocusOn(f) == f \in Shown(view) /\ view' = [view EXCEPT !.focus = f]

User ==
    \/ \E f \in Flows : RemoveFlow(f) \/ FocusOn(f)
    \/ \E o \in Orders : SetOrder(o)
    \/ \E z \in Sizes : SetFilter({z}) \/ SetFilter(Sizes)
    \/ Clear \/ ClearUnmarked \/ SetReversed \/ ToggleMarked

ViewNext == User \/ \E f \in Flows : Change(f) \/ Add(f) \/ Update(f)

ViewSpec == ViewInit /\ [][ViewNext]_view

-----------------------------------------------------------------------------
(* Properties *)

ViewTypeOK == view \in ViewRec

\* The list's positions are sorted, and every flow is where its key says: no lookup or
\* removal fails and no flow is shown twice, whatever changed unnoticed meanwhile.
ViewFindsFlows ==
    /\ ~view.raised
    /\ \A i, j \in DOMAIN view.shown : i < j =>
          /\ view.shown[i].key <= view.shown[j].key
          /\ view.shown[i].flow # view.shown[j].flow
    /\ \A f \in Shown(view) : Stored(view, f) /\ Finds(view, f)

\* There is a focus exactly if something is shown, and it is shown.
FocusShown ==
    IF view.shown = <<>> THEN view.focus = None ELSE view.focus \in Shown(view)

\* The settings of a flow expire with the flow: none returns with the old ones.
SettingsExpire == \A f \in Flows : ~Stored(view, f) => view.cached[f] = NoKeys

\* The list is one that can be searched, and what listens to the view agrees with it,
\* the focus and the settings of the flows, in whatever order it is rearranged.
ViewAgrees == ViewFindsFlows /\ FocusShown /\ SettingsExpire

==============================================================================
