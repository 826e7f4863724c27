------------------------- MODULE ClientPlaybackProofs -------------------------
(***************************************************************************)
(* Proofs about View.tla and ClientPlayback.tla, for any flows, sizes and   *)
(* number of replays: the list of the view can always be searched, and the  *)
(* focus and the settings agree with it; no flow is worked on by two        *)
(* streams unless check could not see the other.                            *)
(***************************************************************************)
EXTENDS ClientPlayback, SequenceLemmas, TLAPS

\* Every position holds its flow's cached key, and the positions are sorted by it.
ListOK(v) ==
    /\ \A i, j \in DOMAIN v.shown : i < j =>
          /\ v.shown[i].key <= v.shown[j].key
          /\ v.shown[i].flow # v.shown[j].flow
    /\ \A i \in DOMAIN v.shown :
          /\ Stored(v, v.shown[i].flow)
          /\ v.shown[i].key # None
          /\ v.cached[v.shown[i].flow][v.order] = v.shown[i].key

Listed(v) == v \in ViewRec /\ ~v.raised /\ Distinct(v.store) /\ ListOK(v)

FocusOK(v) == IF v.shown = <<>> THEN v.focus = None ELSE v.focus \in Shown(v)
SettingsOK(v) == \A f \in Flows : ~Stored(v, f) => v.cached[f] = NoKeys

\* What each operation of the view leaves true.
ViewOK(v) == Listed(v) /\ FocusOK(v) /\ SettingsOK(v)

\* What the list's operations leave alone: all but the list and the keys of stored flows.
Beside(u, v) ==
    /\ u.size = v.size /\ u.store = v.store /\ u.order = v.order
    /\ u.reversed = v.reversed /\ u.matches = v.matches /\ u.showMarked = v.showMarked
    /\ u.follow = v.follow /\ u.raised = v.raised
    /\ \A f \in Flows : ~Stored(v, f) => u.cached[f] = v.cached[f]

LEMMA BesideSettings ==
    ASSUME NEW u, NEW v, Beside(u, v), SettingsOK(v)
    PROVE  SettingsOK(u)
BY DEF Beside, SettingsOK, Stored

LEMMA BesideTwice ==
    ASSUME NEW u, NEW v, NEW w, Beside(u, v), Beside(v, w)
    PROVE  Beside(u, w)
BY DEF Beside, Stored

------------------------------------------------------------------------------
(* Keys. *)

Entry == [flow : Flows, key : Keys]

LEMMA ShownIs ==
    ASSUME NEW v \in ViewRec
    PROVE  /\ v.shown \in Seq(Entry) /\ Len(v.shown) \in Nat
           /\ DOMAIN v.shown = 1 .. Len(v.shown)
           /\ \A i \in DOMAIN v.shown : /\ v.shown[i] \in Entry
                                        /\ v.shown[i].flow \in Flows
                                        /\ v.shown[i].key \in Keys
           /\ Shown(v) = {v.shown[i].flow : i \in DOMAIN v.shown}
           /\ Shown(v) \subseteq Flows
           /\ v.shown = <<>> <=> Len(v.shown) = 0
<1>1. v.shown \in Seq(Entry)
  BY DEF ViewRec, Entry
<1>2. \A i \in DOMAIN v.shown : v.shown[i] \in Entry
  BY <1>1
<1>3. \A e \in Entry : e.flow \in Flows /\ e.key \in Keys
  BY DEF Entry
<1>4. Shown(v) = {v.shown[i].flow : i \in DOMAIN v.shown}
  BY DEF Shown, Elems
<1>. QED  BY <1>1, <1>2, <1>3, <1>4

LEMMA KeyIs ==
    ASSUME NEW v \in ViewRec, NEW f \in Flows
    PROVE  /\ Key(v, f) \in Keys /\ Key(v, f) \in Nat /\ Key(v, f) # None
           /\ Generate(v, f) \in Keys /\ Generate(v, f) # None
           /\ \A g \in Flows, o \in Orders : v.cached[g][o] \in Keys
           /\ v.order \in Orders
<1>1. v.size[f] \in Sizes /\ v.order \in Orders /\ v.cached \in [Flows -> [Orders -> Keys]]
  BY DEF ViewRec
<1>2. \A g \in Flows, o \in Orders : v.cached[g][o] \in Keys
  BY <1>1
<1>3. \A k \in Keys : k # None => k \in Nat
  BY FlowAssumption DEF Keys
<1>4. Generate(v, f) \in Keys /\ Generate(v, f) # None
  BY <1>1, FlowAssumption DEF Generate, Keys
<1>5. Key(v, f) \in Keys /\ Key(v, f) # None
  BY <1>1, <1>2, <1>4 DEF Key
<1>. QED  BY <1>1, <1>2, <1>3, <1>4, <1>5

LEMMA KeyedIs ==
    ASSUME NEW v \in ViewRec, NEW f \in Flows
    PROVE  /\ Keyed(v, f) \in ViewRec
           /\ Beside(Keyed(v, f), v)
           /\ Keyed(v, f).shown = v.shown /\ Keyed(v, f).focus = v.focus
           /\ Key(Keyed(v, f), f) = Key(v, f)
           /\ Stored(v, f) => Keyed(v, f).cached[f][v.order] = Key(v, f)
           /\ \A g \in Flows, o \in Orders :
                 v.cached[g][o] # None => Keyed(v, f).cached[g][o] = v.cached[g][o]
<1> DEFINE u == Keyed(v, f)
           k == Key(v, f)
<1>1. k \in Keys /\ k # None /\ v.order \in Orders
  BY KeyIs
<1>2. v.cached \in [Flows -> [Orders -> Keys]]
  BY DEF ViewRec
<1>3. CASE ~Stored(v, f)
  BY <1>3 DEF Keyed, Beside
<1>4. CASE Stored(v, f)
  <2>1. u = [v EXCEPT !.cached[f][v.order] = k]
    BY <1>4 DEF Keyed
  <2>2. /\ u.cached = [v.cached EXCEPT ![f][v.order] = k]
        /\ u = [v EXCEPT !.cached = u.cached]
    BY <2>1 DEF ViewRec
  <2>3. u.cached \in [Flows -> [Orders -> Keys]]
    BY <1>1, <1>2, <2>2
  <2>4. u \in ViewRec
    BY <2>2, <2>3 DEF ViewRec
  <2>5. /\ u.cached[f][v.order] = k
        /\ \A g \in Flows : g # f => u.cached[g] = v.cached[g]
        /\ \A o \in Orders : o # v.order => u.cached[f][o] = v.cached[f][o]
    BY <1>1, <1>2, <2>2
  <2>6. /\ u.size = v.size /\ u.store = v.store /\ u.order = v.order
        /\ u.reversed = v.reversed /\ u.matches = v.matches /\ u.showMarked = v.showMarked
        /\ u.follow = v.follow /\ u.raised = v.raised /\ u.shown = v.shown
        /\ u.focus = v.focus
    BY <2>2 DEF ViewRec
  <2> HIDE DEF u
  <2>7. Beside(u, v)
    BY <1>4, <2>5, <2>6 DEF Beside
  <2>8. Key(u, f) = k
    <3>1. Stored(u, f)
      BY <1>4, <2>6 DEF Stored
    <3>. QED  BY <1>1, <2>5, <2>6, <3>1 DEF Key
  <2>9. v.cached[f][v.order] # None => k = v.cached[f][v.order]
    BY <1>4 DEF Key
  <2>10. \A g \in Flows, o \in Orders : v.cached[g][o] # None => u.cached[g][o] = v.cached[g][o]
    BY <2>5, <2>9
  <2>. QED  BY <2>4, <2>5, <2>6, <2>7, <2>8, <2>10 DEF u
<1>. QED  BY <1>3, <1>4

\* Looking a flow up changes no key that is in use.
LEMMA KeyedListed ==
    ASSUME NEW v, Listed(v), NEW f \in Flows
    PROVE  Listed(Keyed(v, f))
<1> DEFINE u == Keyed(v, f)
<1>1. v \in ViewRec
  BY DEF Listed
<1>2. /\ u \in ViewRec /\ Beside(u, v) /\ u.shown = v.shown
      /\ \A g \in Flows, o \in Orders : v.cached[g][o] # None => u.cached[g][o] = v.cached[g][o]
  BY <1>1, KeyedIs
<1> HIDE DEF u
<1>3. v.order \in Orders
  BY <1>1 DEF ViewRec
<1>4. ListOK(u)
  BY <1>1, <1>2, <1>3, ShownIs DEF Listed, ListOK, Beside, Stored
<1>. QED  BY <1>2, <1>4 DEF Listed, Beside, u

------------------------------------------------------------------------------
(* The list. *)

LEMMA FindsIff ==
    ASSUME NEW v, Listed(v), NEW f \in Flows
    PROVE  /\ Finds(v, f) <=> f \in Shown(v)
           /\ \A i \in DOMAIN v.shown : v.shown[i].flow = f => At(v, f) = {i}
<1>1. v \in ViewRec /\ v.order \in Orders
  BY DEF Listed, ViewRec
<1>2. ASSUME NEW i \in DOMAIN v.shown, v.shown[i].flow = f PROVE At(v, f) = {i}
  <2>1. Key(v, f) = v.shown[i].key
    BY <1>2 DEF Listed, ListOK, Key
  <2>2. i \in At(v, f)
    <3>1. v.shown[i] = [flow |-> f, key |-> Key(v, f)]
      BY <1>1, <1>2, <2>1, ShownIs DEF Entry
    <3>. QED  BY <3>1 DEF At
  <2>3. ASSUME NEW j \in At(v, f) PROVE j = i
    <3>1. j \in DOMAIN v.shown /\ v.shown[j].flow = f
      BY DEF At
    <3>2. i \in Int /\ j \in Int
      BY <1>1, <3>1, ShownIs
    <3>3. ~(i < j) /\ ~(j < i)
      BY <1>2, <3>1 DEF Listed, ListOK
    <3>. QED  BY <3>2, <3>3
  <2>. QED  BY <2>2, <2>3
<1>3. ASSUME f \in Shown(v) PROVE Finds(v, f)
  <2>1. PICK i \in DOMAIN v.shown : v.shown[i].flow = f
    BY <1>1, <1>3, ShownIs
  <2>. QED  BY <1>2, <2>1 DEF Finds
<1>4. ASSUME Finds(v, f) PROVE f \in Shown(v)
  <2>1. PICK i \in DOMAIN v.shown : v.shown[i] = [flow |-> f, key |-> Key(v, f)]
    BY <1>4 DEF Finds, At
  <2>. QED  BY <1>1, <2>1, ShownIs
<1>. QED  BY <1>2, <1>3, <1>4

\* The numbers up to the greatest of a set that has no gaps are counted by it.
LEMMA Initial ==
    ASSUME NEW n \in Nat, NEW D \in SUBSET (1 .. n),
           \A i \in D, j \in 1 .. n : j < i => j \in D
    PROVE  Cardinality(D) \in 0 .. n /\ D = 1 .. Cardinality(D)
<1>1. CASE D = {}
  <2>1. Cardinality(D) = 0
    BY <1>1, FS_EmptySet
  <2>. QED  BY <1>1, <2>1
<1>2. CASE D # {}
  <2> DEFINE g == Greatest(D)
  <2>1. g \in D
    BY <1>2, GreatestIn
  <2>2. \A k \in D : g >= k
    <3>1. PICK m \in D : \A k \in D : m >= k
      <4> DEFINE T == {n - k : k \in D}
      <4>1. T \in SUBSET Nat /\ T # {}
        <5>1. \A k \in D : n - k \in Nat
          OBVIOUS
        <5>. QED  BY <1>2, <5>1
      <4>2. PICK d \in T : \A e \in T : d <= e
        BY <4>1, LeastNatural
      <4>3. PICK m \in D : d = n - m
        OBVIOUS
      <4>4. ASSUME NEW k \in D PROVE m >= k
        <5>1. n - m <= n - k /\ m \in 1 .. n /\ k \in 1 .. n
          BY <4>2, <4>3
        <5>. QED  BY <5>1
      <4>. QED  BY <4>4
    <3>2. g = m
      BY <3>1, GreatestIs
    <3>. QED  BY <3>1, <3>2
  <2> HIDE DEF g
  <2>3. g \in 1 .. n
    BY <2>1
  <2>4. D = 1 .. g
    <3>1. ASSUME NEW k \in D PROVE k \in 1 .. g
      BY <2>2, <2>3
    <3>2. ASSUME NEW k \in 1 .. g PROVE k \in D
      BY <2>1, <2>3
    <3>. QED  BY <3>1, <3>2
  <2>5. Cardinality(1 .. g) = g
    BY <2>3, FS_Interval
  <2>. QED  BY <2>3, <2>4, <2>5
<1>. QED  BY <1>1, <1>2

LEMMA InsertAtIs ==
    ASSUME NEW S, NEW s \in Seq(S), NEW p \in 1 .. Len(s) + 1, NEW e \in S
    PROVE  /\ InsertAt(s, p, e) \in Seq(S)
           /\ Len(InsertAt(s, p, e)) = Len(s) + 1
           /\ InsertAt(s, p, e)[p] = e
           /\ \A i \in 1 .. Len(s) + 1 : i < p => InsertAt(s, p, e)[i] = s[i]
           /\ \A i \in 1 .. Len(s) + 1 : i > p => InsertAt(s, p, e)[i] = s[i - 1]
<1> DEFINE front == SubSeq(s, 1, p - 1)
           back == SubSeq(s, p, Len(s))
           fe == front \o <<e>>
           u == fe \o back
<1>1. /\ Len(s) \in Nat /\ p \in Nat /\ p <= Len(s) + 1 /\ p >= 1
      /\ <<e>> \in Seq(S) /\ Len(<<e>>) = 1 /\ <<e>>[1] = e
  OBVIOUS
<1>2. /\ front \in Seq(S) /\ Len(front) = p - 1 /\ \A i \in 1 .. p - 1 : front[i] = s[i]
  BY <1>1
<1>3. /\ back \in Seq(S) /\ Len(back) = Len(s) - (p - 1)
      /\ \A i \in 1 .. Len(s) - (p - 1) : back[i] = s[(p - 1) + i]
  BY <1>1
<1>4. InsertAt(s, p, e) = u
  BY DEF InsertAt
<1> HIDE DEF front, back
<1>5. /\ fe \in Seq(S) /\ Len(fe) = p /\ fe[p] = e
      /\ \A i \in 1 .. p - 1 : fe[i] = s[i]
  BY <1>1, <1>2
<1> HIDE DEF fe
<1>6. /\ u \in Seq(S) /\ Len(u) = Len(s) + 1
      /\ \A i \in 1 .. Len(s) + 1 : u[i] = IF i <= p THEN fe[i] ELSE back[i - p]
  <2>1. /\ u \in Seq(S) /\ Len(u) = Len(fe) + Len(back)
        /\ \A i \in 1 .. Len(fe) + Len(back) : u[i] = IF i <= Len(fe) THEN fe[i] ELSE back[i - Len(fe)]
    BY <1>3, <1>5, ConcatProperties
  <2>2. Len(fe) = p /\ Len(fe) + Len(back) = Len(s) + 1
    BY <1>1, <1>3, <1>5
  <2> HIDE DEF u
  <2>. QED  BY <2>1, <2>2
<1> HIDE DEF u
<1>7. ASSUME NEW i \in 1 .. Len(s) + 1, i < p PROVE u[i] = s[i]
  <2>1. i \in 1 .. p - 1 /\ i <= p
    BY <1>1, <1>7
  <2>. QED  BY <1>5, <1>6, <2>1
<1>8. ASSUME NEW i \in 1 .. Len(s) + 1, i > p PROVE u[i] = s[i - 1]
  <2>1. i - p \in 1 .. Len(s) - (p - 1) /\ (p - 1) + (i - p) = i - 1 /\ ~(i <= p)
    BY <1>1, <1>8
  <2>2. back[i - p] = s[i - 1]
    BY <1>3, <2>1
  <2>. QED  BY <1>6, <2>1, <2>2
<1>9. u[p] = e
  BY <1>1, <1>5, <1>6
<1>. QED  BY <1>4, <1>6, <1>7, <1>8, <1>9

LEMMA RemoveAtIs ==
    ASSUME NEW S, NEW s \in Seq(S), NEW b \in 1 .. Len(s)
    PROVE  /\ RemoveAt(s, b) \in Seq(S)
           /\ Len(RemoveAt(s, b)) = Len(s) - 1
           /\ \A i \in 1 .. Len(s) - 1 :
                 RemoveAt(s, b)[i] = IF i < b THEN s[i] ELSE s[i + 1]
<1> DEFINE front == SubSeq(s, 1, b - 1)
           back == SubSeq(s, b + 1, Len(s))
<1>1. Len(s) \in Nat /\ b \in Nat /\ b <= Len(s) /\ b >= 1
  OBVIOUS
<1>2. front \in Seq(S) /\ Len(front) = b - 1 /\ \A i \in 1 .. b - 1 : front[i] = s[i]
  BY <1>1
<1>3. /\ back \in Seq(S) /\ Len(back) = Len(s) - b
      /\ \A i \in 1 .. Len(s) - b : back[i] = s[b + i]
  BY <1>1
<1>4. RemoveAt(s, b) = front \o back
  BY DEF RemoveAt
<1> HIDE DEF front, back
<1> DEFINE u == front \o back
<1>5. /\ u \in Seq(S) /\ Len(u) = Len(s) - 1
      /\ \A i \in 1 .. Len(s) - 1 : u[i] = IF i <= b - 1 THEN front[i] ELSE back[i - (b - 1)]
  <2>1. /\ u \in Seq(S) /\ Len(u) = Len(front) + Len(back)
        /\ \A i \in 1 .. Len(front) + Len(back) :
              u[i] = IF i <= Len(front) THEN front[i] ELSE back[i - Len(front)]
    BY <1>2, <1>3, ConcatProperties
  <2>2. Len(front) = b - 1 /\ Len(front) + Len(back) = Len(s) - 1
    BY <1>1, <1>2, <1>3
  <2> HIDE DEF u
  <2>. QED  BY <2>1, <2>2
<1> HIDE DEF u
<1>6. ASSUME NEW i \in 1 .. Len(s) - 1
      PROVE  u[i] = IF i < b THEN s[i] ELSE s[i + 1]
  <2>1. CASE i < b
    <3>1. i \in 1 .. b - 1 /\ i <= b - 1
      BY <1>1, <2>1
    <3>. QED  BY <1>2, <1>5, <2>1, <3>1
  <2>2. CASE ~(i < b)
    <3>1. /\ i - (b - 1) \in 1 .. Len(s) - b /\ b + (i - (b - 1)) = i + 1
          /\ ~(i <= b - 1)
      BY <1>1, <2>2
    <3>2. back[i - (b - 1)] = s[i + 1]
      BY <1>3, <3>1
    <3>. QED  BY <1>5, <2>2, <3>1, <3>2
  <2>. QED  BY <2>1, <2>2
<1>7. RemoveAt(s, b) = u
  BY <1>4 DEF u
<1>. QED  BY <1>5, <1>6, <1>7


LEMMA BisectIs ==
    ASSUME NEW v, Listed(v), NEW f \in Flows
    PROVE  /\ Bisect(v, f) \in 0 .. Len(v.shown)
           /\ \A i \in DOMAIN v.shown : i <= Bisect(v, f) <=> v.shown[i].key <= Key(v, f)
<1> DEFINE k == Key(v, f)
           n == Len(v.shown)
           D == {i \in DOMAIN v.shown : v.shown[i].key <= k}
<1>1. v \in ViewRec
  BY DEF Listed
<1>2. k \in Nat /\ n \in Nat /\ DOMAIN v.shown = 1 .. n
  BY <1>1, KeyIs, ShownIs
<1>3. \A i \in 1 .. n : v.shown[i].key \in Nat
  BY <1>1, <1>2, ShownIs, FlowAssumption DEF Listed, ListOK, Keys
<1> HIDE DEF k, n
<1>4. ASSUME NEW i \in D, NEW j \in 1 .. n, j < i PROVE j \in D
  <2>1. v.shown[j].key <= v.shown[i].key /\ v.shown[i].key <= k
    BY <1>2, <1>4 DEF Listed, ListOK
  <2>. QED  BY <1>2, <1>3, <1>4, <2>1
<1>5. D \in SUBSET (1 .. n) /\ Bisect(v, f) = Cardinality(D)
  BY <1>2 DEF Bisect, k
<1>6. Bisect(v, f) \in 0 .. n /\ D = 1 .. Bisect(v, f)
  <2> HIDE DEF D
  <2>. QED  BY <1>2, <1>4, <1>5, Initial
<1>. QED  BY <1>2, <1>6 DEF k, n

LEMMA InsertedIs ==
    ASSUME NEW v, Listed(v), NEW f \in Flows, Stored(v, f), f \notin Shown(v),
           v.cached[f][v.order] = Key(v, f)
    PROVE  /\ Listed(Inserted(v, f)) /\ Beside(Inserted(v, f), v)
           /\ Inserted(v, f).focus = v.focus /\ Inserted(v, f).shown # <<>>
           /\ Shown(Inserted(v, f)) = Shown(v) \cup {f}
<1> DEFINE n == Len(v.shown)
           b == Bisect(v, f)
           e == [flow |-> f, key |-> Key(v, f)]
           s == v.shown
           t == InsertAt(s, b + 1, e)
           u == Inserted(v, f)
<1>1. v \in ViewRec
  BY DEF Listed
<1>2. /\ s \in Seq(Entry) /\ n \in Nat /\ n = Len(s) /\ DOMAIN s = 1 .. n
      /\ \A i \in 1 .. n : s[i] \in Entry /\ s[i].flow \in Flows /\ s[i].key \in Nat
      /\ Shown(v) = {s[i].flow : i \in 1 .. n}
  BY <1>1, ShownIs, FlowAssumption DEF Listed, ListOK, Keys
<1>3. e \in Entry /\ e.flow = f /\ e.key = Key(v, f) /\ Key(v, f) \in Nat /\ Key(v, f) # None
  BY <1>1, KeyIs DEF Entry
<1>4. b \in 0 .. n /\ \A i \in 1 .. n : i <= b <=> s[i].key <= Key(v, f)
  BY <1>2, BisectIs
<1>5. u = [v EXCEPT !.shown = t]
  BY DEF Inserted
<1> HIDE DEF n, b, e, t, s
<1> DEFINE p == b + 1
<1>6. /\ t \in Seq(Entry) /\ Len(t) = n + 1 /\ t[b + 1] = e
      /\ \A i \in 1 .. n + 1 : i <= b => t[i] = s[i]
      /\ \A i \in 1 .. n + 1 : i > b + 1 => t[i] = s[i - 1]
  <2>1. /\ p \in 1 .. Len(s) + 1 /\ s \in Seq(Entry) /\ e \in Entry
        /\ \A i \in Int : i <= b <=> i < p
    BY <1>2, <1>3, <1>4
  <2>2. t = InsertAt(s, p, e)
    BY DEF t
  <2> HIDE DEF p
  <2>3. /\ t \in Seq(Entry) /\ Len(t) = Len(s) + 1 /\ t[p] = e
        /\ \A i \in 1 .. Len(s) + 1 : i < p => t[i] = s[i]
        /\ \A i \in 1 .. Len(s) + 1 : i > p => t[i] = s[i - 1]
    BY <2>1, <2>2, InsertAtIs, SMTT(60)
  <2>. QED  BY <1>2, <2>1, <2>3 DEF p
<1>7. DOMAIN t = 1 .. n + 1
  BY <1>6
<1> HIDE DEF u
<1>8. /\ u \in ViewRec /\ u.shown = t /\ Beside(u, v) /\ u.focus = v.focus
      /\ u.cached = v.cached
  BY <1>1, <1>5, <1>6 DEF ViewRec, Beside, Entry
<1> DEFINE old(i) == IF i <= b THEN i ELSE i - 1
<1>9. ASSUME NEW i \in 1 .. n + 1, i # b + 1
      PROVE  old(i) \in 1 .. n /\ t[i] = s[old(i)] /\ (i <= b <=> old(i) <= b)
  BY <1>2, <1>4, <1>6, <1>9
<1>10. t[b + 1] = e /\ b + 1 \in 1 .. n + 1
  BY <1>2, <1>4, <1>6
<1>11. \A i \in 1 .. n : s[i].flow # f
  BY <1>2
<1>12. ASSUME NEW i \in 1 .. n + 1, NEW j \in 1 .. n + 1, i < j
       PROVE  t[i].key <= t[j].key /\ t[i].flow # t[j].flow
  <2>1. CASE i # b + 1 /\ j # b + 1
    <3>1. old(i) < old(j)
      BY <1>2, <1>4, <1>12, <2>1
    <3>2. old(i) \in DOMAIN v.shown /\ old(j) \in DOMAIN v.shown
          /\ t[i] = v.shown[old(i)] /\ t[j] = v.shown[old(j)]
      BY <1>2, <1>9, <2>1 DEF s
    <3> HIDE DEF old
    <3>. QED  BY <3>1, <3>2 DEF Listed, ListOK
  <2>2. CASE i = b + 1 /\ j # b + 1
    <3>1. ~(j <= b)
      BY <1>4, <1>12, <2>2
    <3>2. ~(s[old(j)].key <= Key(v, f)) /\ old(j) \in 1 .. n /\ t[j] = s[old(j)]
      BY <1>4, <1>9, <2>2, <3>1
    <3> HIDE DEF old
    <3>. QED  BY <1>2, <1>3, <1>10, <1>11, <2>2, <3>2
  <2>3. CASE i # b + 1 /\ j = b + 1
    <3>1. i <= b
      BY <1>4, <1>12, <2>3
    <3>2. s[old(i)].key <= Key(v, f) /\ old(i) \in 1 .. n /\ t[i] = s[old(i)]
      BY <1>4, <1>9, <2>3, <3>1
    <3> HIDE DEF old
    <3>. QED  BY <1>2, <1>3, <1>10, <1>11, <2>3, <3>2
  <2>. QED  BY <1>12, <2>1, <2>2, <2>3
<1>13. ASSUME NEW i \in 1 .. n + 1
       PROVE  /\ Stored(u, t[i].flow) /\ t[i].key # None
              /\ u.cached[t[i].flow][u.order] = t[i].key
  <2>1. u.order = v.order /\ \A g : Stored(u, g) <=> Stored(v, g)
    BY <1>8 DEF Beside, Stored
  <2>2. CASE i = b + 1
    BY <1>3, <1>8, <1>10, <2>1, <2>2
  <2>3. CASE i # b + 1
    <3>1. old(i) \in DOMAIN v.shown /\ t[i] = v.shown[old(i)]
      BY <1>2, <1>9, <2>3 DEF s
    <3> HIDE DEF old
    <3>. QED  BY <1>8, <2>1, <3>1 DEF Listed, ListOK
  <2>. QED  BY <2>2, <2>3
<1>14. ListOK(u)
  BY <1>7, <1>8, <1>12, <1>13 DEF ListOK
<1>15. Shown(u) = Shown(v) \cup {f}
  <2>1. Shown(u) = {t[i].flow : i \in 1 .. n + 1}
    BY <1>7, <1>8, ShownIs
  <2>2. ASSUME NEW i \in 1 .. n + 1 PROVE t[i].flow \in Shown(v) \cup {f}
    <3>1. CASE i = b + 1
      BY <1>3, <1>10, <3>1
    <3>2. CASE i # b + 1
      <4>1. old(i) \in 1 .. n /\ t[i] = s[old(i)]
        BY <1>9, <3>2
      <4> HIDE DEF old
      <4>. QED  BY <1>2, <4>1
    <3>. QED  BY <3>1, <3>2
  <2>3. ASSUME NEW i \in 1 .. n PROVE s[i].flow \in Shown(u)
    <3> DEFINE j == IF i <= b THEN i ELSE i + 1
    <3>1. j \in 1 .. n + 1 /\ t[j] = s[i]
      BY <1>2, <1>4, <1>6
    <3> HIDE DEF j
    <3>. QED  BY <2>1, <3>1
  <2>4. f \in Shown(u)
    BY <1>3, <1>10, <2>1
  <2>5. Shown(u) \subseteq Shown(v) \cup {f}
    BY <2>1, <2>2
  <2>6. Shown(v) \subseteq Shown(u)
    BY <1>2, <2>3
  <2>. QED  BY <2>4, <2>5, <2>6
<1>16. t # <<>>
  BY <1>2, <1>6
<1>. QED  BY <1>8, <1>14, <1>15, <1>16 DEF Listed, Beside, u

LEMMA TakenIs ==
    ASSUME NEW v, Listed(v), NEW f \in Shown(v)
    PROVE  /\ Listed(Taken(v, f)) /\ Beside(Taken(v, f), v)
           /\ Taken(v, f).focus = v.focus /\ Taken(v, f).cached = v.cached
           /\ Shown(Taken(v, f)) = Shown(v) \ {f}
           /\ (CHOOSE i \in At(v, f) : TRUE) \in 1 .. Len(v.shown)
<1> DEFINE n == Len(v.shown)
           s == v.shown
           u == Taken(v, f)
<1>1. v \in ViewRec /\ f \in Flows
  BY ShownIs DEF Listed
<1>2. /\ s \in Seq(Entry) /\ n \in Nat /\ n = Len(s) /\ DOMAIN s = 1 .. n
      /\ \A i \in 1 .. n : s[i] \in Entry /\ s[i].flow \in Flows
      /\ Shown(v) = {s[i].flow : i \in 1 .. n}
  BY <1>1, ShownIs
<1>3. PICK b \in 1 .. n : s[b].flow = f
  BY <1>2
<1>4. At(v, f) = {b} /\ Finds(v, f)
  BY <1>1, <1>2, <1>3, FindsIff
<1>5. (CHOOSE i \in At(v, f) : TRUE) = b
  BY <1>4
<1> DEFINE t == RemoveAt(s, b)
<1>6. u = [v EXCEPT !.shown = t]
  BY <1>4, <1>5 DEF Taken
<1> HIDE DEF n, s, t, u
<1>7. /\ t \in Seq(Entry) /\ Len(t) = n - 1
      /\ \A i \in 1 .. n - 1 : t[i] = IF i < b THEN s[i] ELSE s[i + 1]
  BY <1>2, <1>3, RemoveAtIs DEF t
<1>8. DOMAIN t = 1 .. n - 1
  BY <1>2, <1>7
<1>9. /\ u \in ViewRec /\ u.shown = t /\ Beside(u, v) /\ u.focus = v.focus
      /\ u.cached = v.cached
  BY <1>1, <1>6, <1>7 DEF ViewRec, Beside, Entry, s
<1> DEFINE old(i) == IF i < b THEN i ELSE i + 1
<1>10. ASSUME NEW i \in 1 .. n - 1
       PROVE  old(i) \in 1 .. n /\ t[i] = s[old(i)] /\ old(i) # b
  BY <1>2, <1>3, <1>7, <1>10
<1>11. ASSUME NEW i \in 1 .. n - 1, NEW j \in 1 .. n - 1, i < j
       PROVE  t[i].key <= t[j].key /\ t[i].flow # t[j].flow
  <2>1. old(i) < old(j)
    BY <1>2, <1>3, <1>11
  <2>2. old(i) \in DOMAIN v.shown /\ old(j) \in DOMAIN v.shown
        /\ t[i] = v.shown[old(i)] /\ t[j] = v.shown[old(j)]
    BY <1>2, <1>10 DEF s
  <2> HIDE DEF old
  <2>. QED  BY <2>1, <2>2 DEF Listed, ListOK
<1>12. ASSUME NEW i \in 1 .. n - 1
       PROVE  /\ Stored(u, t[i].flow) /\ t[i].key # None
              /\ u.cached[t[i].flow][u.order] = t[i].key
  <2>1. u.order = v.order /\ \A g : Stored(u, g) <=> Stored(v, g)
    BY <1>9 DEF Beside, Stored
  <2>2. old(i) \in DOMAIN v.shown /\ t[i] = v.shown[old(i)]
    BY <1>2, <1>10 DEF s
  <2> HIDE DEF old
  <2>. QED  BY <1>9, <2>1, <2>2 DEF Listed, ListOK
<1>13. ListOK(u)
  BY <1>8, <1>9, <1>11, <1>12 DEF ListOK
<1>14. Shown(u) = Shown(v) \ {f}
  <2>1. Shown(u) = {t[i].flow : i \in 1 .. n - 1}
    BY <1>8, <1>9, ShownIs
  <2>2. \A i \in 1 .. n : i # b => s[i].flow # f
    <3>1. ASSUME NEW i \in 1 .. n, s[i].flow = f PROVE i = b
      <4>1. i \in DOMAIN v.shown /\ v.shown[i].flow = f
        BY <1>2, <3>1 DEF s
      <4>2. At(v, f) = {i}
        BY <1>1, <4>1, FindsIff
      <4>. QED  BY <1>4, <4>2
    <3>. QED  BY <3>1
  <2>3. ASSUME NEW i \in 1 .. n - 1 PROVE t[i].flow \in Shown(v) \ {f}
    <3>1. old(i) \in 1 .. n /\ t[i] = s[old(i)] /\ old(i) # b
      BY <1>10
    <3> HIDE DEF old
    <3>. QED  BY <1>2, <2>2, <3>1
  <2>4. ASSUME NEW i \in 1 .. n, s[i].flow # f PROVE s[i].flow \in Shown(u)
    <3> DEFINE j == IF i < b THEN i ELSE i - 1
    <3>1. i # b
      BY <1>3, <2>4
    <3>2. j \in 1 .. n - 1 /\ t[j] = s[i]
      BY <1>2, <1>3, <1>7, <3>1
    <3> HIDE DEF j
    <3>. QED  BY <2>1, <3>2
  <2>5. Shown(u) \subseteq Shown(v) \ {f}
    BY <2>1, <2>3
  <2>6. Shown(v) \ {f} \subseteq Shown(u)
    BY <1>2, <2>4
  <2>. QED  BY <2>5, <2>6
<1>. QED  BY <1>5, <1>9, <1>13, <1>14 DEF Listed, Beside, u, n

------------------------------------------------------------------------------
(* Focus. *)

LEMMA ItemIs ==
    ASSUME NEW v \in ViewRec, NEW i \in 0 .. Len(v.shown) - 1
    PROVE  Item(v, i) \in Shown(v)
<1>1. /\ DOMAIN v.shown = 1 .. Len(v.shown) /\ Len(v.shown) \in Nat
      /\ Shown(v) = {v.shown[j].flow : j \in DOMAIN v.shown}
  BY ShownIs
<1> DEFINE j == IF v.reversed THEN Len(v.shown) - i ELSE i + 1
<1>2. j \in DOMAIN v.shown
  BY <1>1
<1>3. Item(v, i) = v.shown[j].flow
  BY DEF Item
<1> HIDE DEF j
<1>. QED  BY <1>1, <1>2, <1>3

\* Setting the focus.
LEMMA FocusedIs ==
    ASSUME NEW v, Listed(v), NEW g \in Flows \cup {None}
    PROVE  /\ Listed([v EXCEPT !.focus = g]) /\ Beside([v EXCEPT !.focus = g], v)
           /\ [v EXCEPT !.focus = g].focus = g
           /\ [v EXCEPT !.focus = g].shown = v.shown
           /\ Shown([v EXCEPT !.focus = g]) = Shown(v)
<1> DEFINE u == [v EXCEPT !.focus = g]
<1>1. v \in ViewRec
  BY DEF Listed
<1>2. /\ u \in ViewRec /\ u.focus = g /\ u.shown = v.shown /\ u.cached = v.cached
      /\ Beside(u, v)
  BY <1>1 DEF ViewRec, Beside
<1> HIDE DEF u
<1>3. Shown(u) = Shown(v)
  BY <1>2 DEF Shown
<1>4. ListOK(u)
  BY <1>2 DEF Listed, ListOK, Beside, Stored
<1>. QED  BY <1>2, <1>3, <1>4 DEF Listed, Beside, u

LEMMA NotEmpty ==
    ASSUME NEW v \in ViewRec, v.shown # <<>>
    PROVE  Len(v.shown) \in Nat /\ Len(v.shown) >= 1
BY ShownIs

\* sig_view_refresh leaves a focus that is shown, whatever it was.
LEMMA RefreshedIs ==
    ASSUME NEW v, Listed(v)
    PROVE  /\ Listed(Refreshed(v)) /\ FocusOK(Refreshed(v))
           /\ Beside(Refreshed(v), v) /\ Shown(Refreshed(v)) = Shown(v)
<1> DEFINE u == Refreshed(v)
<1>1. v \in ViewRec /\ v.focus \in Flows \cup {None}
  BY DEF Listed, ViewRec
<1>2. CASE v.shown = <<>>
  <2>1. u = [v EXCEPT !.focus = None]
    BY <1>2 DEF Refreshed
  <2> HIDE DEF u
  <2>. QED  BY <1>2, <2>1, FocusedIs DEF FocusOK, u
<1>3. CASE v.shown # <<>> /\ v.focus = None
  <2>1. u = [v EXCEPT !.focus = Item(v, 0)]
    BY <1>3 DEF Refreshed
  <2>2. Item(v, 0) \in Shown(v) /\ Item(v, 0) \in Flows
    <3>1. 0 \in 0 .. Len(v.shown) - 1
      BY <1>1, <1>3, NotEmpty
    <3>. QED  BY <1>1, <3>1, ItemIs, ShownIs
  <2> HIDE DEF u
  <2>. QED  BY <1>3, <2>1, <2>2, FocusedIs DEF FocusOK, u
<1>4. CASE v.shown # <<>> /\ v.focus # None /\ ~Finds(v, v.focus)
  <2> DEFINE w == LookedUp(v, v.focus)
             g == Item(v, Nearest(v, v.focus))
  <2>1. v.focus \in Flows
    BY <1>1, <1>4
  <2>2. u = [w EXCEPT !.focus = g]
    BY <1>4 DEF Refreshed
  <2>3. w = Keyed(v, v.focus)
    BY <1>4 DEF LookedUp
  <2>4. Listed(w) /\ Beside(w, v) /\ w.shown = v.shown
    BY <1>1, <2>1, <2>3, KeyedIs, KeyedListed
  <2>5. Nearest(v, v.focus) \in 0 .. Len(v.shown) - 1
    <3>1. Bisect(v, v.focus) \in 0 .. Len(v.shown)
      BY <2>1, BisectIs
    <3>2. Len(v.shown) \in Nat /\ Len(v.shown) >= 1 /\ v.reversed \in BOOLEAN
      BY <1>1, <1>4, NotEmpty DEF ViewRec
    <3>. QED  BY <3>1, <3>2 DEF Nearest, Lesser
  <2>6. g \in Shown(v) /\ g \in Flows
    BY <1>1, <2>5, ItemIs, ShownIs
  <2> HIDE DEF u, w, g
  <2>7. /\ Listed(u) /\ Beside(u, w) /\ u.focus = g /\ u.shown = w.shown
        /\ Shown(u) = Shown(w)
    BY <2>2, <2>4, <2>6, FocusedIs
  <2>8. Shown(w) = Shown(v)
    BY <2>4 DEF Shown
  <2>9. Beside(u, v)
    BY <2>4, <2>7, BesideTwice
  <2>. QED  BY <1>4, <2>4, <2>6, <2>7, <2>8, <2>9 DEF FocusOK, u
<1>5. CASE v.shown # <<>> /\ v.focus # None /\ Finds(v, v.focus)
  <2>1. u = v
    BY <1>5 DEF Refreshed
  <2>2. v.focus \in Shown(v)
    BY <1>1, <1>5, FindsIff
  <2>. QED  BY <1>5, <2>1, <2>2 DEF FocusOK, Beside
<1>. QED  BY <1>2, <1>3, <1>4, <1>5

LEMMA HiddenIs ==
    ASSUME NEW v, Listed(v), FocusOK(v), NEW f \in Shown(v)
    PROVE  /\ Listed(Hidden(v, f)) /\ FocusOK(Hidden(v, f))
           /\ Beside(Hidden(v, f), v) /\ Shown(Hidden(v, f)) = Shown(v) \ {f}
<1> DEFINE at == CHOOSE i \in At(v, f) : TRUE
           w == Taken(v, f)
           u == Hidden(v, f)
           g == Item(w, Lesser(at - 1, Len(w.shown) - 1))
<1>1. v \in ViewRec /\ v.focus \in Flows \cup {None}
  BY DEF Listed, ViewRec
<1>2. /\ Listed(w) /\ Beside(w, v) /\ w.focus = v.focus /\ Shown(w) = Shown(v) \ {f}
      /\ at \in 1 .. Len(v.shown) /\ w \in ViewRec
  BY TakenIs DEF Listed
<1>3. Len(v.shown) \in Nat
  BY <1>1, ShownIs
<1>4. v.shown # <<>> /\ v.focus \in Shown(v)
  <2>1. v.shown # <<>>
    BY <1>1, ShownIs
  <2>. QED  BY <2>1 DEF FocusOK
<1>5. CASE w.shown = <<>>
  <2>1. u = [w EXCEPT !.focus = None]
    BY <1>5 DEF Hidden
  <2> HIDE DEF u, w
  <2>2. /\ Listed(u) /\ Beside(u, w) /\ u.focus = None /\ u.shown = w.shown
        /\ Shown(u) = Shown(w)
    BY <1>2, <2>1, FocusedIs
  <2>3. Beside(u, v)
    BY <1>2, <2>2, BesideTwice
  <2>. QED  BY <1>2, <1>5, <2>2, <2>3 DEF FocusOK, u
<1>6. CASE w.shown # <<>> /\ w.focus = f
  <2>1. u = [w EXCEPT !.focus = g]
    BY <1>6 DEF Hidden
  <2>2. g \in Shown(w) /\ g \in Flows
    <3> HIDE DEF w, at
    <3>1. Len(w.shown) \in Nat /\ Len(w.shown) >= 1
      BY <1>2, <1>6, NotEmpty
    <3>2. Lesser(at - 1, Len(w.shown) - 1) \in 0 .. Len(w.shown) - 1
      BY <1>2, <1>3, <3>1 DEF Lesser
    <3>. QED  BY <1>2, <3>2, ItemIs, ShownIs
  <2> HIDE DEF u, w, g
  <2>3. /\ Listed(u) /\ Beside(u, w) /\ u.focus = g /\ u.shown = w.shown
        /\ Shown(u) = Shown(w)
    BY <1>2, <2>1, <2>2, FocusedIs
  <2>4. Beside(u, v)
    BY <1>2, <2>3, BesideTwice
  <2>. QED  BY <1>2, <1>6, <2>2, <2>3, <2>4 DEF FocusOK, u
<1>7. CASE w.shown # <<>> /\ w.focus # f
  <2>1. u = w
    BY <1>7 DEF Hidden
  <2>2. w.focus \in Shown(w)
    BY <1>2, <1>4, <1>7
  <2> HIDE DEF u, w
  <2>. QED  BY <1>2, <1>7, <2>1, <2>2 DEF FocusOK, u
<1>. QED  BY <1>5, <1>6, <1>7

\* A stored flow that is not shown is put into the list.
LEMMA BaseAddIs ==
    ASSUME NEW v, Listed(v), NEW f \in Flows, Stored(v, f), f \notin Shown(v)
    PROVE  /\ Listed(BaseAdd(v, f)) /\ Beside(BaseAdd(v, f), v)
           /\ BaseAdd(v, f).focus = v.focus /\ BaseAdd(v, f).shown # <<>>
           /\ Shown(BaseAdd(v, f)) = Shown(v) \cup {f}
<1> DEFINE w == Keyed(v, f)
           u == Inserted(w, f)
<1>1. v \in ViewRec
  BY DEF Listed
<1>2. /\ Listed(w) /\ Beside(w, v) /\ w.shown = v.shown /\ w.focus = v.focus
      /\ w.cached[f][v.order] = Key(v, f) /\ Key(w, f) = Key(v, f)
  BY <1>1, KeyedIs, KeyedListed
<1>3. BaseAdd(v, f) = u
  BY DEF BaseAdd
<1> HIDE DEF w, u
<1>4. w.order = v.order /\ Stored(w, f) /\ Shown(w) = Shown(v)
  BY <1>2 DEF Beside, Stored, Shown
<1>5. /\ Listed(u) /\ Beside(u, w) /\ u.focus = w.focus /\ u.shown # <<>>
      /\ Shown(u) = Shown(w) \cup {f}
  BY <1>2, <1>4, InsertedIs DEF u
<1>6. Beside(u, v)
  BY <1>2, <1>5, BesideTwice
<1>. QED  BY <1>2, <1>3, <1>4, <1>5, <1>6

LEMMA AppearsIs ==
    ASSUME NEW v, Listed(v), FocusOK(v), NEW f \in Flows, Stored(v, f), f \notin Shown(v)
    PROVE  /\ Listed(Appears(v, f)) /\ FocusOK(Appears(v, f)) /\ Beside(Appears(v, f), v)
<1> DEFINE w == BaseAdd(v, f)
           u == Appears(v, f)
<1>1. /\ Listed(w) /\ Beside(w, v) /\ w.focus = v.focus /\ w.shown # <<>>
      /\ Shown(w) = Shown(v) \cup {f}
  BY BaseAddIs
<1>2. CASE w.follow \/ w.focus = None
  <2>1. u = [w EXCEPT !.focus = f]
    BY <1>2 DEF Appears
  <2> HIDE DEF w, u
  <2>2. Listed(u) /\ Beside(u, w) /\ u.focus = f /\ u.shown = w.shown /\ Shown(u) = Shown(w)
    BY <1>1, <2>1, FocusedIs
  <2>3. Beside(u, v)
    BY <1>1, <2>2, BesideTwice
  <2>. QED  BY <1>1, <2>2, <2>3 DEF FocusOK, u
<1>3. CASE ~w.follow /\ w.focus # None
  <2>1. u = w
    BY <1>3 DEF Appears
  <2> HIDE DEF w, u
  <2>2. w.focus \in Shown(w)
    BY <1>1, <1>3 DEF FocusOK
  <2>. QED  BY <1>1, <2>1, <2>2 DEF FocusOK, u
<1>. QED  BY <1>2, <1>3

------------------------------------------------------------------------------
(* What of a list is in a set. *)

LEMMA OnlyAppend ==
    ASSUME NEW T, NEW s \in Seq(T), NEW e \in T, NEW P
    PROVE  /\ Only(s, P) \in Seq(T)
           /\ Only(Append(s, e), P) = IF e \in P THEN Append(Only(s, P), e) ELSE Only(s, P)
<1> DEFINE part(x) == IF x \in P THEN <<x>> ELSE <<>>
           a == Append(s, e)
           ls == [i \in DOMAIN s |-> part(s[i])]
           as == [i \in DOMAIN a |-> part(a[i])]
<1>1. \A x \in T : part(x) \in Seq(T)
  OBVIOUS
<1>2. /\ Len(s) \in Nat /\ DOMAIN s = 1 .. Len(s) /\ DOMAIN a = 1 .. Len(s) + 1
      /\ \A i \in 1 .. Len(s) : a[i] = s[i] /\ s[i] \in T
      /\ a[Len(s) + 1] = e
  OBVIOUS
<1> HIDE DEF part, a
<1>3. ls \in Seq(Seq(T)) /\ Len(ls) = Len(s)
  <2>1. ls = [i \in 1 .. Len(s) |-> part(s[i])]
    BY <1>2
  <2>. QED  BY <1>1, <1>2, <2>1
<1>4. as = Append(ls, part(e))
  <2>1. Len(Append(ls, part(e))) = Len(s) + 1
    BY <1>1, <1>3
  <2>. QED  BY <1>1, <1>2, <1>3, <2>1
<1>5. Only(s, P) = FlattenSeq(ls) /\ Only(Append(s, e), P) = FlattenSeq(as)
  BY DEF Only, part, a
<1> HIDE DEF ls, as
<1>6. /\ FlattenSeq(ls) \in Seq(T)
      /\ FlattenSeq(as) = FlattenSeq(ls) \o part(e)
  BY <1>1, <1>3, <1>4, FlattenAppend
<1>7. CASE e \notin P
  <2>1. part(e) = <<>>
    BY <1>7 DEF part
  <2>. QED  BY <1>5, <1>6, <1>7, <2>1, ConcatEmptySeq
<1>8. CASE e \in P
  <2>1. part(e) = <<e>>
    BY <1>8 DEF part
  <2>2. FlattenSeq(ls) \o <<e>> = Append(FlattenSeq(ls), e)
    BY <1>6
  <2>. QED  BY <1>5, <1>6, <1>8, <2>1, <2>2
<1>. QED  BY <1>7, <1>8

LEMMA OnlyIs ==
    ASSUME NEW T, NEW s \in Seq(T), NEW P
    PROVE  /\ Only(s, P) \in Seq(T) /\ Entries(Only(s, P)) = Entries(s) \cap P
           /\ Distinct(s) => Distinct(Only(s, P))
<1> DEFINE n == Len(s)
           pre(i) == SubSeq(s, 1, i)
           Good(x) == /\ Only(x, P) \in Seq(T) /\ Entries(Only(x, P)) = Entries(x) \cap P
                      /\ Distinct(s) => Distinct(Only(x, P))
           G == {i \in 0 .. n : Good(pre(i))}
<1>1. n \in Nat /\ DOMAIN s = 1 .. n /\ \A i \in 1 .. n : s[i] \in T
  OBVIOUS
<1>2. \A i \in 0 .. n : pre(i) \in Seq(T) /\ Len(pre(i)) = i /\ \A j \in 1 .. i : pre(i)[j] = s[j]
  BY <1>1
<1>3. pre(n) = s /\ pre(0) = <<>>
  BY <1>1
<1>4. 0 \in G
  <2>1. Only(<<>>, P) = <<>>
    BY FlattenEmpty DEF Only
  <2>2. Entries(<<>>) = {} /\ Distinct(<<>>) /\ <<>> \in Seq(T)
    BY EntriesSmall DEF Distinct
  <2>3. Good(<<>>)
    BY <2>1, <2>2
  <2> HIDE DEF Good
  <2>4. Good(pre(0))
    BY <1>3, <2>3
  <2>. QED  BY <1>1, <2>4
<1>5. ASSUME NEW i \in 0 .. n, i < n, i \in G PROVE i + 1 \in G
  <2>1. i + 1 \in 0 .. n /\ i + 1 \in 1 .. n /\ s[i + 1] \in T
    BY <1>1, <1>5
  <2>2. pre(i + 1) = Append(pre(i), s[i + 1])
    <3>1. /\ Append(pre(i), s[i + 1]) \in Seq(T) /\ Len(Append(pre(i), s[i + 1])) = i + 1
          /\ \A j \in 1 .. i + 1 : Append(pre(i), s[i + 1])[j] = s[j]
      BY <1>2, <2>1, AppendProperties
    <3>2. /\ pre(i + 1) \in Seq(T) /\ Len(pre(i + 1)) = i + 1
          /\ \A j \in 1 .. i + 1 : pre(i + 1)[j] = s[j]
      BY <1>2, <2>1
    <3> HIDE DEF pre
    <3>. QED  BY <3>1, <3>2, SeqEqual
  <2> DEFINE q == pre(i)
             r == pre(i + 1)
             e == s[i + 1]
             o == Only(q, P)
  <2>3. /\ q \in Seq(T) /\ e \in T /\ o \in Seq(T) /\ Entries(o) = Entries(q) \cap P
        /\ Distinct(s) => Distinct(o)
    BY <1>2, <1>5, <2>1
  <2>4. Distinct(s) => e \notin Entries(q)
    <3>1. \A j \in 1 .. i : q[j] = s[j] /\ j \in 1 .. n /\ j # i + 1
      BY <1>1, <1>2, <1>5
    <3>2. DOMAIN q = 1 .. i
      BY <1>2
    <3> HIDE DEF q
    <3>. QED  BY <1>1, <2>1, <3>1, <3>2 DEF Distinct, Entries
  <2>9. r = Append(q, e)
    BY <2>2
  <2> HIDE DEF q, r, e
  <2>5. Only(r, P) = IF e \in P THEN Append(o, e) ELSE o
    <3>1. Only(Append(q, e), P) = IF e \in P THEN Append(Only(q, P), e) ELSE Only(q, P)
      BY <2>3, OnlyAppend
    <3>. QED  BY <2>9, <3>1
  <2>6. Entries(r) = Entries(q) \cup {e}
    BY <2>9, <2>3, AppendNew
  <2> HIDE DEF o
  <2>7. /\ Append(o, e) \in Seq(T) /\ Entries(Append(o, e)) = Entries(o) \cup {e}
        /\ Distinct(o) /\ e \notin Entries(o) => Distinct(Append(o, e))
    BY <2>3, AppendNew
  <2>10. /\ Only(r, P) \in Seq(T) /\ Entries(Only(r, P)) = Entries(r) \cap P
         /\ Distinct(s) => Distinct(Only(r, P))
    BY <2>3, <2>4, <2>5, <2>6, <2>7
  <2>11. Good(r)
    BY <2>10
  <2> HIDE DEF Good
  <2>8. Good(pre(i + 1))
    BY <2>11 DEF r
  <2>. QED  BY <2>1, <2>8
<1>6. n \in G
  <2> HIDE DEF G
  <2>1. \A i \in 0 .. n : i < n /\ i \in G => i + 1 \in G
    BY <1>5
  <2>2. \A i \in 0 .. n : i \in G
    BY <1>1, <1>4, <2>1, InductionUpTo
  <2>. QED  BY <1>1, <2>2
<1>. QED  BY <1>3, <1>6

------------------------------------------------------------------------------
(* Folds: the view after each flow.  Three operations go over a list of flows. *)

Each(kind, v, f) ==
    CASE kind = "base" -> BaseAdd(v, f)
      [] kind = "added" -> Added(v, f)
      [] OTHER -> Updated(v, f)

Stages(st, kind, v, s) ==
    st[0] = v /\ \A i \in 1 .. Len(s) : st[i] = Each(kind, st[i - 1], s[i])

\* The fold as a function on sets of positions.
IsTurns(iter, kind, v, s) ==
    iter = [t \in SUBSET DOMAIN s |->
              IF t = {} THEN v
              ELSE Each(kind, iter[t \ {Greatest(t)}], s[Greatest(t)])]

LEMMA TurnsExist ==
    ASSUME NEW kind, NEW v, NEW s \in Seq(Flows)
    PROVE  \E iter : IsTurns(iter, kind, v, s)
<1> DEFINE n == Len(s)
           Up(m, iter) == iter = [t \in SUBSET (1 .. m) |->
                             IF t = {} THEN v
                             ELSE Each(kind, iter[t \ {Greatest(t)}], s[Greatest(t)])]
           T == {m \in 0 .. n : \E iter : Up(m, iter)}
<1>1. n \in Nat /\ DOMAIN s = 1 .. n
  OBVIOUS
<1> HIDE DEF n
<1>2. 0 \in T
  <2> DEFINE it == [t \in SUBSET (1 .. 0) |-> v]
  <2>1. \A t \in SUBSET (1 .. 0) : t = {}
    OBVIOUS
  <2>2. Up(0, it)
    BY <2>1
  <2>3. 0 \in 0 .. n
    BY <1>1
  <2> HIDE DEF it, Up
  <2>. QED  BY <2>2, <2>3
<1>3. ASSUME NEW m \in 0 .. n, m < n, m \in T PROVE m + 1 \in T
  <2>1. PICK it : Up(m, it)
    BY <1>3
  <2> DEFINE new == [t \in SUBSET (1 .. m + 1) |->
                       IF m + 1 \in t THEN Each(kind, it[t \ {m + 1}], s[m + 1])
                       ELSE it[t]]
  <2>2. m + 1 \in 0 .. n /\ m \in Nat
    BY <1>1, <1>3
  <2>3. \A t \in SUBSET (1 .. m + 1) :
           t \ {m + 1} \in SUBSET (1 .. m) /\ (m + 1 \notin t => t \in SUBSET (1 .. m))
    BY <2>2
  <2>4. \A t \in SUBSET (1 .. m) : t \in SUBSET (1 .. m + 1) /\ m + 1 \notin t
    BY <2>2
  <2>5. ASSUME NEW t \in SUBSET (1 .. m + 1), t # {}
        PROVE  new[t] = Each(kind, new[t \ {Greatest(t)}], s[Greatest(t)])
    <3>1. CASE m + 1 \in t
      <4>1. Greatest(t) = m + 1
        <5>1. m + 1 \in Nat /\ \A k \in t : m + 1 >= k
          BY <2>2
        <5>. QED  BY <3>1, <5>1, GreatestIs
      <4>2. new[t \ {m + 1}] = it[t \ {m + 1}]
        BY <2>3
      <4>. QED  BY <3>1, <4>1, <4>2
    <3>2. CASE m + 1 \notin t
      <4>1. t \in SUBSET (1 .. m) /\ Greatest(t) \in t
        BY <3>2, <2>2, <2>3, <2>5, GreatestIn
      <4>2. t \ {Greatest(t)} \in SUBSET (1 .. m)
        BY <4>1
      <4>3. it[t] = Each(kind, it[t \ {Greatest(t)}], s[Greatest(t)])
        BY <2>1, <2>5, <4>1
      <4>. QED  BY <3>2, <4>1, <4>2, <4>3, <2>4
    <3>. QED  BY <3>1, <3>2
  <2>6. new[{}] = v
    BY <2>1
  <2>7. new = [t \in SUBSET (1 .. m + 1) |-> new[t]]
    OBVIOUS
  <2> HIDE DEF new
  <2>8. Up(m + 1, new)
    BY <2>5, <2>6, <2>7
  <2> HIDE DEF Up
  <2>. QED  BY <2>2, <2>8
<1>4. n \in T
  <2>1. \A i \in 0 .. n : i < n /\ i \in T => i + 1 \in T
    BY <1>3
  <2> HIDE DEF T
  <2>2. \A i \in 0 .. n : i \in T
    BY <1>1, <1>2, <2>1, InductionUpTo
  <2>. QED  BY <1>1, <2>2
<1>. QED  BY <1>1, <1>4 DEF IsTurns

LEMMA TurnsAre ==
    ASSUME NEW kind, NEW v, NEW s \in Seq(Flows), NEW it, IsTurns(it, kind, v, s)
    PROVE  \E st : Stages(st, kind, v, s) /\ st[Len(s)] = it[DOMAIN s]
<1> DEFINE n == Len(s)
           st == [i \in 0 .. n |-> it[1 .. i]]
<1>1. n \in Nat /\ DOMAIN s = 1 .. n
  OBVIOUS
<1>2. it = [t \in SUBSET DOMAIN s |->
              IF t = {} THEN v ELSE Each(kind, it[t \ {Greatest(t)}], s[Greatest(t)])]
  BY DEF IsTurns
<1> HIDE DEF n
<1>3. it[1 .. 0] = v
  BY <1>1, <1>2, FoldSteps
<1>4. ASSUME NEW i \in 1 .. n
      PROVE  it[1 .. i] = Each(kind, it[1 .. (i - 1)], s[i])
  <2>1. /\ 1 .. i \in SUBSET (1 .. n) /\ 1 .. i # {} /\ Greatest(1 .. i) = i
        /\ (1 .. i) \ {i} = 1 .. (i - 1)
    BY <1>1, FoldSteps
  <2>. QED  BY <1>1, <1>2, <2>1
<1>5. /\ \A i \in 1 .. n : i \in 0 .. n /\ i - 1 \in 0 .. n
      /\ 0 \in 0 .. n /\ n \in 0 .. n
  BY <1>1
<1>6. st[0] = v /\ st[n] = it[DOMAIN s] /\ \A i \in 1 .. n : st[i] = Each(kind, st[i - 1], s[i])
  BY <1>1, <1>3, <1>4, <1>5
<1> HIDE DEF st
<1>. QED  BY <1>6 DEF Stages, n

LEMMA BaseStages ==
    ASSUME NEW v, NEW s \in Seq(Flows)
    PROVE  \E st : Stages(st, "base", v, s) /\ FoldLeft(BaseAdd, v, s) = st[Len(s)]
<1> DEFINE it == CHOOSE iter : iter = [t \in SUBSET DOMAIN s |->
                     IF t = {} THEN v ELSE BaseAdd(iter[t \ {Greatest(t)}], s[Greatest(t)])]
<1>1. FoldLeft(BaseAdd, v, s) = it[DOMAIN s]
  BY DEF FoldLeft, MapThenFoldSet, Max, Greatest
<1>2. PICK iter : IsTurns(iter, "base", v, s)
  BY TurnsExist
<1>3. IsTurns(it, "base", v, s)
  BY <1>2 DEF IsTurns, Each
<1> HIDE DEF it
<1>. QED  BY <1>1, <1>3, TurnsAre

LEMMA AddedStages ==
    ASSUME NEW v, NEW s \in Seq(Flows)
    PROVE  \E st : Stages(st, "added", v, s) /\ FoldLeft(Added, v, s) = st[Len(s)]
<1> DEFINE it == CHOOSE iter : iter = [t \in SUBSET DOMAIN s |->
                     IF t = {} THEN v ELSE Added(iter[t \ {Greatest(t)}], s[Greatest(t)])]
<1>1. FoldLeft(Added, v, s) = it[DOMAIN s]
  BY DEF FoldLeft, MapThenFoldSet, Max, Greatest
<1>2. PICK iter : IsTurns(iter, "added", v, s)
  BY TurnsExist
<1>3. IsTurns(it, "added", v, s)
  BY <1>2 DEF IsTurns, Each
<1> HIDE DEF it
<1>. QED  BY <1>1, <1>3, TurnsAre

LEMMA UpdatedStages ==
    ASSUME NEW v, NEW s \in Seq(Flows)
    PROVE  \E st : Stages(st, "updated", v, s) /\ FoldLeft(Updated, v, s) = st[Len(s)]
<1> DEFINE it == CHOOSE iter : iter = [t \in SUBSET DOMAIN s |->
                     IF t = {} THEN v ELSE Updated(iter[t \ {Greatest(t)}], s[Greatest(t)])]
<1>1. FoldLeft(Updated, v, s) = it[DOMAIN s]
  BY DEF FoldLeft, MapThenFoldSet, Max, Greatest
<1>2. PICK iter : IsTurns(iter, "updated", v, s)
  BY TurnsExist
<1>3. IsTurns(it, "updated", v, s)
  BY <1>2 DEF IsTurns, Each
<1> HIDE DEF it
<1>. QED  BY <1>1, <1>3, TurnsAre

------------------------------------------------------------------------------
(* Views that have the same list. *)

SameList(u, v) ==
    /\ u.shown = v.shown /\ u.store = v.store /\ u.cached = v.cached
    /\ u.order = v.order /\ u.raised = v.raised

LEMMA SameListIs ==
    ASSUME NEW v, Listed(v), NEW u \in ViewRec, SameList(u, v)
    PROVE  /\ Listed(u) /\ Shown(u) = Shown(v)
           /\ u.focus = v.focus /\ FocusOK(v) => FocusOK(u)
           /\ SettingsOK(v) => SettingsOK(u)
<1>1. Shown(u) = Shown(v) /\ \A g : Stored(u, g) <=> Stored(v, g)
  BY DEF SameList, Shown, Stored
<1>2. ListOK(u)
  BY <1>1 DEF Listed, ListOK, SameList
<1>. QED  BY <1>1, <1>2 DEF Listed, SameList, FocusOK, SettingsOK

LEMMA ShownEmpty ==
    ASSUME NEW v \in ViewRec
    PROVE  v.shown = <<>> <=> Shown(v) = {}
<1>1. /\ Len(v.shown) \in Nat /\ DOMAIN v.shown = 1 .. Len(v.shown)
      /\ v.shown = <<>> <=> Len(v.shown) = 0
      /\ Shown(v) = {v.shown[i].flow : i \in DOMAIN v.shown}
  BY ShownIs
<1>2. CASE v.shown = <<>>
  BY <1>1, <1>2
<1>3. CASE v.shown # <<>>
  <2>1. 1 \in DOMAIN v.shown
    BY <1>1, <1>3
  <2>2. v.shown[1].flow \in Shown(v)
    BY <1>1, <2>1
  <2>. QED  BY <1>3, <2>2
<1>. QED  BY <1>2, <1>3

\* What is shown is stored.
LEMMA ShownStored ==
    ASSUME NEW v, Listed(v), NEW f \in Shown(v)
    PROVE  f \in Flows /\ Stored(v, f)
<1>1. v \in ViewRec
  BY DEF Listed
<1>2. PICK i \in DOMAIN v.shown : v.shown[i].flow = f
  BY <1>1, ShownIs
<1>. QED  BY <1>1, <1>2, ShownIs DEF Listed, ListOK

------------------------------------------------------------------------------
(* The operations of the view. *)

\* A flow that is not in the list gets another key.
Rekeyed(v, f, k) == [v EXCEPT !.cached[f][v.order] = k]

LEMMA RekeyedIs ==
    ASSUME NEW v, Listed(v), NEW f \in Flows, Stored(v, f), f \notin Shown(v),
           NEW k \in Keys, k # None
    PROVE  /\ Listed(Rekeyed(v, f, k)) /\ Beside(Rekeyed(v, f, k), v)
           /\ Shown(Rekeyed(v, f, k)) = Shown(v)
           /\ Rekeyed(v, f, k).cached[f][v.order] = k /\ Key(Rekeyed(v, f, k), f) = k
<1> DEFINE u == Rekeyed(v, f, k)
<1>1. v \in ViewRec /\ v.order \in Orders /\ v.cached \in [Flows -> [Orders -> Keys]]
  BY DEF Listed, ViewRec
<1>2. /\ u.cached = [v.cached EXCEPT ![f][v.order] = k]
      /\ u = [v EXCEPT !.cached = u.cached]
  BY <1>1 DEF ViewRec, Rekeyed
<1> HIDE DEF u
<1>3. u.cached \in [Flows -> [Orders -> Keys]]
  BY <1>1, <1>2
<1>4. u \in ViewRec
  BY <1>1, <1>2, <1>3 DEF ViewRec
<1>5. u.cached[f][v.order] = k /\ \A g \in Flows : g # f => u.cached[g] = v.cached[g]
  BY <1>1, <1>2
<1>6. /\ u.size = v.size /\ u.store = v.store /\ u.order = v.order
      /\ u.reversed = v.reversed /\ u.matches = v.matches /\ u.showMarked = v.showMarked
      /\ u.follow = v.follow /\ u.raised = v.raised /\ u.shown = v.shown
      /\ u.focus = v.focus
  BY <1>1, <1>2 DEF ViewRec
<1>7. Beside(u, v)
  BY <1>5, <1>6 DEF Beside
<1>8. Shown(u) = Shown(v) /\ \A g : Stored(u, g) <=> Stored(v, g)
  BY <1>6 DEF Shown, Stored
<1>9. ASSUME NEW i \in DOMAIN v.shown
      PROVE  v.shown[i].flow \in Flows /\ v.shown[i].flow # f
  BY <1>1, <1>9, ShownIs
<1>10. ListOK(u)
  BY <1>5, <1>6, <1>8, <1>9 DEF Listed, ListOK
<1>11. Key(u, f) = k
  BY <1>5, <1>6, <1>8 DEF Key
<1>. QED  BY <1>4, <1>5, <1>6, <1>7, <1>8, <1>10, <1>11 DEF Listed, u

\* _OrderKey.refresh takes the flow out before its key changes.
LEMMA ReorderedIs ==
    ASSUME NEW v, Listed(v), FocusOK(v), NEW f \in Shown(v)
    PROVE  /\ Listed(Reordered(v, f)) /\ FocusOK(Reordered(v, f))
           /\ Beside(Reordered(v, f), v)
<1> DEFINE k == Generate(v, f)
           x == Taken(v, f)
           y == [x EXCEPT !.cached[f][v.order] = k]
           z == Inserted(y, f)
           u == Refreshed(z)
<1>1. v \in ViewRec /\ f \in Flows /\ Stored(v, f)
  BY ShownStored DEF Listed
<1>2. k \in Keys /\ k # None
  BY <1>1, KeyIs
<1>3. CASE v.cached[f][v.order] = k
  BY <1>3 DEF Reordered, Beside
<1>4. CASE v.cached[f][v.order] # k
  <2>1. Reordered(v, f) = u
    BY <1>4 DEF Reordered
  <2>2. Listed(x) /\ Beside(x, v) /\ Shown(x) = Shown(v) \ {f}
    BY TakenIs
  <2> HIDE DEF x, k
  <2>3. x.order = v.order /\ Stored(x, f) /\ f \notin Shown(x)
    BY <1>1, <2>2 DEF Beside, Stored
  <2>4. y = Rekeyed(x, f, k)
    BY <2>3 DEF Rekeyed
  <2> HIDE DEF y
  <2>5. /\ Listed(y) /\ Beside(y, x) /\ Shown(y) = Shown(x)
        /\ y.cached[f][x.order] = k /\ Key(y, f) = k
    BY <1>1, <1>2, <2>2, <2>3, <2>4, RekeyedIs
  <2>6. Stored(y, f) /\ f \notin Shown(y) /\ y.order = x.order
    BY <2>3, <2>5 DEF Beside, Stored
  <2> HIDE DEF z
  <2>7. Listed(z) /\ Beside(z, y)
    BY <1>1, <2>5, <2>6, InsertedIs DEF z
  <2> HIDE DEF u
  <2>8. Listed(u) /\ FocusOK(u) /\ Beside(u, z)
    BY <2>7, RefreshedIs DEF u
  <2>9. Beside(u, v)
    BY <2>2, <2>5, <2>7, <2>8, BesideTwice
  <2>. QED  BY <2>1, <2>8, <2>9
<1>. QED  BY <1>3, <1>4

\* view.add.
LEMMA AddedOK ==
    ASSUME NEW v, ViewOK(v), NEW f \in Flows
    PROVE  ViewOK(Added(v, f))
<1> DEFINE w == [v EXCEPT !.store = Append(@, f)]
<1>1. v \in ViewRec /\ Listed(v) /\ FocusOK(v) /\ SettingsOK(v)
  BY DEF ViewOK, Listed
<1>2. CASE Stored(v, f)
  BY <1>2 DEF Added
<1>3. CASE ~Stored(v, f)
  <2>1. v.store \in Seq(Flows) /\ Append(v.store, f) \in Seq(Flows)
    BY <1>1 DEF ViewRec
  <2>2. /\ w \in ViewRec /\ w.store = Append(v.store, f) /\ w.shown = v.shown
        /\ w.cached = v.cached /\ w.order = v.order /\ w.raised = v.raised
        /\ w.focus = v.focus
    BY <1>1, <2>1 DEF ViewRec
  <2> HIDE DEF w
  <2>3. /\ Entries(w.store) = Entries(v.store) \cup {f} /\ Distinct(w.store)
    <3>1. f \notin Entries(v.store) /\ Distinct(v.store)
      BY <1>1, <1>3 DEF Listed, Stored, Elems, Entries
    <3>. QED  BY <2>1, <2>2, <3>1, AppendNew
  <2>4. \A g : Stored(w, g) <=> (Stored(v, g) \/ g = f)
    BY <2>3 DEF Stored, Elems, Entries
  <2>5. Shown(w) = Shown(v)
    BY <2>2 DEF Shown
  <2>6. ListOK(w)
    BY <1>1, <2>2, <2>4 DEF Listed, ListOK
  <2>7. Listed(w) /\ FocusOK(w) /\ SettingsOK(w)
    BY <1>1, <2>2, <2>3, <2>4, <2>5, <2>6 DEF Listed, FocusOK, SettingsOK
  <2>8. f \notin Shown(w) /\ Stored(w, f)
    BY <1>1, <1>3, <2>4, <2>5, ShownStored
  <2>9. CASE ~Filtered(v, f)
    <3>1. Added(v, f) = w
      BY <1>3, <2>9 DEF Added, w
    <3>. QED  BY <2>7, <3>1 DEF ViewOK
  <2>10. CASE Filtered(v, f)
    <3>1. Added(v, f) = Appears(w, f)
      BY <1>3, <2>10 DEF Added, w
    <3>2. Listed(Appears(w, f)) /\ FocusOK(Appears(w, f)) /\ Beside(Appears(w, f), w)
      BY <2>7, <2>8, AppearsIs
    <3>3. SettingsOK(Appears(w, f))
      BY <2>7, <3>2, BesideSettings
    <3>. QED  BY <3>1, <3>2, <3>3 DEF ViewOK
  <2>. QED  BY <2>9, <2>10
<1>. QED  BY <1>2, <1>3

\* view.update.
LEMMA UpdatedOK ==
    ASSUME NEW v, ViewOK(v), NEW f \in Flows
    PROVE  ViewOK(Updated(v, f))
<1> DEFINE w == LookedUp(v, f)
           u == Updated(v, f)
<1>1. v \in ViewRec /\ Listed(v) /\ FocusOK(v) /\ SettingsOK(v)
  BY DEF ViewOK, Listed
<1>2. CASE ~Stored(v, f)
  BY <1>2 DEF Updated
<1>3. CASE Stored(v, f)
  <2>1. Listed(w) /\ Beside(w, v) /\ w.shown = v.shown /\ w.focus = v.focus
    <3>1. CASE v.shown = <<>>
      BY <1>1, <3>1 DEF LookedUp, Beside
    <3>2. CASE v.shown # <<>>
      BY <1>1, <3>2, KeyedIs, KeyedListed DEF LookedUp
    <3>. QED  BY <3>1, <3>2
  <2> HIDE DEF w
  <2>2. Shown(w) = Shown(v) /\ FocusOK(w) /\ Stored(w, f)
    BY <1>1, <1>3, <2>1 DEF Shown, FocusOK, Beside, Stored
  <2>3. Finds(w, f) <=> f \in Shown(w)
    BY <2>1, FindsIff
  <2>4. Listed(u) /\ FocusOK(u) /\ Beside(u, w)
    <3>1. CASE Filtered(v, f) /\ ~Finds(w, f)
      <4>1. u = Appears(w, f)
        BY <1>3, <3>1 DEF Updated, w
      <4> HIDE DEF u
      <4>. QED  BY <2>1, <2>2, <2>3, <3>1, <4>1, AppearsIs
    <3>2. CASE Filtered(v, f) /\ Finds(w, f)
      <4>1. u = Reordered(w, f)
        BY <1>3, <3>2 DEF Updated, w
      <4> HIDE DEF u
      <4>. QED  BY <2>1, <2>2, <2>3, <3>2, <4>1, ReorderedIs
    <3>3. CASE ~Filtered(v, f) /\ Finds(w, f)
      <4>1. u = Hidden(w, f)
        BY <1>3, <3>3 DEF Updated, w
      <4> HIDE DEF u
      <4>. QED  BY <2>1, <2>2, <2>3, <3>3, <4>1, HiddenIs
    <3>4. CASE ~Filtered(v, f) /\ ~Finds(w, f)
      <4>1. u = w
        BY <1>3, <3>4 DEF Updated, w
      <4> HIDE DEF u
      <4>. QED  BY <2>1, <2>2, <4>1 DEF Beside
    <3>. QED  BY <3>1, <3>2, <3>3, <3>4
  <2> HIDE DEF u
  <2>5. SettingsOK(u)
    BY <1>1, <2>1, <2>4, BesideTwice, BesideSettings
  <2>. QED  BY <2>4, <2>5 DEF ViewOK, u
<1>. QED  BY <1>2, <1>3

\* view.remove: the settings of the flow go with it.
LEMMA RemovedOK ==
    ASSUME NEW v, ViewOK(v), NEW f \in Flows
    PROVE  ViewOK(Removed(v, f))
<1> DEFINE w == IF Finds(v, f) THEN Hidden(v, f) ELSE v
           u == [w EXCEPT !.store = Only(@, Flows \ {f}), !.cached[f] = NoKeys]
<1>1. v \in ViewRec /\ Listed(v) /\ FocusOK(v) /\ SettingsOK(v)
  BY DEF ViewOK, Listed
<1>2. CASE ~Stored(v, f)
  BY <1>2 DEF Removed
<1>3. CASE Stored(v, f)
  <2>1. Removed(v, f) = u
    BY <1>3 DEF Removed
  <2>2. Finds(v, f) <=> f \in Shown(v)
    BY <1>1, FindsIff
  <2>3. /\ Listed(w) /\ FocusOK(w) /\ Beside(w, v) /\ f \notin Shown(w)
    <3>1. CASE Finds(v, f)
      BY <1>1, <2>2, <3>1, HiddenIs
    <3>2. CASE ~Finds(v, f)
      BY <1>1, <2>2, <3>2 DEF Beside
    <3>. QED  BY <3>1, <3>2
  <2>4. SettingsOK(w)
    BY <1>1, <2>3, BesideSettings
  <2> HIDE DEF w
  <2>5. w \in ViewRec /\ w.store \in Seq(Flows) /\ w.cached \in [Flows -> [Orders -> Keys]]
    BY <2>3 DEF Listed, ViewRec
  <2> DEFINE o == Only(w.store, Flows \ {f})
             c == [w.cached EXCEPT ![f] = NoKeys]
  <2>6. o \in Seq(Flows) /\ Distinct(o) /\ Entries(o) = Entries(w.store) \cap (Flows \ {f})
    BY <2>3, <2>5, OnlyIs DEF Listed
  <2>7. NoKeys \in [Orders -> Keys]
    BY DEF NoKeys, Keys
  <2>8. /\ c \in [Flows -> [Orders -> Keys]] /\ c[f] = NoKeys
        /\ \A g \in Flows : g # f => c[g] = w.cached[g]
    BY <2>5, <2>7
  <2>9. u.store = o /\ u.cached = c
    BY <2>5 DEF ViewRec
  <2>10. /\ u.shown = w.shown /\ u.order = w.order /\ u.raised = w.raised
         /\ u.focus = w.focus
    BY <2>5 DEF ViewRec
  <2> HIDE DEF o, c
  <2>11. u \in ViewRec
    BY <2>5, <2>6, <2>8, <2>9 DEF ViewRec
  <2> HIDE DEF u
  <2>12. \A g \in Flows : Stored(u, g) <=> (Stored(w, g) /\ g # f)
    BY <2>6, <2>9 DEF Stored, Elems, Entries
  <2>13. Shown(u) = Shown(w)
    BY <2>10 DEF Shown
  <2>14. ListOK(u)
    <3>1. ASSUME NEW i \in DOMAIN w.shown
          PROVE  w.shown[i].flow \in Flows /\ w.shown[i].flow # f
      BY <2>3, <2>5, <3>1, ShownIs
    <3>. QED  BY <2>3, <2>8, <2>9, <2>10, <2>12, <3>1 DEF Listed, ListOK
  <2>15. SettingsOK(u)
    BY <2>4, <2>8, <2>9, <2>12 DEF SettingsOK
  <2>. QED  BY <2>1, <2>3, <2>6, <2>9, <2>10, <2>11, <2>13, <2>14, <2>15
            DEF ViewOK, Listed, FocusOK
<1>. QED  BY <1>2, <1>3

\* A list that is filled anew shows exactly the flows it is filled with.
LEMMA RebuiltIs ==
    ASSUME NEW v \in ViewRec, ~v.raised, Distinct(v.store),
           NEW s \in Seq(Flows), Distinct(s), Entries(s) \subseteq Entries(v.store)
    PROVE  /\ Listed(Rebuilt(v, s)) /\ Beside(Rebuilt(v, s), v)
           /\ Rebuilt(v, s).focus = v.focus /\ Shown(Rebuilt(v, s)) = Entries(s)
<1> DEFINE n == Len(s)
           x == [v EXCEPT !.shown = <<>>]
           upto(i) == {s[j] : j \in 1 .. i}
<1>1. n \in Nat /\ DOMAIN s = 1 .. n /\ \A i \in 1 .. n : s[i] \in Flows /\ s[i] \in Entries(s)
  BY DEF Entries
<1>2. /\ x \in ViewRec /\ x.shown = <<>> /\ x.focus = v.focus /\ Beside(x, v)
      /\ x.raised = v.raised /\ x.store = v.store
  <2>1. <<>> \in Seq([flow : Flows, key : Keys])
    OBVIOUS
  <2>. QED  BY <2>1 DEF ViewRec, Beside
<1>3. PICK st : Stages(st, "base", x, s) /\ FoldLeft(BaseAdd, x, s) = st[n]
  BY BaseStages
<1> HIDE DEF n, x
<1> DEFINE Good(w, i) == /\ Listed(w) /\ Beside(w, v) /\ w.focus = v.focus
                         /\ Shown(w) = upto(i)
           G == {i \in 0 .. n : Good(st[i], i)}
<1>4. 0 \in G
  <2>1. ListOK(x) /\ Shown(x) = {}
    <3>1. DOMAIN x.shown = {}
      BY <1>2
    <3>2. ListOK(x)
      BY <3>1 DEF ListOK
    <3>3. Shown(x) = {}
      BY <1>2, ShownEmpty
    <3>. QED  BY <3>2, <3>3
  <2>2. upto(0) = {}
    OBVIOUS
  <2> HIDE DEF upto
  <2>3. Good(x, 0)
    BY <1>2, <2>1, <2>2 DEF Listed
  <2>4. st[0] = x
    BY <1>3 DEF Stages
  <2>. QED  BY <1>1, <2>3, <2>4
<1>5. ASSUME NEW i \in 0 .. n, i < n, i \in G PROVE i + 1 \in G
  <2> DEFINE w == st[i]
             f == s[i + 1]
             u == BaseAdd(w, f)
  <2>1. i + 1 \in 0 .. n /\ i + 1 \in 1 .. n /\ (i + 1) - 1 = i
    BY <1>1, <1>5
  <2>2. st[i + 1] = u
    BY <1>3, <2>1 DEF Stages, Each, n
  <2>3. f \in Flows /\ f \in Entries(v.store)
    BY <1>1, <2>1
  <2>4. Listed(w) /\ Beside(w, v) /\ w.focus = v.focus /\ Shown(w) = upto(i)
    BY <1>5
  <2>5. f \notin upto(i)
    <3>1. \A j \in 1 .. i : j \in DOMAIN s /\ j # i + 1
      BY <1>1, <2>1
    <3>. QED  BY <1>1, <2>1, <3>1 DEF Distinct
  <2>6. upto(i + 1) = upto(i) \cup {f}
    <3>1. \A j : j \in 1 .. i + 1 <=> j \in 1 .. i \/ j = i + 1
      BY <2>1
    <3>. QED  BY <3>1
  <2> HIDE DEF upto, f, w
  <2>7. Stored(w, f) /\ f \notin Shown(w)
    BY <2>3, <2>4, <2>5 DEF Beside, Stored, Elems, Entries
  <2> HIDE DEF u
  <2>8. Listed(u) /\ Beside(u, w) /\ u.focus = w.focus /\ Shown(u) = Shown(w) \cup {f}
    BY <2>3, <2>4, <2>7, BaseAddIs DEF u
  <2>9. Beside(u, v)
    BY <2>4, <2>8, BesideTwice
  <2>10. Good(u, i + 1)
    BY <2>4, <2>6, <2>8, <2>9
  <2>. QED  BY <2>1, <2>2, <2>10
<1>6. n \in G
  <2> HIDE DEF G
  <2>1. \A i \in 0 .. n : i < n /\ i \in G => i + 1 \in G
    BY <1>5
  <2>2. \A i \in 0 .. n : i \in G
    BY <1>1, <1>4, <2>1, InductionUpTo
  <2>. QED  BY <1>1, <2>2
<1>7. upto(n) = Entries(s)
  BY <1>1 DEF Entries
<1>8. Rebuilt(v, s) = st[n]
  BY <1>3 DEF Rebuilt, x
<1>. QED  BY <1>6, <1>7, <1>8

\* _refilter: nothing is asked of the list it starts from.
LEMMA RefilteredIs ==
    ASSUME NEW v \in ViewRec, ~v.raised, Distinct(v.store)
    PROVE  /\ Listed(Refiltered(v)) /\ FocusOK(Refiltered(v)) /\ Beside(Refiltered(v), v)
<1> DEFINE visible == {f \in Flows : (v.showMarked => f \in Marked) /\ Filtered(v, f)}
           s == Only(v.store, visible)
           w == Rebuilt(v, s)
           u == Refreshed(w)
<1>1. v.store \in Seq(Flows)
  BY DEF ViewRec
<1> HIDE DEF visible
<1>2. s \in Seq(Flows) /\ Distinct(s) /\ Entries(s) \subseteq Entries(v.store)
  BY <1>1, OnlyIs
<1> HIDE DEF s
<1>3. Listed(w) /\ Beside(w, v)
  BY <1>2, RebuiltIs
<1>4. Refiltered(v) = u
  BY DEF Refiltered, visible, s
<1> HIDE DEF w
<1>5. Listed(u) /\ FocusOK(u) /\ Beside(u, w)
  BY <1>3, RefreshedIs
<1> HIDE DEF u
<1>6. Beside(u, v)
  BY <1>3, <1>5, BesideTwice
<1>. QED  BY <1>4, <1>5, <1>6

\* Changing what is shown, then _refilter.
LEMMA RefilteredOK ==
    ASSUME NEW v, ViewOK(v), NEW u \in ViewRec, SameList(u, v)
    PROVE  ViewOK(Refiltered(u))
<1>1. ~u.raised /\ Distinct(u.store) /\ SettingsOK(u)
  BY SameListIs DEF ViewOK, Listed, SameList
<1>2. Listed(Refiltered(u)) /\ FocusOK(Refiltered(u)) /\ Beside(Refiltered(u), u)
  BY <1>1, RefilteredIs
<1>. QED  BY <1>1, <1>2, BesideSettings DEF ViewOK

\* sig_store_refresh: only the settings of what is stored are left.
LEMMA ExpiredOK ==
    ASSUME NEW v, Listed(v), FocusOK(v)
    PROVE  ViewOK(Expired(v))
<1> DEFINE u == Expired(v)
           c == [f \in Flows |-> IF Stored(v, f) THEN v.cached[f] ELSE NoKeys]
<1>1. v \in ViewRec /\ v.cached \in [Flows -> [Orders -> Keys]]
  BY DEF Listed, ViewRec
<1>2. NoKeys \in [Orders -> Keys]
  BY DEF NoKeys, Keys
<1>3. c \in [Flows -> [Orders -> Keys]]
  BY <1>1, <1>2
<1>4. u = [v EXCEPT !.cached = c]
  BY DEF Expired
<1>5. u.cached = c
  BY <1>1, <1>4 DEF ViewRec
<1>6. /\ \A f \in Flows : Stored(v, f) => u.cached[f] = v.cached[f]
      /\ \A f \in Flows : ~Stored(v, f) => u.cached[f] = NoKeys
  BY <1>5
<1> HIDE DEF c, u
<1>7. /\ u \in ViewRec /\ u.shown = v.shown /\ u.store = v.store
      /\ u.order = v.order /\ u.raised = v.raised /\ u.focus = v.focus
  BY <1>1, <1>3, <1>4 DEF ViewRec
<1>8. Shown(u) = Shown(v) /\ \A g : Stored(u, g) <=> Stored(v, g)
  BY <1>7 DEF Shown, Stored
<1>9. ListOK(u)
  <2>1. \A i \in DOMAIN v.shown : v.shown[i].flow \in Flows
    BY <1>1, ShownIs
  <2>. QED  BY <1>6, <1>7, <1>8, <2>1 DEF Listed, ListOK
<1>10. FocusOK(u) /\ SettingsOK(u)
  BY <1>6, <1>7, <1>8 DEF FocusOK, SettingsOK
<1>. QED  BY <1>7, <1>9, <1>10 DEF ViewOK, Listed, u

LEMMA ClearedOK ==
    ASSUME NEW v, ViewOK(v)
    PROVE  ViewOK(Cleared(v))
<1> DEFINE x == [v EXCEPT !.store = <<>>, !.shown = <<>>]
<1>1. v \in ViewRec /\ ~v.raised
  BY DEF ViewOK, Listed
<1>2. x \in ViewRec /\ x.shown = <<>> /\ x.store = <<>> /\ x.raised = v.raised
  <2>1. <<>> \in Seq([flow : Flows, key : Keys]) /\ <<>> \in Seq(Flows)
    OBVIOUS
  <2>. QED  BY <1>1, <2>1 DEF ViewRec
<1> HIDE DEF x
<1>3. ListOK(x)
  <2>1. DOMAIN x.shown = {}
    BY <1>2
  <2>. QED  BY <2>1 DEF ListOK
<1>4. Distinct(x.store)
  BY <1>2 DEF Distinct
<1>5. Listed(x)
  BY <1>1, <1>2, <1>3, <1>4 DEF Listed
<1>6. Listed(Refreshed(x)) /\ FocusOK(Refreshed(x))
  BY <1>5, RefreshedIs
<1>. QED  BY <1>6, ExpiredOK DEF Cleared, x

LEMMA ClearedUnmarkedOK ==
    ASSUME NEW v, ViewOK(v)
    PROVE  ViewOK(ClearedUnmarked(v))
<1> DEFINE x == [v EXCEPT !.store = Only(@, Marked)]
<1>1. v \in ViewRec /\ ~v.raised /\ v.store \in Seq(Flows) /\ Distinct(v.store)
  BY DEF ViewOK, Listed, ViewRec
<1>2. Only(v.store, Marked) \in Seq(Flows) /\ Distinct(Only(v.store, Marked))
  BY <1>1, OnlyIs
<1>3. x \in ViewRec /\ x.store = Only(v.store, Marked) /\ x.raised = v.raised
  BY <1>1, <1>2 DEF ViewRec
<1> HIDE DEF x
<1>4. Listed(Refiltered(x)) /\ FocusOK(Refiltered(x))
  BY <1>1, <1>2, <1>3, RefilteredIs
<1>. QED  BY <1>4, ExpiredOK DEF ClearedUnmarked, x

\* set_order.
LEMMA SortedOK ==
    ASSUME NEW v, ViewOK(v), NEW order \in Orders
    PROVE  ViewOK(Sorted(v, order))
<1> DEFINE x == [v EXCEPT !.order = order]
           s == [i \in DOMAIN v.shown |-> v.shown[i].flow]
           u == Rebuilt(x, s)
<1>1. v \in ViewRec /\ Listed(v) /\ FocusOK(v) /\ SettingsOK(v)
  BY DEF ViewOK, Listed
<1>2. /\ x \in ViewRec /\ x.store = v.store /\ x.raised = v.raised /\ x.focus = v.focus
      /\ x.cached = v.cached
  BY <1>1 DEF ViewRec
<1>3. /\ Len(v.shown) \in Nat /\ DOMAIN v.shown = 1 .. Len(v.shown)
      /\ \A i \in DOMAIN v.shown : v.shown[i].flow \in Flows
      /\ Shown(v) = {v.shown[i].flow : i \in DOMAIN v.shown}
  BY <1>1, ShownIs
<1>4. s \in Seq(Flows) /\ DOMAIN s = DOMAIN v.shown
  BY <1>3
<1>5. Entries(s) = Shown(v)
  BY <1>3, <1>4 DEF Entries
<1>6. Distinct(s)
  <2>1. ASSUME NEW i \in DOMAIN v.shown, NEW j \in DOMAIN v.shown, i # j
        PROVE  s[i] # s[j]
    <3>1. i < j \/ j < i
      BY <1>3, <2>1
    <3>. QED  BY <1>1, <3>1 DEF Listed, ListOK
  <2> HIDE DEF s
  <2>. QED  BY <1>4, <2>1 DEF Distinct
<1>7. Entries(s) \subseteq Entries(x.store)
  <2>1. \A f \in Shown(v) : f \in Entries(v.store)
    BY <1>1, ShownStored DEF Stored, Elems, Entries
  <2> HIDE DEF s, x
  <2>. QED  BY <1>2, <1>5, <2>1
<1>8. Sorted(v, order) = u
  BY DEF Sorted
<1> HIDE DEF x, s, u
<1>9. Listed(u) /\ Beside(u, x) /\ u.focus = x.focus /\ Shown(u) = Entries(s)
  BY <1>1, <1>2, <1>4, <1>6, <1>7, RebuiltIs DEF Listed, u
<1>10. FocusOK(u)
  <2>1. (u.shown = <<>> <=> Shown(u) = {}) /\ (v.shown = <<>> <=> Shown(v) = {})
    BY <1>1, <1>9, ShownEmpty DEF Listed
  <2>. QED  BY <1>1, <1>2, <1>5, <1>9, <2>1 DEF FocusOK
<1>11. SettingsOK(u)
  <2>1. SettingsOK(x)
    BY <1>1, <1>2 DEF SettingsOK, Stored
  <2>. QED  BY <1>9, <2>1, BesideSettings
<1>. QED  BY <1>8, <1>9, <1>10, <1>11 DEF ViewOK

\* A flow changes, and the view does not hear of it.
LEMMA ResizedOK ==
    ASSUME NEW v, ViewOK(v), NEW size \in [Flows -> Sizes]
    PROVE  ViewOK([v EXCEPT !.size = size])
<1> DEFINE u == [v EXCEPT !.size = size]
<1>1. v \in ViewRec
  BY DEF ViewOK, Listed
<1>2. u \in ViewRec /\ SameList(u, v) /\ u.focus = v.focus
  BY <1>1 DEF ViewRec, SameList
<1> HIDE DEF u
<1>. QED  BY <1>2, SameListIs DEF ViewOK, u

LEMMA ResizedOneOK ==
    ASSUME NEW v, ViewOK(v), NEW f \in Flows, NEW z \in Sizes
    PROVE  ViewOK([v EXCEPT !.size[f] = z])
<1>1. v \in ViewRec /\ v.size \in [Flows -> Sizes]
  BY DEF ViewOK, Listed, ViewRec
<1> DEFINE size == [v.size EXCEPT ![f] = z]
<1>2. [v EXCEPT !.size[f] = z] = [v EXCEPT !.size = size] /\ size \in [Flows -> Sizes]
  BY <1>1 DEF ViewRec
<1> HIDE DEF size
<1>. QED  BY <1>2, ResizedOK

------------------------------------------------------------------------------
(* The view, on its own. *)

LEMMA NewViewOK ==
    ASSUME NEW size \in [Flows -> Sizes], NEW follow \in BOOLEAN
    PROVE  ViewOK(NewView(size, follow))
<1> DEFINE u == NewView(size, follow)
<1>1. NoKeys \in [Orders -> Keys]
  BY DEF NoKeys, Keys
<1>2. <<>> \in Seq(Flows) /\ <<>> \in Seq([flow : Flows, key : Keys])
  OBVIOUS
<1>3. [f \in Flows |-> NoKeys] \in [Flows -> [Orders -> Keys]]
  BY <1>1
<1>4. u \in ViewRec
  BY <1>2, <1>3 DEF NewView, ViewRec, Orders
<1>5. /\ u.shown = <<>> /\ u.store = <<>> /\ u.focus = None /\ u.raised = FALSE
      /\ \A f \in Flows : u.cached[f] = NoKeys
  BY DEF NewView
<1> HIDE DEF u
<1>6. DOMAIN u.shown = {}
  BY <1>5
<1>7. ListOK(u) /\ Distinct(u.store) /\ FocusOK(u) /\ SettingsOK(u)
  BY <1>5, <1>6 DEF ListOK, Distinct, FocusOK, SettingsOK
<1>. QED  BY <1>4, <1>5, <1>7 DEF ViewOK, Listed, u

LEMMA ViewStep ==
    ASSUME ViewOK(view), ViewNext
    PROVE  ViewOK(view')
<1>1. view \in ViewRec /\ view.matches \in SUBSET Sizes /\ view.size \in [Flows -> Sizes]
  BY DEF ViewOK, Listed, ViewRec
<1>2. ASSUME NEW f \in Flows, RemoveFlow(f) PROVE ViewOK(view')
  BY <1>2, RemovedOK DEF RemoveFlow
<1>3. ASSUME NEW f \in Flows, FocusOn(f) PROVE ViewOK(view')
  <2> DEFINE u == [view EXCEPT !.focus = f]
  <2>1. /\ Listed(u) /\ Beside(u, view) /\ u.focus = f /\ u.shown = view.shown
        /\ Shown(u) = Shown(view)
    BY FocusedIs DEF ViewOK
  <2>2. view' = u /\ f \in Shown(view) /\ Shown(view) # {}
    BY <1>3 DEF FocusOn
  <2> HIDE DEF u
  <2>3. view.shown # <<>>
    BY <1>1, <2>2, ShownEmpty
  <2>4. FocusOK(u) /\ SettingsOK(u)
    BY <2>1, <2>2, <2>3, BesideSettings DEF ViewOK, FocusOK
  <2>. QED  BY <2>1, <2>2, <2>4 DEF ViewOK
<1>4. ASSUME NEW o \in Orders, SetOrder(o) PROVE ViewOK(view')
  BY <1>4, SortedOK DEF SetOrder
<1>5. ASSUME NEW m \in SUBSET Sizes, SetFilter(m) PROVE ViewOK(view')
  <2> DEFINE u == [view EXCEPT !.matches = m]
  <2>1. u \in ViewRec /\ SameList(u, view)
    BY <1>1 DEF ViewRec, SameList
  <2>2. view' = Refiltered(u)
    BY <1>5 DEF SetFilter
  <2> HIDE DEF u
  <2>. QED  BY <2>1, <2>2, RefilteredOK
<1>6. ASSUME Clear PROVE ViewOK(view')
  BY <1>6, ClearedOK DEF Clear
<1>7. ASSUME ClearUnmarked PROVE ViewOK(view')
  BY <1>7, ClearedUnmarkedOK DEF ClearUnmarked
<1>8. ASSUME SetReversed PROVE ViewOK(view')
  <2> DEFINE u == [view EXCEPT !.reversed = ~@]
  <2>1. u \in ViewRec /\ SameList(u, view)
    BY <1>1 DEF ViewRec, SameList
  <2>2. view' = Refreshed(u)
    BY <1>8 DEF SetReversed
  <2> HIDE DEF u
  <2>3. Listed(u) /\ SettingsOK(u)
    BY <2>1, SameListIs DEF ViewOK
  <2>4. Listed(Refreshed(u)) /\ FocusOK(Refreshed(u)) /\ Beside(Refreshed(u), u)
    BY <2>3, RefreshedIs
  <2>. QED  BY <2>2, <2>3, <2>4, BesideSettings DEF ViewOK
<1>9. ASSUME ToggleMarked PROVE ViewOK(view')
  <2> DEFINE u == [view EXCEPT !.showMarked = ~@]
  <2>1. u \in ViewRec /\ SameList(u, view)
    BY <1>1 DEF ViewRec, SameList
  <2>2. view' = Refiltered(u)
    BY <1>9 DEF ToggleMarked
  <2> HIDE DEF u
  <2>. QED  BY <2>1, <2>2, RefilteredOK
<1>10. ASSUME NEW f \in Flows, Change(f) PROVE ViewOK(view')
  BY <1>10, ResizedOneOK DEF Change
<1>11. ASSUME NEW f \in Flows, Add(f) PROVE ViewOK(view')
  BY <1>11, AddedOK DEF Add
<1>12. ASSUME NEW f \in Flows, Update(f) PROVE ViewOK(view')
  BY <1>12, UpdatedOK DEF Update
<1>13. \A z \in Sizes : {z} \in SUBSET Sizes
  OBVIOUS
<1>. QED  BY <1>2, <1>3, <1>4, <1>5, <1>6, <1>7, <1>8, <1>9, <1>10, <1>11, <1>12, <1>13
          DEF ViewNext, User

\* What the view is asked for follows.
LEMMA ViewOKAgrees ==
    ASSUME ViewOK(view)
    PROVE  ViewAgrees /\ ViewTypeOK
<1>1. ~view.raised /\ ListOK(view) /\ Listed(view)
  BY DEF ViewOK, Listed
<1>2. \A f \in Shown(view) : Stored(view, f) /\ Finds(view, f)
  BY <1>1, ShownStored, FindsIff
<1>3. ViewFindsFlows
  BY <1>1, <1>2 DEF ViewFindsFlows, ListOK
<1>. QED  BY <1>3 DEF ViewOK, FocusOK, SettingsOK, ViewAgrees, FocusShown, SettingsExpire,
                      Listed, ViewTypeOK

------------------------------------------------------------------------------
(* The playback. *)

Typed ==
    /\ arranging \in BOOLEAN
    /\ flow \in [Flows -> FlowRec]
    /\ streams \in [Flows -> Seq(Stream)]
    /\ playback \in Playback
    /\ excused \subseteq Flows

\* Adding, or updating, one flow after the other.
LEMMA StagesOK ==
    ASSUME NEW kind \in {"added", "updated"}, NEW v, ViewOK(v), NEW s \in Seq(Flows),
           NEW st, Stages(st, kind, v, s)
    PROVE  ViewOK(st[Len(s)])
<1> DEFINE n == Len(s)
           G == {i \in 0 .. n : ViewOK(st[i])}
<1>1. n \in Nat /\ \A i \in 1 .. n : s[i] \in Flows
  OBVIOUS
<1>2. st[0] = v /\ \A i \in 1 .. n : st[i] = Each(kind, st[i - 1], s[i])
  BY DEF Stages
<1> HIDE DEF n
<1>3. 0 \in G
  BY <1>1, <1>2
<1>4. ASSUME NEW i \in 0 .. n, i < n, i \in G PROVE i + 1 \in G
  <2> DEFINE w == st[i]
             f == s[i + 1]
  <2>1. i + 1 \in 0 .. n /\ i + 1 \in 1 .. n /\ (i + 1) - 1 = i
    BY <1>1, <1>4
  <2>2. st[i + 1] = Each(kind, w, f)
    BY <1>2, <2>1
  <2>3. f \in Flows /\ ViewOK(w)
    BY <1>1, <1>4, <2>1
  <2> HIDE DEF f, w
  <2>4. ViewOK(Each(kind, w, f))
    BY <2>3, AddedOK, UpdatedOK DEF Each
  <2>. QED  BY <2>1, <2>2, <2>4
<1>5. n \in G
  <2> HIDE DEF G
  <2>1. \A i \in 0 .. n : i < n /\ i \in G => i + 1 \in G
    BY <1>4
  <2>2. \A i \in 0 .. n : i \in G
    BY <1>1, <1>3, <2>1, InductionUpTo
  <2>. QED  BY <1>1, <2>2
<1>. QED  BY <1>5 DEF n

LEMMA InitOK ==
    ASSUME Init
    PROVE  ViewOK(view) /\ Typed
<1>1. <<>> \in Seq(Flows) /\ <<>> \in Seq(Stream)
  OBVIOUS
<1>2. \A b \in BOOLEAN : NewFlow(b) \in FlowRec
  BY DEF NewFlow, FlowRec
<1>3. NoReplay \in Playback
  BY <1>1, ReplayAssumption DEF NoReplay, Playback
<1>4. <<NewStream("traffic", "running")>> \in Seq(Stream)
  BY DEF NewStream, Stream
<1>5. CASE arranging
  <2>1. InitArranging
    BY <1>5 DEF Init
  <2>2. ViewOK(view)
    BY <2>1, NewViewOK DEF InitArranging, ViewInit
  <2>. QED  BY <1>1, <1>2, <1>3, <1>5, <2>1, <2>2 DEF InitArranging, Init, Typed
<1>6. CASE ~arranging
  <2>1. PICK alive \in SUBSET Traffic, s \in SetToSeqs(Flows) :
           LET size == [f \in Flows |-> IF f \in alive THEN 0 ELSE 1] IN
           /\ view = FoldLeft(Added, NewView(size, FALSE), s)
           /\ flow = [f \in Flows |-> NewFlow(f \in alive)]
           /\ streams = [f \in Flows |-> IF f \in alive THEN <<NewStream("traffic", "running")>>
                                         ELSE <<>>]
           /\ playback = NoReplay
    BY <1>6 DEF Init, InitReplaying
  <2> DEFINE size == [f \in Flows |-> IF f \in alive THEN 0 ELSE 1]
             v == NewView(size, FALSE)
  <2>2. size \in [Flows -> Sizes]
    BY ReplayAssumption
  <2>3. s \in Seq(Flows)
    <3>1. Cardinality(Flows) \in Nat
      BY FlowAssumption, FS_CardinalityType
    <3>2. s \in [1 .. Cardinality(Flows) -> Flows]
      BY DEF SetToSeqs
    <3>. QED  BY <3>1, <3>2
  <2>4. ViewOK(v)
    BY <2>2, NewViewOK
  <2>5. view = FoldLeft(Added, v, s)
    BY <2>1
  <2> HIDE DEF v
  <2>6. ViewOK(view)
    <3>1. PICK st : Stages(st, "added", v, s) /\ FoldLeft(Added, v, s) = st[Len(s)]
      BY <2>3, AddedStages
    <3>. QED  BY <2>3, <2>4, <2>5, <3>1, StagesOK
  <2>7. \A f \in Flows : (f \in alive) \in BOOLEAN
    OBVIOUS
  <2>8. flow \in [Flows -> FlowRec] /\ streams \in [Flows -> Seq(Stream)]
    BY <1>1, <1>2, <1>4, <2>1, <2>7
  <2>. QED  BY <1>3, <1>6, <2>1, <2>6, <2>8 DEF Init, Typed
<1>. QED  BY <1>5, <1>6 DEF Init

\* Whatever changes a flow, a stream or the queue leaves the view in order.
LEMMA ViewKept ==
    ASSUME ViewOK(view), Typed, [Next]_vars
    PROVE  ViewOK(view')
<1>1. flow \in [Flows -> FlowRec] /\ playback.queue \in Seq(Flows) /\ view.size \in [Flows -> Sizes]
  BY DEF Typed, Playback, ViewOK, Listed, ViewRec
<1>2. CASE UNCHANGED vars
  BY <1>2 DEF vars
<1>3. CASE ViewNext
  BY <1>3, ViewStep
<1>4. 0 \in Sizes /\ 1 \in Sizes
  BY ReplayAssumption
<1>5. ASSUME NEW f \in Flows, NEW i \in DOMAIN streams[f] PROVE
         /\ Begins(f, i) => ViewOK(view')
         /\ Responds(f, i) => ViewOK(view')
         /\ Ends(f, i) => ViewOK(view')
         /\ Holds(f, i) => ViewOK(view')
         /\ Silent(f, i) => ViewOK(view')
  <2>1. Begins(f, i) => ViewOK(view')
    BY AddedOK DEF Begins, Live
  <2>2. Responds(f, i) => ViewOK(view')
    BY <1>4, ResizedOneOK DEF Responds
  <2>3. Ends(f, i) => ViewOK(view')
    BY UpdatedOK DEF Ends
  <2>4. Holds(f, i) => ViewOK(view')
    BY UpdatedOK DEF Holds
  <2>5. Silent(f, i) => ViewOK(view')
    BY DEF Silent
  <2>. QED  BY <2>1, <2>2, <2>3, <2>4, <2>5
<1>6. ASSUME NEW f \in Flows PROVE
         /\ ReplayAwaited(f) => ViewOK(view')
         /\ ReplayScheduled(f) => ViewOK(view')
         /\ UserKill(f) => ViewOK(view')
         /\ UserRemove(f) => ViewOK(view')
         /\ UserResume(f) => ViewOK(view')
         /\ UserEdit(f) => ViewOK(view')
         /\ UserRevert(f) => ViewOK(view')
         /\ StartReplay(f) => ViewOK(view')
  <2>1. ReplayAwaited(f) => ViewOK(view')
    BY AddedOK DEF ReplayAwaited, Live
  <2>2. ReplayScheduled(f) => ViewOK(view')
    BY DEF ReplayScheduled
  <2>3. UserKill(f) => ViewOK(view')
    BY UpdatedOK DEF UserKill
  <2>4. UserRemove(f) => ViewOK(view')
    BY RemovedOK DEF UserRemove, RemoveFlow
  <2>5. UserResume(f) => ViewOK(view')
    BY UpdatedOK DEF UserResume
  <2>6. StartReplay(f) => ViewOK(view')
    <3> DEFINE v == [view EXCEPT !.size[f] = 0]
    <3>1. ViewOK(v)
      BY <1>4, ResizedOneOK
    <3>2. StartReplay(f) => view' = Updated(v, f)
      BY DEF StartReplay
    <3> HIDE DEF v
    <3>. QED  BY <3>1, <3>2, UpdatedOK
  <2>7. UserEdit(f) => ViewOK(view')
    BY UpdatedOK DEF UserEdit
  <2>8. ASSUME UserRevert(f) PROVE ViewOK(view')
    <3> DEFINE z == flow[f].backup.size
               v == [view EXCEPT !.size[f] = z]
    <3>1. flow[f].backup \in Backup
      BY <1>1, <2>8 DEF UserRevert, FlowRec
    <3>2. z \in Sizes
      BY <3>1 DEF Backup
    <3> HIDE DEF z
    <3>3. ViewOK(v)
      BY <3>2, ResizedOneOK
    <3>4. view' = Updated(v, f)
      BY <2>8 DEF UserRevert, z
    <3> HIDE DEF v
    <3>. QED  BY <3>3, <3>4, UpdatedOK
  <2>. QED  BY <2>1, <2>2, <2>3, <2>4, <2>5, <2>6, <2>7, <2>8
<1>7. ASSUME StopReplay PROVE ViewOK(view')
  <2> DEFINE reverted == {f \in Elems(playback.queue) : flow[f].backup # None}
             size == [f \in Flows |-> IF f \in reverted THEN flow[f].backup.size ELSE view.size[f]]
             v == [view EXCEPT !.size = size]
  <2>1. \A f \in reverted : flow[f].backup.size \in Sizes
    <3>1. \A f \in reverted : flow[f] \in FlowRec /\ flow[f].backup # None
      BY <1>1 DEF Elems
    <3>. QED  BY <3>1 DEF FlowRec, Backup
  <2>2. size \in [Flows -> Sizes]
    BY <1>1, <2>1
  <2>3. view' = FoldLeft(Updated, v, playback.queue)
    BY <1>7 DEF StopReplay
  <2>4. ViewOK(v)
    <3> HIDE DEF size
    <3>. QED  BY <2>2, ResizedOK
  <2> HIDE DEF v
  <2>5. PICK st : /\ Stages(st, "updated", v, playback.queue)
                  /\ FoldLeft(Updated, v, playback.queue) = st[Len(playback.queue)]
    BY <1>1, UpdatedStages
  <2>. QED  BY <1>1, <2>3, <2>4, <2>5, StagesOK
<1>8. ASSUME Clear PROVE ViewOK(view')
  BY <1>8, ClearedOK DEF Clear
<1>9. CASE Replaying
  BY <1>5, <1>6, <1>7, <1>8, <1>9 DEF Replaying, TakeNext, StreamStep
<1>. QED  BY <1>2, <1>3, <1>9 DEF Next

------------------------------------------------------------------------------
(* Streams. *)

\* A flow that has a stream and that check would not refuse has been killed, or the stream
\* has not begun.  Only behind a replay that is awaited may its flow be queued again.
Apart(f) ==
    /\ Len(streams[f]) <= 1
    /\ \A i \in DOMAIN streams[f] :
          /\ flow[f].live \/ streams[f][i].killed \/ streams[f][i].at = "scheduled"
          /\ streams[f][i].by # "playback" => f \notin Elems(playback.queue)

AllApart == \A f \in Flows : f \in excused \/ Apart(f)

LEMMA QueueAppend ==
    ASSUME NEW q \in Seq(Flows), NEW e \in Flows
    PROVE  Append(q, e) \in Seq(Flows) /\ Elems(Append(q, e)) = Elems(q) \cup {e}
BY AppendNew DEF Elems, Entries

LEMMA QueueTail ==
    ASSUME NEW q \in Seq(Flows), q # <<>>
    PROVE  /\ Tail(q) \in Seq(Flows) /\ Elems(Tail(q)) \subseteq Elems(q)
           /\ Head(q) \in Elems(q)
<1> DEFINE r == Tail(q)
<1>1. /\ r \in Seq(Flows) /\ Len(q) \in Nat /\ Len(q) >= 1 /\ DOMAIN q = 1 .. Len(q)
      /\ DOMAIN r = 1 .. Len(q) - 1 /\ Head(q) = q[1]
      /\ \A i \in 1 .. Len(q) - 1 : r[i] = q[i + 1]
  OBVIOUS
<1> HIDE DEF r
<1>2. /\ \A i \in DOMAIN r : i + 1 \in DOMAIN q /\ r[i] = q[i + 1]
      /\ 1 \in DOMAIN q
  BY <1>1
<1>. QED  BY <1>1, <1>2 DEF r, Elems

\* What a flow's being apart depends on.
LEMMA ApartStays ==
    ASSUME NEW f \in Flows, Apart(f), streams'[f] = streams[f],
           f \in Elems(playback'.queue) => f \in Elems(playback.queue),
           flow[f].live => flow'[f].live
    PROVE  Apart(f)'
BY DEF Apart

\* A stream gets on.
LEMMA MovesIs ==
    ASSUME Typed, NEW f \in Flows, NEW i \in DOMAIN streams[f],
           NEW at \in {"scheduled", "running", "held", "resumed", "silent", "answered"},
           Moves(f, i, at)
    PROVE  /\ streams' \in [Flows -> Seq(Stream)]
           /\ \A g \in Flows : g # f => streams'[g] = streams[g]
           /\ Len(streams'[f]) = Len(streams[f]) /\ DOMAIN streams'[f] = DOMAIN streams[f]
           /\ \A j \in DOMAIN streams[f] :
                 /\ streams'[f][j].by = streams[f][j].by
                 /\ streams'[f][j].killed = streams[f][j].killed
                 /\ j # i => streams'[f][j] = streams[f][j]
<1> DEFINE s == streams[f]
           t == [s EXCEPT ![i].at = at]
<1>1. streams \in [Flows -> Seq(Stream)] /\ s \in Seq(Stream)
  BY DEF Typed
<1>2. streams' = [streams EXCEPT ![f] = t]
  BY <1>1 DEF Moves
<1>3. Len(s) \in Nat /\ DOMAIN s = 1 .. Len(s) /\ i \in 1 .. Len(s) /\ s[i] \in Stream
  BY <1>1
<1> HIDE DEF s
<1>4. /\ t \in Seq(Stream) /\ Len(t) = Len(s) /\ DOMAIN t = DOMAIN s
      /\ t[i].by = s[i].by /\ t[i].killed = s[i].killed /\ \A j \in DOMAIN s : j # i => t[j] = s[j]
  <2>1. /\ [s[i] EXCEPT !.at = at] \in Stream /\ [s[i] EXCEPT !.at = at].by = s[i].by
        /\ [s[i] EXCEPT !.at = at].killed = s[i].killed
    BY <1>3 DEF Stream
  <2>2. t = [s EXCEPT ![i] = [s[i] EXCEPT !.at = at]]
    BY <1>3
  <2>3. s \in Seq(Stream)
    BY <1>1 DEF s
  <2>. QED  BY <1>3, <2>1, <2>2, <2>3
<1> HIDE DEF t
<1>5. streams'[f] = t
  BY <1>1, <1>2
<1>. QED  BY <1>1, <1>2, <1>3, <1>4, <1>5 DEF s

LEMMA EndsIs ==
    ASSUME Typed, NEW f \in Flows, NEW i \in DOMAIN streams[f], Ends(f, i)
    PROVE  /\ streams' \in [Flows -> Seq(Stream)]
           /\ \A g \in Flows : g # f => streams'[g] = streams[g]
           /\ Len(streams'[f]) = Len(streams[f]) - 1 /\ Len(streams[f]) \in Nat
<1>1. streams \in [Flows -> Seq(Stream)] /\ streams[f] \in Seq(Stream) /\ i \in 1 .. Len(streams[f])
  BY DEF Typed
<1>2. streams' = [streams EXCEPT ![f] = RemoveAt(streams[f], i)]
  BY DEF Ends
<1>3. /\ RemoveAt(streams[f], i) \in Seq(Stream)
      /\ Len(RemoveAt(streams[f], i)) = Len(streams[f]) - 1
  BY <1>1, RemoveAtIs
<1>. QED  BY <1>1, <1>2, <1>3

\* What backup and revert leave of a flow.
LEMMA BackedUpIs ==
    ASSUME ViewOK(view), Typed, NEW f \in Flows
    PROVE  BackedUp(f) \in FlowRec /\ BackedUp(f).live = flow[f].live
<1> DEFINE b == [size |-> view.size[f], killed |-> flow[f].killed,
                 intercepted |-> flow[f].intercepted]
<1>1. flow[f] \in FlowRec /\ view.size[f] \in Sizes
  BY DEF Typed, ViewOK, Listed, ViewRec
<1>2. b \in Backup
  BY <1>1 DEF FlowRec, Backup
<1>3. BackedUp(f) = IF flow[f].backup # None THEN flow[f] ELSE [flow[f] EXCEPT !.backup = b]
  BY DEF BackedUp
<1> HIDE DEF b
<1>. QED  BY <1>1, <1>2, <1>3 DEF FlowRec

LEMMA RevertedIs ==
    ASSUME Typed, NEW f \in Flows, flow[f].backup # None
    PROVE  Reverted(f) \in FlowRec /\ Reverted(f).live = flow[f].live
<1>1. flow[f] \in FlowRec
  BY DEF Typed
<1>2. flow[f].backup \in Backup
  BY <1>1 DEF FlowRec
<1>3. flow[f].backup.killed \in BOOLEAN /\ flow[f].backup.intercepted \in BOOLEAN
  BY <1>2 DEF Backup
<1>. QED  BY <1>1, <1>3 DEF Reverted, FlowRec

\* What a kill does to a flow and its streams.
LEMMA KilledIs ==
    ASSUME Typed, NEW f \in Flows, Killed(f)
    PROVE  /\ flow' \in [Flows -> FlowRec] /\ streams' \in [Flows -> Seq(Stream)]
           /\ \A g \in Flows : g # f => flow'[g] = flow[g] /\ streams'[g] = streams[g]
           /\ Len(streams'[f]) = Len(streams[f]) /\ DOMAIN streams'[f] = DOMAIN streams[f]
           /\ \A i \in DOMAIN streams[f] :
                 streams'[f][i].killed = TRUE /\ streams'[f][i].by = streams[f][i].by
<1> DEFINE s == streams[f]
           t == [i \in DOMAIN s |-> [s[i] EXCEPT !.killed = TRUE]]
           e == [flow[f] EXCEPT !.killed = TRUE, !.intercepted = FALSE, !.live = FALSE]
<1>1. /\ flow \in [Flows -> FlowRec] /\ flow[f] \in FlowRec
      /\ streams \in [Flows -> Seq(Stream)]
      /\ s \in Seq(Stream) /\ DOMAIN s = 1 .. Len(s) /\ Len(s) \in Nat
  BY DEF Typed
<1>2. e \in FlowRec
  BY <1>1 DEF FlowRec
<1>3. flow' = [flow EXCEPT ![f] = e] /\ streams' = [streams EXCEPT ![f] = t]
  BY <1>1 DEF Killed
<1>4. ASSUME NEW i \in DOMAIN s
      PROVE  /\ [s[i] EXCEPT !.killed = TRUE] \in Stream
             /\ t[i].killed = TRUE /\ t[i].by = s[i].by
  <2>1. s[i] \in Stream
    BY <1>1
  <2>2. t[i] = [s[i] EXCEPT !.killed = TRUE]
    OBVIOUS
  <2>. QED  BY <2>1, <2>2 DEF Stream
<1>5. t \in Seq(Stream) /\ DOMAIN t = DOMAIN s /\ Len(t) = Len(s)
  <2>1. ASSUME NEW i \in DOMAIN s PROVE [s[i] EXCEPT !.killed = TRUE] \in Stream
    BY <1>4
  <2> HIDE DEF s
  <2>2. t \in Seq(Stream) /\ DOMAIN t = DOMAIN s
    BY <1>1, <2>1
  <2>3. Len(t) = Len(s)
    BY <1>1, <2>2
  <2>. QED  BY <2>2, <2>3
<1> HIDE DEF t, e
<1>6. streams'[f] = t
  BY <1>1, <1>3
<1>. QED  BY <1>1, <1>2, <1>3, <1>4, <1>5, <1>6

\* What start_replay does to the flows and the queue.
LEMMA StartedIs ==
    ASSUME ViewOK(view), Typed, NEW f \in Flows, StartReplay(f)
    PROVE  /\ flow' \in [Flows -> FlowRec]
           /\ \A g \in Flows : g # f => flow'[g] = flow[g]
           /\ playback' \in Playback
           /\ playback'.queue = Append(playback.queue, f)
<1> DEFINE b == BackedUp(f)
           new == [b EXCEPT !.killed = FALSE]
<1>1. /\ flow \in [Flows -> FlowRec] /\ playback \in Playback
      /\ playback.queue \in Seq(Flows) /\ playback.put \in Nat
  BY DEF Typed, Playback
<1>2. /\ flow' = [flow EXCEPT ![f] = new]
      /\ playback' = [playback EXCEPT !.queue = Append(@, f), !.put = @ + 1]
  BY DEF StartReplay
<1>3. b \in FlowRec
  BY BackedUpIs
<1> HIDE DEF b
<1>4. new \in FlowRec
  BY <1>3 DEF FlowRec
<1> HIDE DEF new
<1>5. Append(playback.queue, f) \in Seq(Flows) /\ playback.put + 1 \in Nat
  BY <1>1
<1>6. playback' \in Playback /\ playback'.queue = Append(playback.queue, f)
  BY <1>1, <1>2, <1>5 DEF Playback
<1>. QED  BY <1>1, <1>2, <1>4, <1>6

LEMMA TypedKept ==
    ASSUME ViewOK(view), Typed, [Next]_vars
    PROVE  Typed'
<1>1. /\ flow \in [Flows -> FlowRec] /\ streams \in [Flows -> Seq(Stream)]
      /\ playback \in Playback /\ arranging \in BOOLEAN /\ excused \subseteq Flows
      /\ view.size \in [Flows -> Sizes] /\ playback.queue \in Seq(Flows)
  BY DEF Typed, Playback, ViewOK, Listed, ViewRec
<1>2. CASE UNCHANGED vars
  BY <1>1, <1>2 DEF vars, Typed
<1>3. CASE UNCHANGED <<arranging, flow, streams, playback, excused>>
  BY <1>1, <1>3 DEF Typed
<1>4. ASSUME NEW f \in Flows, NEW i \in DOMAIN streams[f], Begins(f, i) \/ Holds(f, i),
             UNCHANGED arranging
      PROVE  Typed'
  <2>1. \/ flow' = [flow EXCEPT ![f].live = TRUE]
        \/ flow' = [flow EXCEPT ![f].intercepted = TRUE]
    BY <1>4 DEF Begins, Live, Holds
  <2>3. flow' \in [Flows -> FlowRec]
    <3>1. flow[f] \in FlowRec
      BY <1>1
    <3>2. /\ [flow[f] EXCEPT !.live = TRUE] \in FlowRec
          /\ [flow[f] EXCEPT !.intercepted = TRUE] \in FlowRec
      BY <3>1 DEF FlowRec
    <3>. QED  BY <1>1, <2>1, <3>2
  <2>2. streams' \in [Flows -> Seq(Stream)]
    BY <1>4, MovesIs DEF Begins, Holds
  <2>. QED  BY <1>1, <1>4, <2>2, <2>3 DEF Typed, Begins, Holds
<1>5. ASSUME NEW f \in Flows, NEW i \in DOMAIN streams[f], Responds(f, i) \/ Silent(f, i),
             UNCHANGED arranging
      PROVE  Typed'
  <2>1. streams' \in [Flows -> Seq(Stream)]
    BY <1>5, MovesIs DEF Responds, Silent
  <2>. QED  BY <1>1, <1>5, <2>1 DEF Typed, Responds, Silent
<1>6. ASSUME NEW f \in Flows, NEW i \in DOMAIN streams[f], Ends(f, i), UNCHANGED arranging
      PROVE  Typed'
  <2>1. flow' \in [Flows -> FlowRec]
    BY <1>1, <1>6 DEF Ends, FlowRec
  <2>2. streams' \in [Flows -> Seq(Stream)]
    BY <1>6, EndsIs
  <2>. QED  BY <1>1, <1>6, <2>1, <2>2 DEF Typed, Ends
<1>7. ASSUME NEW f \in Flows, UserKill(f) \/ UserRemove(f), UNCHANGED arranging PROVE Typed'
  <2>1. flow' \in [Flows -> FlowRec] /\ streams' \in [Flows -> Seq(Stream)]
    BY <1>1, <1>7, KilledIs DEF UserKill, UserRemove
  <2>. QED  BY <1>1, <1>7, <2>1 DEF Typed, UserKill, UserRemove
<1>8. ASSUME NEW f \in Flows, UserEdit(f) \/ UserRevert(f), UNCHANGED arranging PROVE Typed'
  <2>1. flow' \in [Flows -> FlowRec]
    BY <1>1, <1>8, BackedUpIs, RevertedIs DEF UserEdit, UserRevert
  <2>2. playback' \in Playback
    <3>1. playback.put \in Nat
      BY <1>1 DEF Playback
    <3>2. CASE UserEdit(f)
      <4> DEFINE n == playback.put + 1
      <4>1. n \in Nat /\ playback' = [playback EXCEPT !.put = n]
        BY <3>1, <3>2 DEF UserEdit
      <4> HIDE DEF n
      <4>. QED  BY <1>1, <4>1 DEF Playback
    <3>3. CASE UserRevert(f)
      BY <1>1, <3>3 DEF UserRevert
    <3>. QED  BY <1>8, <3>2, <3>3
  <2>3. UNCHANGED <<streams, excused>>
    BY <1>8 DEF UserEdit, UserRevert
  <2>. QED  BY <1>1, <1>8, <2>1, <2>2, <2>3 DEF Typed
<1>9. ASSUME NEW f \in Flows, UserResume(f), UNCHANGED arranging PROVE Typed'
  <2> DEFINE s == streams[f]
             t == [i \in DOMAIN s |-> IF s[i].at = "held"
                                      THEN [s[i] EXCEPT !.at = "resumed"] ELSE s[i]]
  <2>1. flow' \in [Flows -> FlowRec]
    BY <1>1, <1>9 DEF UserResume, FlowRec
  <2>2. streams' = [streams EXCEPT ![f] = t]
    BY <1>9 DEF UserResume
  <2>3. s \in Seq(Stream) /\ DOMAIN s = 1 .. Len(s) /\ Len(s) \in Nat
    BY <1>1
  <2>4. ASSUME NEW i \in DOMAIN s
        PROVE  (IF s[i].at = "held" THEN [s[i] EXCEPT !.at = "resumed"] ELSE s[i]) \in Stream
    <3>1. s[i] \in Stream
      BY <2>3
    <3>. QED  BY <3>1 DEF Stream
  <2>5. t \in Seq(Stream)
    <3> HIDE DEF s
    <3>. QED  BY <2>3, <2>4
  <2> HIDE DEF t
  <2>. QED  BY <1>1, <1>9, <2>1, <2>2, <2>5 DEF Typed, UserResume
<1>10. ASSUME NEW f \in Flows, StartReplay(f), UNCHANGED arranging PROVE Typed'
  <2>1. flow' \in [Flows -> FlowRec] /\ playback' \in Playback
    BY <1>10, StartedIs
  <2>2. excused' \subseteq Flows /\ streams' = streams
    BY <1>1, <1>10 DEF StartReplay
  <2>. QED  BY <1>1, <1>10, <2>1, <2>2 DEF Typed
<1>11. ASSUME StopReplay, UNCHANGED arranging PROVE Typed'
  <2>1. flow' \in [Flows -> FlowRec]
    <3> DEFINE reverted == {f \in Elems(playback.queue) : flow[f].backup # None}
    <3>1. flow' = [f \in Flows |-> IF f \in reverted THEN Reverted(f) ELSE flow[f]]
      BY <1>11 DEF StopReplay
    <3>2. \A f \in Flows : f \in reverted => Reverted(f) \in FlowRec
      BY RevertedIs
    <3> HIDE DEF reverted
    <3>. QED  BY <1>1, <3>1, <3>2
  <2>2. playback' \in Playback
    <3>1. <<>> \in Seq(Flows)
      OBVIOUS
    <3>. QED  BY <1>1, <1>11, <3>1 DEF StopReplay, Playback
  <2>. QED  BY <1>1, <1>11, <2>1, <2>2 DEF Typed, StopReplay
<1>12. ASSUME NEW f \in Flows, NEW by \in {"playback", "task"},
              NEW at \in {"scheduled", "running"}, Replay(f, by, at)
       PROVE  playback' \in Playback /\ streams' \in [Flows -> Seq(Stream)]
  <2> DEFINE e == NewStream(by, at)
  <2>1. Tail(playback.queue) \in Seq(Flows)
    BY <1>1, <1>12, QueueTail DEF Replay
  <2>2. playback' \in Playback
    BY <1>1, <1>12, <2>1 DEF Replay, Playback
  <2>3. e \in Stream
    BY DEF NewStream, Stream
  <2>4. streams' = [streams EXCEPT ![f] = Append(streams[f], e)]
    BY <1>12 DEF Replay
  <2> HIDE DEF e
  <2>5. Append(streams[f], e) \in Seq(Stream)
    BY <1>1, <2>3
  <2>. QED  BY <1>1, <2>2, <2>4, <2>5
<1>13. ASSUME NEW f \in Flows, ReplayAwaited(f) \/ ReplayScheduled(f), UNCHANGED arranging
       PROVE  Typed'
  <2>1. flow' \in [Flows -> FlowRec]
    <3> DEFINE e == [flow[f] EXCEPT !.live = TRUE]
    <3>1. e \in FlowRec
      BY <1>1 DEF FlowRec
    <3>2. flow' = flow \/ flow' = [flow EXCEPT ![f] = e]
      BY <1>1, <1>13 DEF ReplayAwaited, ReplayScheduled, Live
    <3> HIDE DEF e
    <3>. QED  BY <1>1, <3>1, <3>2
  <2>2. playback' \in Playback /\ streams' \in [Flows -> Seq(Stream)]
    BY <1>12, <1>13 DEF ReplayAwaited, ReplayScheduled
  <2>3. excused' \subseteq Flows
    BY <1>1, <1>13 DEF ReplayAwaited, ReplayScheduled
  <2>. QED  BY <1>1, <1>13, <2>1, <2>2, <2>3 DEF Typed
<1>14. CASE Replaying /\ UNCHANGED arranging
  BY <1>3, <1>4, <1>5, <1>6, <1>7, <1>8, <1>9, <1>10, <1>11, <1>13, <1>14
     DEF Replaying, TakeNext, StreamStep, pvars
<1>. QED  BY <1>2, <1>3, <1>14 DEF Next, pvars

LEMMA OnlyOne == \A n \in Nat : \A i \in 1 .. n : n <= 1 => n = 1
OBVIOUS

\* No flow but one that check let through has two streams.
LEMMA ApartKept ==
    ASSUME ViewOK(view), Typed, AllApart, [Next]_vars
    PROVE  AllApart'
<1>1. /\ flow \in [Flows -> FlowRec] /\ streams \in [Flows -> Seq(Stream)]
      /\ playback.queue \in Seq(Flows)
  BY DEF Typed, Playback
<1>2. \A f \in Flows : streams[f] \in Seq(Stream) /\ Len(streams[f]) \in Nat
                       /\ DOMAIN streams[f] = 1 .. Len(streams[f])
                       /\ (streams[f] = <<>> <=> Len(streams[f]) = 0)
  BY <1>1
<1>3. CASE UNCHANGED <<flow, streams, playback, excused>>
  BY <1>3, ApartStays DEF AllApart
<1>4. ASSUME NEW f \in Flows, NEW i \in DOMAIN streams[f],
             Begins(f, i) \/ Holds(f, i) \/ Responds(f, i) \/ Silent(f, i)
      PROVE  AllApart'
  <2> SUFFICES ASSUME NEW g \in Flows, Apart(g) PROVE Apart(g)'
    BY <1>4 DEF AllApart, Begins, Holds, Responds, Silent
  <2>1. PICK at \in {"scheduled", "running", "held", "resumed", "silent", "answered"} :
           Moves(f, i, at)
    BY <1>4 DEF Begins, Holds, Responds, Silent
  <2>2. playback' = playback /\ (flow[g].live => flow'[g].live)
    BY <1>1, <1>4 DEF Begins, Holds, Responds, Silent, Live, FlowRec
  <2>3. CASE g # f
    <3>1. streams'[g] = streams[g]
      BY <2>1, <2>3, MovesIs
    <3>. QED  BY <2>2, <3>1, ApartStays
  <2>4. CASE g = f
    <3>1. /\ Len(streams'[f]) = Len(streams[f]) /\ DOMAIN streams'[f] = DOMAIN streams[f]
          /\ \A j \in DOMAIN streams[f] : /\ streams'[f][j].by = streams[f][j].by
                                          /\ streams'[f][j].killed = streams[f][j].killed
      BY <2>1, MovesIs
    <3>2. DOMAIN streams[f] \subseteq {i}
      <4>1. Len(streams[f]) <= 1
        BY <2>4 DEF Apart
      <4>2. /\ Len(streams[f]) \in Nat /\ DOMAIN streams[f] = 1 .. Len(streams[f])
            /\ i \in 1 .. Len(streams[f])
        BY <1>2
      <4>3. Len(streams[f]) = 1
        BY <4>1, <4>2, OnlyOne
      <4>. QED  BY <4>2, <4>3
    <3>3. streams[f][i].at = "scheduled" => flow'[f].live
      BY <1>1, <1>4 DEF Begins, Live, Holds, Responds, Silent, FlowRec
    <3>. QED  BY <2>2, <2>4, <3>1, <3>2, <3>3 DEF Apart
  <2>. QED  BY <2>3, <2>4
<1>5. ASSUME NEW f \in Flows, NEW i \in DOMAIN streams[f], Ends(f, i) PROVE AllApart'
  <2> SUFFICES ASSUME NEW g \in Flows, Apart(g) PROVE Apart(g)'
    BY <1>5 DEF AllApart, Ends
  <2>1. /\ playback' = playback
        /\ g # f => streams'[g] = streams[g] /\ flow'[g] = flow[g]
        /\ Len(streams'[f]) = Len(streams[f]) - 1
        /\ streams' \in [Flows -> Seq(Stream)]
    BY <1>1, <1>5, EndsIs DEF Ends
  <2>2. CASE g # f
    BY <2>1, <2>2, ApartStays
  <2>3. CASE g = f
    <3>1. Len(streams'[f]) = 0
      <4>1. Len(streams[f]) <= 1
        BY <2>3 DEF Apart
      <4>2. /\ Len(streams[f]) \in Nat /\ i \in 1 .. Len(streams[f])
            /\ Len(streams'[f]) = Len(streams[f]) - 1
        BY <1>2, <2>1
      <4>3. Len(streams[f]) = 1
        BY <4>1, <4>2, OnlyOne
      <4>. QED  BY <4>2, <4>3
    <3>2. streams'[f] = <<>> /\ DOMAIN streams'[f] = {}
      BY <2>1, <3>1
    <3>. QED  BY <2>3, <3>1, <3>2 DEF Apart
  <2>. QED  BY <2>2, <2>3
<1>6. ASSUME NEW f \in Flows, UserKill(f) \/ UserRemove(f) PROVE AllApart'
  <2> SUFFICES ASSUME NEW g \in Flows, Apart(g) PROVE Apart(g)'
    BY <1>6 DEF AllApart, UserKill, UserRemove
  <2>1. playback' = playback /\ (Killed(f) \/ UNCHANGED <<flow, streams>>)
    BY <1>6 DEF UserKill, UserRemove
  <2>2. CASE UNCHANGED <<flow, streams>>
    BY <2>1, <2>2, ApartStays
  <2>3. CASE Killed(f) /\ g # f
    <3>1. flow'[g] = flow[g] /\ streams'[g] = streams[g]
      BY <2>3, KilledIs
    <3>. QED  BY <2>1, <3>1, ApartStays
  <2>4. CASE Killed(f) /\ g = f
    <3>1. /\ Len(streams'[f]) = Len(streams[f]) /\ DOMAIN streams'[f] = DOMAIN streams[f]
          /\ \A i \in DOMAIN streams[f] :
                streams'[f][i].killed = TRUE /\ streams'[f][i].by = streams[f][i].by
      BY <2>4, KilledIs
    <3>. QED  BY <2>1, <2>4, <3>1 DEF Apart
  <2>. QED  BY <2>1, <2>2, <2>3, <2>4
<1>7. ASSUME NEW f \in Flows, UserResume(f) PROVE AllApart'
  <2> SUFFICES ASSUME NEW g \in Flows, Apart(g) PROVE Apart(g)'
    BY <1>7 DEF AllApart, UserResume
  <2> DEFINE s == streams[f]
             t == [i \in DOMAIN s |-> IF s[i].at = "held"
                                      THEN [s[i] EXCEPT !.at = "resumed"] ELSE s[i]]
  <2>1. streams' = [streams EXCEPT ![f] = t] /\ playback' = playback
    BY <1>7 DEF UserResume
  <2>2. flow'[g].live = flow[g].live
    BY <1>1, <1>7 DEF UserResume, FlowRec
  <2>3. CASE g # f
    BY <1>1, <2>1, <2>2, <2>3, ApartStays
  <2>4. CASE g = f
    <3>1. s \in Seq(Stream) /\ Len(s) \in Nat /\ DOMAIN s = 1 .. Len(s)
      BY <1>2
    <3>2. ASSUME NEW i \in DOMAIN s
          PROVE  /\ t[i].by = s[i].by /\ t[i].killed = s[i].killed
                 /\ s[i].at = "scheduled" => t[i].at = "scheduled"
      <4>1. s[i] \in Stream /\ "held" # "scheduled"
        BY <3>1
      <4>2. CASE s[i].at = "held"
        <5>1. t[i] = [s[i] EXCEPT !.at = "resumed"]
          BY <4>2
        <5>. QED  BY <4>1, <4>2, <5>1 DEF Stream
      <4>3. CASE s[i].at # "held"
        BY <4>3
      <4>. QED  BY <4>2, <4>3
    <3>3. DOMAIN t = DOMAIN s /\ Len(t) = Len(s)
      BY <3>1
    <3> HIDE DEF t
    <3>5. streams'[f] = t
      BY <1>1, <2>1
    <3>. QED  BY <2>1, <2>2, <2>4, <3>2, <3>3, <3>5 DEF Apart
  <2>. QED  BY <2>3, <2>4
<1>8. ASSUME NEW f \in Flows, UserEdit(f) \/ UserRevert(f) PROVE AllApart'
  <2> SUFFICES ASSUME NEW g \in Flows, Apart(g) PROVE Apart(g)'
    BY <1>8 DEF AllApart, UserEdit, UserRevert
  <2>1. streams' = streams /\ playback'.queue = playback.queue
    BY <1>8 DEF Typed, Playback, UserEdit, UserRevert
  <2>2. flow'[g].live = flow[g].live
    <3>1. CASE UserEdit(f)
      BY <1>1, <3>1, BackedUpIs DEF UserEdit
    <3>2. CASE UserRevert(f)
      BY <1>1, <3>2, RevertedIs DEF UserRevert
    <3>. QED  BY <1>8, <3>1, <3>2
  <2>. QED  BY <2>1, <2>2, ApartStays
<1>9. ASSUME NEW f \in Flows, StartReplay(f) PROVE AllApart'
  <2>1. /\ streams' = streams /\ excused \subseteq excused' /\ Check(f)
        /\ f \notin excused' => ~Unseen(f)
    BY <1>9 DEF StartReplay
  <2> SUFFICES ASSUME NEW g \in Flows, Apart(g), g \notin excused' PROVE Apart(g)'
    BY <2>1 DEF AllApart
  <2>2. /\ \A h \in Flows : h # f => flow'[h] = flow[h]
        /\ playback'.queue = Append(playback.queue, f)
    BY <1>9, StartedIs
  <2>3. Elems(playback'.queue) = Elems(playback.queue) \cup {f}
    BY <1>1, <2>2, QueueAppend
  <2>4. CASE g # f
    BY <2>1, <2>2, <2>3, <2>4, ApartStays
  <2>5. CASE g = f
    <3>1. ~flow[f].live /\ ~Unseen(f)
      BY <2>1, <2>5 DEF Check
    <3>2. DOMAIN streams[f] = {}
      BY <2>5, <3>1 DEF Apart, Unseen
    <3>. QED  BY <2>1, <2>5, <3>2 DEF Apart
  <2>. QED  BY <2>4, <2>5
<1>10. ASSUME StopReplay PROVE AllApart'
  <2> SUFFICES ASSUME NEW g \in Flows, Apart(g) PROVE Apart(g)'
    BY <1>10 DEF AllApart, StopReplay
  <2>1. streams' = streams /\ playback'.queue = <<>>
    BY <1>10 DEF Typed, Playback, StopReplay
  <2>2. g \notin Elems(playback'.queue)
    BY <2>1 DEF Elems
  <2>3. flow'[g].live = flow[g].live
    <3>1. flow'[g] = flow[g] \/ (flow[g].backup # None /\ flow'[g] = Reverted(g))
      BY <1>10 DEF StopReplay
    <3>. QED  BY <3>1, RevertedIs
  <2>. QED  BY <2>1, <2>2, <2>3, ApartStays
<1>11. ASSUME NEW f \in Flows, NEW by \in {"playback", "task"}, NEW at \in {"running", "scheduled"},
              Replay(f, by, at), excused \subseteq excused',
              at = "scheduled" \/ flow'[f].live,
              by = "playback" \/ f \in excused' \/ f \notin Elems(playback'.queue),
              \A g \in Flows : g # f => flow'[g] = flow[g]
       PROVE  AllApart'
  <2> SUFFICES ASSUME NEW g \in Flows, Apart(g), g \notin excused' PROVE Apart(g)'
    BY <1>11 DEF AllApart
  <2> DEFINE e == NewStream(by, at)
  <2>2. /\ playback.queue # <<>> /\ f = Head(playback.queue)
        /\ playback'.queue = Tail(playback.queue)
        /\ streams' = [streams EXCEPT ![f] = Append(streams[f], e)]
        /\ Awaited(f) = {}
    BY <1>1, <1>11 DEF Replay, Playback, Typed
  <2>3. e.by = by /\ e.at = at
    BY DEF NewStream
  <2> HIDE DEF e
  <2>4. /\ Elems(playback'.queue) \subseteq Elems(playback.queue)
        /\ f \in Elems(playback.queue)
    BY <1>1, <2>2, QueueTail
  <2>5. CASE g # f
    <3>1. streams'[g] = streams[g] /\ flow'[g] = flow[g]
      BY <1>1, <1>11, <2>2, <2>5
    <3>. QED  BY <2>4, <3>1, ApartStays
  <2>6. CASE g = f
    <3>1. streams[f] = <<>>
      <4>1. \A i \in DOMAIN streams[f] : streams[f][i].by # "playback"
        BY <2>2 DEF Awaited
      <4>2. DOMAIN streams[f] = {}
        BY <2>4, <2>6, <4>1 DEF Apart
      <4>3. 1 \notin DOMAIN streams[f]
        BY <4>2
      <4>. QED  BY <1>2, <4>3
    <3>2. streams'[f] = <<e>>
      BY <1>1, <2>2, <3>1
    <3>3. Len(streams'[f]) = 1 /\ DOMAIN streams'[f] = {1} /\ streams'[f][1] = e
      BY <3>2
    <3>. QED  BY <1>11, <2>3, <2>6, <3>3 DEF Apart
  <2>. QED  BY <2>5, <2>6
<1>12. ASSUME NEW f \in Flows, ReplayAwaited(f) PROVE AllApart'
  <2>1. Replay(f, "playback", "running") /\ excused' = excused
    BY <1>12 DEF ReplayAwaited
  <2>2. flow'[f].live /\ \A g \in Flows : g # f => flow'[g] = flow[g]
    BY <1>1, <1>12 DEF ReplayAwaited, Live, FlowRec
  <2>. QED  BY <2>1, <2>2, <1>11
<1>13. ASSUME NEW f \in Flows, ReplayScheduled(f) PROVE AllApart'
  <2>1. /\ Replay(f, "task", "scheduled") /\ flow' = flow /\ excused \subseteq excused'
        /\ f \in excused' \/ f \notin Elems(playback'.queue)
    BY <1>13 DEF ReplayScheduled
  <2>. QED  BY <2>1, <1>11
<1>14. CASE Replaying
  BY <1>3, <1>4, <1>5, <1>6, <1>7, <1>8, <1>9, <1>10, <1>12, <1>13, <1>14
     DEF Replaying, TakeNext, StreamStep, pvars
<1>. QED  BY <1>3, <1>14 DEF Next, vars, pvars

------------------------------------------------------------------------------
(* Theorems. *)

IInv == ViewOK(view) /\ Typed /\ AllApart

LEMMA InvInit == Init => IInv
<1> SUFFICES ASSUME Init PROVE IInv
  OBVIOUS
<1>1. ViewOK(view) /\ Typed
  BY InitOK
<1>3. /\ playback = NoReplay
      /\ \A f \in Flows : \/ streams[f] = <<>>
                          \/ streams[f] = <<NewStream("traffic", "running")>> /\ flow[f].live
  <2>1. CASE arranging
    <3>1. InitArranging
      BY <2>1 DEF Init
    <3>2. \A f \in Flows : streams[f] = <<>>
      BY <3>1 DEF InitArranging
    <3>3. playback = NoReplay
      BY <3>1 DEF InitArranging
    <3>. QED  BY <3>2, <3>3
  <2>2. CASE ~arranging
    <3>1. PICK alive \in SUBSET Traffic, s \in SetToSeqs(Flows) :
           LET size == [f \in Flows |-> IF f \in alive THEN 0 ELSE 1] IN
           /\ view = FoldLeft(Added, NewView(size, FALSE), s)
           /\ flow = [f \in Flows |-> NewFlow(f \in alive)]
           /\ streams = [f \in Flows |-> IF f \in alive THEN <<NewStream("traffic", "running")>>
                                         ELSE <<>>]
           /\ playback = NoReplay
      BY <2>2 DEF Init, InitReplaying
    <3>2. \A b : NewFlow(b).live = b
      BY DEF NewFlow
    <3>3. \A f \in Flows : flow[f].live = (f \in alive)
      BY <3>1, <3>2
    <3>4. \A f \in Flows : IF f \in alive THEN streams[f] = <<NewStream("traffic", "running")>>
                           ELSE streams[f] = <<>>
      BY <3>1
    <3>5. playback = NoReplay
      BY <3>1
    <3>. QED  BY <3>3, <3>4, <3>5
  <2>. QED  BY <2>1, <2>2
<1>2. ASSUME NEW f \in Flows PROVE Apart(f)
  <2>1. playback.queue = <<>>
    BY <1>3 DEF NoReplay
  <2>2. Elems(playback.queue) = {}
    BY <2>1 DEF Elems
  <2>3. \/ streams[f] = <<>>
        \/ streams[f] = <<NewStream("traffic", "running")>> /\ flow[f].live
    BY <1>3
  <2>4. CASE streams[f] = <<>>
    <3>1. DOMAIN streams[f] = {} /\ Len(streams[f]) = 0
      BY <2>4
    <3>. QED  BY <2>2, <2>4, <3>1 DEF Apart
  <2>5. CASE streams[f] = <<NewStream("traffic", "running")>> /\ flow[f].live
    <3>1. Len(streams[f]) = 1
      BY <2>5
    <3>. QED  BY <2>2, <2>5, <3>1 DEF Apart
  <2>. QED  BY <2>3, <2>4, <2>5
<1>. QED  BY <1>1, <1>2 DEF IInv, AllApart

LEMMA InvNext == IInv /\ [Next]_vars => IInv'
<1> SUFFICES ASSUME IInv, [Next]_vars PROVE IInv'
  OBVIOUS
<1>1. ViewOK(view') /\ Typed' /\ AllApart'
  BY ViewKept, TypedKept, ApartKept DEF IInv
<1>2. ViewOK(view)' <=> ViewOK(view')
  BY DEF ViewOK, Listed, ListOK, FocusOK, SettingsOK, Stored, Shown
<1>. QED  BY <1>1, <1>2 DEF IInv

LEMMA Invariant == Spec => []IInv
BY InvInit, InvNext, PTL DEF Spec

\* The view, the flows, the streams and the queue hold what their types say.
THEOREM PlaybackTypeCorrect == Spec => []PlaybackTypeOK
<1>1. IInv => PlaybackTypeOK
  BY ViewOKAgrees DEF IInv, Typed, PlaybackTypeOK
<1>. QED  BY <1>1, Invariant, PTL

\* view.py: whatever is added, updated, removed, filtered, sorted, cleared or replayed
\* in whatever order, and whatever changed without the view hearing of it, every flow in
\* the list is found under its key, there is a focus exactly if something is shown, and
\* the settings of a flow that is gone are gone.
THEOREM ViewAgreesHolds == Spec => []ViewAgrees
<1>1. IInv => ViewAgrees
  BY ViewOKAgrees DEF IInv
<1>. QED  BY <1>1, Invariant, PTL

\* clientplayback.py: no flow is worked on by two streams at a time, however the
\* concurrency is changed and flows are killed, edited and reverted meanwhile, and for any
\* number of flows and replays, unless the flow was queued while a stream went on that was
\* killed or a replay of it had not begun, or it was queued twice when it was taken
\* without a limit.
THEOREM InFlightOnceHolds == Spec => []InFlightOnce
<1>1. IInv => InFlightOnce
  BY DEF IInv, AllApart, Apart, InFlightOnce
<1>. QED  BY <1>1, Invariant, PTL

==============================================================================
