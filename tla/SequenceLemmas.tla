---------------------------- MODULE SequenceLemmas ----------------------------
(***************************************************************************)
(* Facts about sequences that the proofs about queues of events rest on,    *)
(* the induction that the proofs about folds and about what a queue holds   *)
(* rest on, and FlattenSeq at the two ends of a queue.                      *)
(***************************************************************************)
EXTENDS Sequences, Integers, SequencesExt, SequenceTheorems, FiniteSetTheorems, TLAPS

\* Moving the head of one sequence to the end of another keeps their
\* concatenation: what the replay of a queued event does to the queue and to
\* the events that were handled.
LEMMA MoveHead ==
    ASSUME NEW S, NEW s \in Seq(S), NEW t \in Seq(S), t # <<>>
    PROVE  Append(s, Head(t)) \o Tail(t) = s \o t
<1>1. /\ Head(t) \in S /\ Tail(t) \in Seq(S) /\ Len(t) \in Nat \ {0}
      /\ Len(Tail(t)) = Len(t) - 1
      /\ \A i \in 1 .. Len(t) - 1 : Tail(t)[i] = t[i + 1]
      /\ Head(t) = t[1]
  OBVIOUS
<1> DEFINE u == Append(s, Head(t)) \o Tail(t)
           v == s \o t
<1>2. /\ u \in Seq(S) /\ v \in Seq(S)
      /\ Len(u) = Len(s) + Len(t) /\ Len(v) = Len(s) + Len(t)
  BY <1>1
<1>3. ASSUME NEW i \in 1 .. Len(u) PROVE u[i] = v[i]
  BY <1>1, <1>2
<1>. QED  BY <1>2, <1>3, SeqEqual

\* Appending to the second of two sequences appends to their concatenation:
\* what queueing an event does.
LEMMA ConcatAppend ==
    ASSUME NEW S, NEW s \in Seq(S), NEW t \in Seq(S), NEW e \in S
    PROVE  s \o Append(t, e) = Append(s \o t, e)
<1>1. /\ s \o Append(t, e) \in Seq(S) /\ Append(s \o t, e) \in Seq(S)
      /\ Len(s \o Append(t, e)) = Len(Append(s \o t, e))
  OBVIOUS
<1>2. ASSUME NEW i \in 1 .. Len(s \o Append(t, e))
      PROVE  (s \o Append(t, e))[i] = Append(s \o t, e)[i]
  OBVIOUS
<1>. QED  BY <1>1, <1>2, SeqEqual

\* The part of a sequence behind its first n elements, when one is appended,
LEMMA RestAppend ==
    ASSUME NEW S, NEW s \in Seq(S), NEW n \in 0 .. Len(s), NEW e \in S
    PROVE  /\ SubSeq(s, n + 1, Len(s)) \in Seq(S)
           /\ SubSeq(Append(s, e), n + 1, Len(Append(s, e)))
                 = Append(SubSeq(s, n + 1, Len(s)), e)
<1> DEFINE r == SubSeq(s, n + 1, Len(s))
           u == SubSeq(Append(s, e), n + 1, Len(Append(s, e)))
           v == Append(r, e)
<1>1. /\ Len(s) \in Nat /\ Append(s, e) \in Seq(S) /\ Len(Append(s, e)) = Len(s) + 1
      /\ \A i \in 1 .. Len(s) : Append(s, e)[i] = s[i] /\ s[i] \in S
      /\ Append(s, e)[Len(s) + 1] = e
  OBVIOUS
<1>2. /\ r \in Seq(S) /\ Len(r) = Len(s) - n
      /\ \A i \in 1 .. Len(s) - n : r[i] = s[n + i]
  BY <1>1
<1>3. /\ u \in Seq(S) /\ Len(u) = Len(s) + 1 - n
      /\ \A i \in 1 .. Len(s) + 1 - n : u[i] = Append(s, e)[n + i]
  BY <1>1
<1> HIDE DEF r, u
<1>4. /\ v \in Seq(S) /\ Len(v) = Len(s) + 1 - n
      /\ \A i \in 1 .. Len(s) - n : v[i] = r[i]
      /\ v[Len(s) + 1 - n] = e
  BY <1>2
<1> HIDE DEF v
<1>5. ASSUME NEW i \in 1 .. Len(u) PROVE u[i] = v[i]
  <2>1. CASE i \in 1 .. Len(s) - n
    <3>1. n + i \in 1 .. Len(s) /\ i \in 1 .. Len(s) + 1 - n
      BY <2>1, <1>1
    <3>2. u[i] = Append(s, e)[n + i] /\ v[i] = s[n + i]
      BY <2>1, <3>1, <1>2, <1>3, <1>4
    <3>. QED  BY <3>1, <3>2, <1>1
  <2>2. CASE i = Len(s) + 1 - n
    <3>1. n + i = Len(s) + 1 /\ i \in 1 .. Len(s) + 1 - n
      BY <2>2, <1>1
    <3>2. u[i] = Append(s, e)[Len(s) + 1]
      BY <3>1, <1>3
    <3>. QED  BY <2>2, <3>2, <1>1, <1>4
  <2>. QED  BY <2>1, <2>2, <1>1, <1>3
<1>6. u = v
  BY <1>3, <1>4, <1>5, SeqEqual
<1>. QED  BY <1>2, <1>6 DEF r, u, v

\* and when its first element moves to the end of another sequence.
LEMMA RestMoves ==
    ASSUME NEW S, NEW a \in Seq(S), NEW s \in Seq(S), NEW n \in 0 .. Len(s), n < Len(s)
    PROVE  Append(a, s[n + 1]) \o SubSeq(s, n + 2, Len(s))
             = a \o SubSeq(s, n + 1, Len(s))
<1> DEFINE q == SubSeq(s, n + 2, Len(s))
           r == SubSeq(s, n + 1, Len(s))
<1>1. Len(s) \in Nat /\ n \in Nat /\ s[n + 1] \in S
  OBVIOUS
<1>2. /\ r \in Seq(S) /\ Len(r) = Len(s) - n
      /\ \A i \in 1 .. Len(s) - n : r[i] = s[n + i]
  BY <1>1
<1>3. /\ q \in Seq(S) /\ Len(q) = Len(s) - n - 1
      /\ \A i \in 1 .. Len(s) - n - 1 : q[i] = s[n + 1 + i]
  BY <1>1
<1> HIDE DEF q, r
<1>4. /\ r # <<>> /\ Head(r) = s[n + 1]
      /\ Tail(r) \in Seq(S) /\ Len(Tail(r)) = Len(r) - 1
      /\ \A i \in 1 .. Len(r) - 1 : Tail(r)[i] = r[i + 1]
  BY <1>1, <1>2
<1>5. ASSUME NEW i \in 1 .. Len(q) PROVE Tail(r)[i] = q[i]
  <2>1. i \in 1 .. Len(s) - n - 1 /\ i \in 1 .. Len(r) - 1 /\ i + 1 \in 1 .. Len(s) - n
    BY <1>1, <1>2, <1>3
  <2>2. Tail(r)[i] = r[i + 1] /\ r[i + 1] = s[n + (i + 1)] /\ q[i] = s[n + 1 + i]
    BY <2>1, <1>2, <1>3, <1>4
  <2>. QED  BY <2>1, <2>2, <1>1
<1>6. Len(Tail(r)) = Len(q)
  BY <1>1, <1>2, <1>3, <1>4
<1>7. Tail(r) = q
  BY <1>3, <1>4, <1>5, <1>6, SeqEqual
<1>8. Append(a, Head(r)) \o Tail(r) = a \o r
  BY <1>2, <1>4, MoveHead
<1>. QED  BY <1>4, <1>7, <1>8 DEF q, r

LEMMA Associative ==
    ASSUME NEW S, NEW a \in Seq(S), NEW b \in Seq(S), NEW c \in Seq(S)
    PROVE  (a \o b) \o c = a \o (b \o c)
BY ConcatAssociative

\* What is taken from the front of a queue joins what came before it.
LEMMA Joined ==
    ASSUME NEW S, NEW a \in Seq(S), NEW b \in Seq(S), NEW c \in Seq(S)
    PROVE  /\ a \o b \in Seq(S) /\ a \o <<>> = a /\ (a \o b) \o <<>> = a \o b
           /\ (a \o <<>>) \o (b \o c) = (a \o b) \o c
           /\ (a \o b) \o c = a \o (b \o c)
<1>1. a \o b \in Seq(S)
  OBVIOUS
<1>2. a \o <<>> = a /\ (a \o b) \o <<>> = a \o b
  BY <1>1, ConcatEmptySeq
<1>3. (a \o b) \o c = a \o (b \o c)
  BY Associative
<1>. QED  BY <1>1, <1>2, <1>3, Zenon

------------------------------------------------------------------------------

Entries(s) == {s[i] : i \in DOMAIN s}
Distinct(s) == \A i, j \in DOMAIN s : s[i] = s[j] => i = j

\* A new element in the middle of a sequence of distinct ones: what handling an event does
\* to those that were handled and those that an exception left in the queue.
LEMMA InsertNew ==
    ASSUME NEW S, NEW s \in Seq(S), NEW t \in Seq(S), NEW e \in S,
           Distinct(s \o t), e \notin Entries(s \o t)
    PROVE  /\ Distinct(Append(s, e) \o t)
           /\ Entries(Append(s, e) \o t) = Entries(s \o t) \cup {e}
<1> DEFINE u == s \o t
           v == Append(s, e) \o t
           old(i) == IF i <= Len(s) THEN i ELSE i - 1
           new(i) == IF i <= Len(s) THEN i ELSE i + 1
<1>1. /\ u \in Seq(S) /\ Len(u) = Len(s) + Len(t) /\ DOMAIN u = 1 .. Len(u)
      /\ v \in Seq(S) /\ Len(v) = Len(s) + Len(t) + 1 /\ DOMAIN v = 1 .. Len(v)
      /\ Len(s) \in Nat /\ Len(t) \in Nat
  OBVIOUS
<1>2. v[Len(s) + 1] = e
  OBVIOUS
<1>3. ASSUME NEW i \in DOMAIN v, i # Len(s) + 1
      PROVE  old(i) \in DOMAIN u /\ v[i] = u[old(i)]
  BY <1>1, <1>3
<1>4. ASSUME NEW i \in DOMAIN u
      PROVE  new(i) \in DOMAIN v /\ new(i) # Len(s) + 1 /\ old(new(i)) = i
  BY <1>1
<1> HIDE DEF u, v
<1>5. \A i \in DOMAIN u : u[i] # e
  BY DEF Entries, u
<1>6. ASSUME NEW i \in DOMAIN v, NEW j \in DOMAIN v, v[i] = v[j]
      PROVE  i = j
  <2>1. CASE i = Len(s) + 1 \/ j = Len(s) + 1
    BY <2>1, <1>2, <1>3, <1>5, <1>6
  <2>2. CASE i # Len(s) + 1 /\ j # Len(s) + 1
    <3>1. old(i) = old(j)
      BY <2>2, <1>3, <1>6 DEF Distinct, u
    <3>. QED  BY <3>1, <2>2, <1>1
  <2>. QED  BY <2>1, <2>2
<1>7. Entries(v) = Entries(u) \cup {e}
  <2>1. Entries(v) \subseteq Entries(u) \cup {e}
    BY <1>2, <1>3 DEF Entries
  <2>2. e \in Entries(v)
    BY <1>1, <1>2 DEF Entries
  <2>3. ASSUME NEW i \in DOMAIN u PROVE u[i] \in Entries(v)
    BY <1>3, <1>4 DEF Entries
  <2>. QED  BY <2>1, <2>2, <2>3 DEF Entries
<1>. QED  BY <1>6, <1>7 DEF Distinct, u, v

\* The same at the end of a sequence.
LEMMA AppendNew ==
    ASSUME NEW S, NEW s \in Seq(S), NEW e \in S
    PROVE  /\ Entries(Append(s, e)) = Entries(s) \cup {e}
           /\ Distinct(s) /\ e \notin Entries(s) => Distinct(Append(s, e))
<1>1. /\ Append(s, e) \in Seq(S) /\ Len(Append(s, e)) = Len(s) + 1 /\ Len(s) \in Nat
      /\ DOMAIN s = 1 .. Len(s) /\ DOMAIN Append(s, e) = 1 .. Len(s) + 1
      /\ \A i \in 1 .. Len(s) : Append(s, e)[i] = s[i]
      /\ Append(s, e)[Len(s) + 1] = e
  OBVIOUS
<1>2. Entries(Append(s, e)) = Entries(s) \cup {e}
  <2>1. Entries(Append(s, e)) \subseteq Entries(s) \cup {e}
    BY <1>1 DEF Entries
  <2>2. Entries(s) \cup {e} \subseteq Entries(Append(s, e))
    BY <1>1 DEF Entries
  <2>. QED  BY <2>1, <2>2
<1>3. ASSUME Distinct(s), e \notin Entries(s) PROVE Distinct(Append(s, e))
  BY <1>1, <1>3 DEF Distinct, Entries
<1>. QED  BY <1>2, <1>3

\* The entries of a concatenation.
LEMMA EntriesConcat ==
    ASSUME NEW S, NEW s \in Seq(S), NEW t \in Seq(S)
    PROVE  Entries(s \o t) = Entries(s) \cup Entries(t)
<1> DEFINE u == s \o t
<1>1. /\ Len(s) \in Nat /\ Len(t) \in Nat /\ DOMAIN s = 1 .. Len(s) /\ DOMAIN t = 1 .. Len(t)
      /\ DOMAIN u = 1 .. Len(s) + Len(t)
      /\ \A i \in 1 .. Len(s) : u[i] = s[i]
      /\ \A i \in 1 .. Len(t) : u[Len(s) + i] = t[i]
  OBVIOUS
<1> HIDE DEF u
<1>2. ASSUME NEW i \in DOMAIN u PROVE u[i] \in Entries(s) \cup Entries(t)
  <2>1. CASE i \in 1 .. Len(s)
    BY <1>1, <2>1 DEF Entries
  <2>2. CASE i \notin 1 .. Len(s)
    <3>1. i - Len(s) \in 1 .. Len(t) /\ Len(s) + (i - Len(s)) = i
      BY <1>1, <2>2
    <3>2. u[i] = t[i - Len(s)]
      BY <1>1, <3>1
    <3>. QED  BY <1>1, <3>1, <3>2 DEF Entries
  <2>. QED  BY <2>1, <2>2
<1>3. ASSUME NEW i \in DOMAIN s PROVE s[i] \in Entries(u)
  BY <1>1 DEF Entries
<1>4. ASSUME NEW i \in DOMAIN t PROVE t[i] \in Entries(u)
  <2>1. Len(s) + i \in DOMAIN u
    BY <1>1
  <2>. QED  BY <1>1, <2>1 DEF Entries
<1>. QED  BY <1>2, <1>3, <1>4 DEF Entries, u

LEMMA EntriesSmall == Entries(<<>>) = {} /\ \A e : Entries(<<e>>) = {e}
BY DEF Entries

------------------------------------------------------------------------------
(* Induction over the natural numbers, for the members of a set.  The induction theorems  *)
(* of the library take a predicate; this one rests on the subsets of a finite set being   *)
(* well-ordered.                                                                          *)

LEMMA LeastNatural ==
    ASSUME NEW T \in SUBSET Nat, T # {}
    PROVE  \E m \in T : \A k \in T : m <= k
<1> DEFINE U == {1 .. k : k \in T}
<1>1. \A k \in Nat : 1 .. k \in FiniteSubsetsOf(Nat)
  BY FS_Interval DEF FiniteSubsetsOf
<1>2. U \subseteq FiniteSubsetsOf(Nat) /\ U # {}
  BY <1>1
<1> HIDE DEF U
<1>3. PICK x \in U : \A y \in U : ~(<<y, x>> \in StrictSubsetOrdering(Nat))
  BY <1>2, FS_StrictSubsetOrderingWellFounded, WFMin
<1>4. PICK m \in T : x = 1 .. m
  BY DEF U
<1>5. ASSUME NEW k \in T, k < m PROVE FALSE
  <2>1. 1 .. k \in U
    BY DEF U
  <2>2. <<1 .. k, 1 .. m>> \in StrictSubsetOrdering(Nat)
    <3>1. 1 .. k \subseteq 1 .. m /\ m \in 1 .. m /\ m \notin 1 .. k
      BY <1>5
    <3>2. 1 .. k \in SUBSET Nat /\ 1 .. m \in SUBSET Nat
      OBVIOUS
    <3>. QED  BY <3>1, <3>2 DEF StrictSubsetOrdering
  <2>. QED  BY <1>3, <1>4, <2>1, <2>2
<1>. QED  BY <1>5

LEMMA InductionUpTo ==
    ASSUME NEW n \in Nat, NEW T, 0 \in T, \A i \in 0 .. n : i < n /\ i \in T => i + 1 \in T
    PROVE  \A i \in 0 .. n : i \in T
<1> SUFFICES ASSUME NEW j \in 0 .. n, j \notin T PROVE FALSE
  OBVIOUS
<1> DEFINE U == (0 .. n) \ T
<1>0. U \in SUBSET Nat /\ U # {}
  OBVIOUS
<1>1. PICK m \in U : \A k \in U : m <= k
  <2> HIDE DEF U
  <2>. QED  BY <1>0, LeastNatural
<1>2. m # 0 /\ m - 1 \in 0 .. n /\ m - 1 < n /\ (m - 1) + 1 = m
  OBVIOUS
<1>3. m - 1 \in T
  BY <1>1, <1>2
<1>. QED  BY <1>2, <1>3

\* A fold is defined by recursion over the subsets of the positions, from the greatest
\* position down.  Such a function exists.
Greatest(s) == CHOOSE x \in s : \A y \in s : x >= y
IsFold(iter, n, base, F) ==
    \A s \in SUBSET (1 .. n) :
        iter[s] = IF s = {} THEN base ELSE F[Greatest(s)][iter[s \ {Greatest(s)}]]

LEMMA GreatestIs ==
    ASSUME NEW n \in Nat, NEW s \in SUBSET (1 .. n), NEW m \in s, \A k \in s : m >= k
    PROVE  Greatest(s) = m
<1> DEFINE g == Greatest(s)
<1>1. g \in s /\ \A k \in s : g >= k
  BY DEF Greatest
<1> HIDE DEF g
<1>2. m \in 1 .. n /\ g \in 1 .. n
  BY <1>1
<1>3. m >= g /\ g >= m
  BY <1>1
<1>4. m = g
  BY <1>2, <1>3
<1>. QED  BY <1>4 DEF g

LEMMA GreatestIn ==
    ASSUME NEW n \in Nat, NEW s \in SUBSET (1 .. n), s # {}
    PROVE  Greatest(s) \in s
<1> DEFINE T == {n - k : k \in s}
<1>1. T \in SUBSET Nat /\ T # {}
  <2>1. \A k \in s : n - k \in Nat
    OBVIOUS
  <2>. QED  BY <2>1
<1>2. PICK d \in T : \A e \in T : d <= e
  BY <1>1, LeastNatural
<1>3. PICK m \in s : d = n - m
  OBVIOUS
<1>4. ASSUME NEW k \in s PROVE m >= k
  <2>1. n - m <= n - k /\ m \in 1 .. n /\ k \in 1 .. n
    BY <1>2, <1>3
  <2>. QED  BY <2>1
<1>5. Greatest(s) = m
  BY <1>4, GreatestIs
<1>. QED  BY <1>5

LEMMA FoldExists ==
    ASSUME NEW n \in Nat, NEW S, NEW base \in S, NEW F \in [1 .. n -> [S -> S]]
    PROVE  \E iter \in [SUBSET (1 .. n) -> S] : IsFold(iter, n, base, F)
<1> DEFINE T == {m \in 0 .. n : \E iter \in [SUBSET (1 .. m) -> S] : IsFold(iter, m, base, F)}
<1>1. 0 \in T
  <2> DEFINE it == [s \in SUBSET (1 .. 0) |-> base]
  <2>1. it \in [SUBSET (1 .. 0) -> S] /\ IsFold(it, 0, base, F)
    BY DEF IsFold
  <2>. QED  BY <2>1
<1>2. ASSUME NEW m \in 0 .. n, m < n, m \in T PROVE m + 1 \in T
  <2>1. PICK it \in [SUBSET (1 .. m) -> S] : IsFold(it, m, base, F)
    BY <1>2
  <2> DEFINE new == [s \in SUBSET (1 .. m + 1) |->
                       IF m + 1 \in s THEN F[m + 1][it[s \ {m + 1}]] ELSE it[s]]
  <2>2. m + 1 \in 1 .. n
    BY <1>2
  <2>3. \A s \in SUBSET (1 .. m + 1) :
           s \ {m + 1} \in SUBSET (1 .. m) /\ (m + 1 \notin s => s \in SUBSET (1 .. m))
    OBVIOUS
  <2>4. new \in [SUBSET (1 .. m + 1) -> S]
    BY <2>2, <2>3
  <2>5. ASSUME NEW s \in SUBSET (1 .. m + 1), s # {}
        PROVE  new[s] = F[Greatest(s)][new[s \ {Greatest(s)}]]
    <3>1. CASE m + 1 \in s
      <4>1. Greatest(s) = m + 1
        <5>1. m + 1 \in Nat /\ \A k \in s : m + 1 >= k
          OBVIOUS
        <5>. QED  BY <3>1, <5>1, GreatestIs
      <4>. QED  BY <3>1, <4>1, <2>3
    <3>2. CASE m + 1 \notin s
      <4>1. s \in SUBSET (1 .. m) /\ Greatest(s) \in s
        <5>1. m \in Nat /\ s \in SUBSET (1 .. m)
          BY <3>2, <2>3
        <5>. QED  BY <5>1, <2>5, GreatestIn
      <4>2. s \ {Greatest(s)} \in SUBSET (1 .. m)
        BY <4>1
      <4>3. it[s] = F[Greatest(s)][it[s \ {Greatest(s)}]]
        BY <2>1, <2>5, <4>1 DEF IsFold
      <4>. QED  BY <3>2, <4>1, <4>2, <4>3
    <3>. QED  BY <3>1, <3>2
  <2>6. new[{}] = base
    BY <2>1 DEF IsFold
  <2> HIDE DEF new
  <2>7. IsFold(new, m + 1, base, F)
    BY <2>5, <2>6 DEF IsFold
  <2>8. m + 1 \in 0 .. n
    BY <1>2
  <2>. QED  BY <2>4, <2>7, <2>8
<1>3. n \in T
  <2> HIDE DEF T
  <2>1. \A i \in 0 .. n : i < n /\ i \in T => i + 1 \in T
    BY <1>2
  <2>2. \A i \in 0 .. n : i \in T
    BY <1>1, <2>1, InductionUpTo
  <2>. QED  BY <2>2
<1>. QED  BY <1>3

\* What it does from each position to the next.
LEMMA FoldSteps ==
    ASSUME NEW n \in Nat
    PROVE  /\ 1 .. 0 = {}
           /\ \A i \in 1 .. n : /\ 1 .. i \in SUBSET (1 .. n) /\ 1 .. i # {}
                                /\ Greatest(1 .. i) = i
                                /\ (1 .. i) \ {i} = 1 .. (i - 1)
<1>1. ASSUME NEW i \in 1 .. n PROVE Greatest(1 .. i) = i
  <2>1. i \in 1 .. i /\ \A k \in 1 .. i : i >= k
    OBVIOUS
  <2>2. i \in Nat /\ 1 .. i \in SUBSET (1 .. i)
    OBVIOUS
  <2>. QED  BY <2>1, <2>2, GreatestIs
<1>. QED  BY <1>1

------------------------------------------------------------------------------
(* FlattenSeq, which the community modules define by recursion, at the two ends of a      *)
(* sequence of sequences: what a queue holds.                                             *)

\* What FlattenSeq has made of the first sequences.
Flattening(st, ss) ==
    /\ st[0] = <<>>
    /\ \A i \in 1 .. Len(ss) : st[i] = st[i - 1] \o ss[i]

LEMMA FlatteningExists ==
    ASSUME NEW S, NEW ss \in Seq(Seq(S))
    PROVE  \E st \in [0 .. Len(ss) -> Seq(S)] : Flattening(st, ss)
<1> DEFINE n == Len(ss)
           UpTo(m, st) == st[0] = <<>> /\ \A i \in 1 .. m : st[i] = st[i - 1] \o ss[i]
           T == {m \in 0 .. n : \E st \in [0 .. m -> Seq(S)] : UpTo(m, st)}
<1>1. n \in Nat /\ \A i \in 1 .. n : ss[i] \in Seq(S)
  OBVIOUS
<1> HIDE DEF n
<1>2. 0 \in T
  <2> DEFINE st == [i \in 0 .. 0 |-> <<>>]
  <2>1. <<>> \in Seq(S)
    OBVIOUS
  <2>2. st \in [0 .. 0 -> Seq(S)]
    BY <2>1
  <2>3. UpTo(0, st)
    OBVIOUS
  <2> HIDE DEF st, UpTo
  <2>. QED  BY <1>1, <2>2, <2>3
<1>3. ASSUME NEW m \in 0 .. n, m < n, m \in T PROVE m + 1 \in T
  <2>1. PICK st \in [0 .. m -> Seq(S)] : UpTo(m, st)
    BY <1>3
  <2> DEFINE new == [i \in 0 .. m + 1 |-> IF i = m + 1 THEN st[m] \o ss[m + 1] ELSE st[i]]
  <2>2. st[m] \in Seq(S) /\ ss[m + 1] \in Seq(S)
    BY <1>1, <1>3
  <2>3. st[m] \o ss[m + 1] \in Seq(S)
    BY <2>2
  <2>4. new \in [0 .. m + 1 -> Seq(S)]
    <3>1. \A i \in 0 .. m + 1 : i # m + 1 => st[i] \in Seq(S)
      OBVIOUS
    <3>. QED  BY <2>3, <3>1
  <2>5. ASSUME NEW i \in 0 .. m + 1
        PROVE  new[i] = IF i = m + 1 THEN st[m] \o ss[m + 1] ELSE st[i]
    OBVIOUS
  <2> HIDE DEF new
  <2>6. UpTo(m + 1, new)
    <3>1. new[0] = <<>>
      BY <2>1, <2>5
    <3>2. ASSUME NEW i \in 1 .. m + 1 PROVE new[i] = new[i - 1] \o ss[i]
      <4>1. i - 1 \in 0 .. m + 1 /\ i - 1 # m + 1 /\ i \in 0 .. m + 1
        OBVIOUS
      <4>2. new[i - 1] = st[i - 1]
        BY <2>5, <4>1
      <4>3. CASE i = m + 1
        <5>1. i - 1 = m
          BY <4>3
        <5>. QED  BY <2>5, <4>1, <4>2, <4>3, <5>1
      <4>4. CASE i # m + 1
        <5>1. new[i] = st[i] /\ i \in 1 .. m
          BY <2>5, <4>1, <4>4
        <5>. QED  BY <2>1, <4>2, <5>1
      <4>. QED  BY <4>3, <4>4
    <3>. QED  BY <3>1, <3>2
  <2>7. m + 1 \in 0 .. n
    BY <1>1, <1>3
  <2> HIDE DEF UpTo
  <2>. QED  BY <2>4, <2>6, <2>7
<1> HIDE DEF T
<1>4. n \in T
  <2>1. \A i \in 0 .. n : i < n /\ i \in T => i + 1 \in T
    BY <1>3
  <2>2. \A i \in 0 .. n : i \in T
    BY <1>1, <1>2, <2>1, InductionUpTo
  <2>. QED  BY <1>1, <2>2
<1>. QED  BY <1>4 DEF T, Flattening, n

LEMMA FlattenIs ==
    ASSUME NEW S, NEW ss \in Seq(Seq(S)), NEW st \in [0 .. Len(ss) -> Seq(S)], Flattening(st, ss)
    PROVE  FlattenSeq(ss) = st[Len(ss)]
<1> DEFINE n == Len(ss)
           fn == CHOOSE f : f = [i \in 1 .. n |-> IF i = 1 THEN ss[i] ELSE f[i - 1] \o ss[i]]
           T == {i \in 0 .. n : i = 0 \/ fn[i] = st[i]}
<1>1. n \in Nat /\ \A i \in 1 .. n : ss[i] \in Seq(S)
  OBVIOUS
<1> HIDE DEF n, T
<1>2. CASE n = 0
  <2>1. ss = <<>>
    BY <1>2 DEF n
  <2>. QED  BY <1>2, <2>1 DEF FlattenSeq, Flattening, n
<1>3. CASE n # 0
  <2> DEFINE g == [i \in 1 .. n |-> st[i]]
  <2>1. st[0] = <<>> /\ \A i \in 1 .. n : st[i] = st[i - 1] \o ss[i]
    BY DEF Flattening, n
  <2>2. 1 \in 1 .. n /\ st[1] = ss[1]
    <3>1. 1 \in 1 .. n /\ 1 - 1 = 0
      BY <1>1, <1>3
    <3>2. st[1] = st[0] \o ss[1] /\ ss[1] \in Seq(S)
      BY <1>1, <2>1, <3>1
    <3>. QED  BY <2>1, <3>1, <3>2, ConcatEmptySeq
  <2>3. ASSUME NEW i \in 1 .. n
        PROVE  g[i] = IF i = 1 THEN ss[i] ELSE g[i - 1] \o ss[i]
    <3>1. CASE i = 1
      BY <2>2, <3>1
    <3>2. CASE i # 1
      <4>1. i - 1 \in 1 .. n
        BY <1>1, <3>2
      <4>2. g[i] = st[i] /\ g[i - 1] = st[i - 1]
        BY <4>1
      <4> HIDE DEF g
      <4>. QED  BY <2>1, <3>2, <4>2
    <3>. QED  BY <3>1, <3>2
  <2>4. g = [i \in 1 .. n |-> IF i = 1 THEN ss[i] ELSE g[i - 1] \o ss[i]]
    BY <2>3
  <2>5. fn = [i \in 1 .. n |-> IF i = 1 THEN ss[i] ELSE fn[i - 1] \o ss[i]]
    <3> HIDE DEF g
    <3>. QED  BY <2>4
  <2>6. FlattenSeq(ss) = fn[n]
    BY <1>3 DEF FlattenSeq, n
  <2> HIDE DEF fn, g
  <2>7. ASSUME NEW i \in 0 .. n, i < n, i \in T PROVE i + 1 \in T
    <3>1. i + 1 \in 1 .. n /\ (i + 1) - 1 = i /\ (i + 1 = 1 <=> i = 0)
      BY <1>1, <2>7
    <3>2. fn[i + 1] = IF i = 0 THEN ss[i + 1] ELSE fn[i] \o ss[i + 1]
      <4>1. \A j \in 1 .. n : fn[j] = IF j = 1 THEN ss[j] ELSE fn[j - 1] \o ss[j]
        BY <2>5
      <4>. QED  BY <3>1, <4>1
    <3>3. st[i + 1] = st[i] \o ss[i + 1]
      <4>1. st[i + 1] = st[(i + 1) - 1] \o ss[i + 1]
        BY <2>1, <3>1
      <4>. QED  BY <3>1, <4>1
    <3>4. CASE i = 0
      <4>1. fn[i + 1] = st[i + 1]
        BY <2>2, <3>2, <3>4
      <4>. QED  BY <3>1, <4>1 DEF T
    <3>5. CASE i # 0
      <4>1. fn[i] = st[i]
        BY <2>7, <3>5 DEF T
      <4>2. fn[i + 1] = st[i + 1]
        BY <3>2, <3>3, <3>5, <4>1, Zenon
      <4>. QED  BY <3>1, <4>2 DEF T
    <3>. QED  BY <3>4, <3>5
  <2>8. 0 \in T
    BY <1>1 DEF T
  <2>9. n \in T
    <3>1. \A i \in 0 .. n : i < n /\ i \in T => i + 1 \in T
      BY <2>7
    <3>2. \A i \in 0 .. n : i \in T
      BY <1>1, <2>8, <3>1, InductionUpTo
    <3>. QED  BY <1>1, <3>2
  <2>. QED  BY <1>3, <2>6, <2>9 DEF T, n
<1>. QED  BY <1>2, <1>3 DEF n

LEMMA FlattenEmpty == FlattenSeq(<<>>) = <<>>
BY DEF FlattenSeq

\* FlattenSeq at the two ends of a queue.
LEMMA FlattenAppend ==
    ASSUME NEW S, NEW ss \in Seq(Seq(S)), NEW s \in Seq(S)
    PROVE  /\ FlattenSeq(ss) \in Seq(S)
           /\ FlattenSeq(Append(ss, s)) = FlattenSeq(ss) \o s
<1> DEFINE n == Len(ss)
           tt == Append(ss, s)
<1>1. PICK st \in [0 .. n -> Seq(S)] : Flattening(st, ss)
  BY FlatteningExists
<1> DEFINE new == [i \in 0 .. n + 1 |-> IF i = n + 1 THEN st[n] \o s ELSE st[i]]
<1>2. /\ n \in Nat /\ tt \in Seq(Seq(S)) /\ Len(tt) = n + 1
      /\ \A i \in 1 .. n : tt[i] = ss[i]
      /\ tt[n + 1] = s
  OBVIOUS
<1>3. FlattenSeq(ss) = st[n] /\ st[n] \in Seq(S)
  <2> HIDE DEF tt
  <2>1. FlattenSeq(ss) = st[n]
    BY <1>1, FlattenIs
  <2>2. n \in 0 .. n
    BY <1>2
  <2> HIDE DEF n
  <2>. QED  BY <2>1, <2>2
<1>4. st[n] \o s \in Seq(S)
  BY <1>3
<1> HIDE DEF tt, n
<1>5. new \in [0 .. n + 1 -> Seq(S)]
  <2>1. \A i \in 0 .. n + 1 : i # n + 1 => st[i] \in Seq(S)
    BY <1>2
  <2>. QED  BY <1>4, <2>1
<1>6. st[0] = <<>> /\ \A i \in 1 .. n : st[i] = st[i - 1] \o ss[i]
  BY <1>1 DEF Flattening, n
<1>7. \A i \in 0 .. n + 1 : new[i] = IF i = n + 1 THEN st[n] \o s ELSE st[i]
  OBVIOUS
<1> HIDE DEF new
<1>8. Flattening(new, tt)
  <2>1. new[0] = <<>>
    BY <1>2, <1>6, <1>7
  <2>2. ASSUME NEW i \in 1 .. n + 1 PROVE new[i] = new[i - 1] \o tt[i]
    <3>1. i - 1 \in 0 .. n + 1 /\ i - 1 # n + 1 /\ i \in 0 .. n + 1
      BY <1>2
    <3>2. new[i - 1] = st[i - 1]
      BY <1>7, <3>1
    <3>3. CASE i = n + 1
      <4>1. i - 1 = n
        BY <1>2, <3>3
      <4>. QED  BY <1>2, <1>7, <3>1, <3>2, <3>3, <4>1
    <3>4. CASE i # n + 1
      <4>1. i \in 1 .. n /\ new[i] = st[i]
        BY <1>2, <1>7, <3>1, <3>4
      <4>. QED  BY <1>2, <1>6, <3>2, <4>1
    <3>. QED  BY <3>3, <3>4
  <2>. QED  BY <1>2, <2>1, <2>2 DEF Flattening
<1>9. FlattenSeq(tt) = new[n + 1]
  BY <1>2, <1>5, <1>8, FlattenIs
<1>10. new[n + 1] = st[n] \o s
  <2>1. n + 1 \in 0 .. n + 1
    BY <1>2
  <2>. QED  BY <1>7, <2>1
<1>. QED  BY <1>3, <1>9, <1>10 DEF tt

Behind(h, st, n) == [i \in 0 .. n |-> IF i = 0 THEN <<>> ELSE h \o st[i - 1]]

\* st are the stages of ss without its head h.
TailFlattening(S, st, ss, h, n) ==
    /\ ss[1] = h /\ \A i \in 1 .. n : ss[i] \in Seq(S)
    /\ st[0] = <<>> /\ \A i \in 0 .. n - 1 : st[i] \in Seq(S)
    /\ \A i \in 1 .. n - 1 : st[i] = st[i - 1] \o ss[i + 1]

\* new are the stages of ss, the last of them h in front of the last of st.
WholeFlattening(S, new, st, ss, h, n) ==
    /\ new \in [0 .. n -> Seq(S)]
    /\ new[0] = <<>> /\ new[n] = h \o st[n - 1]
    /\ \A i \in 1 .. n : new[i] = new[i - 1] \o ss[i]

LEMMA BehindFlattening ==
    ASSUME NEW S, NEW n \in Nat \ {0}, NEW h \in Seq(S), NEW ss, NEW st,
           TailFlattening(S, st, ss, h, n)
    PROVE  WholeFlattening(S, Behind(h, st, n), st, ss, h, n)
<1> DEFINE new == Behind(h, st, n)
<1>1. new[0] = <<>> /\ \A i \in 1 .. n : new[i] = h \o st[i - 1]
  <2>1. 0 \in 0 .. n /\ \A i \in 1 .. n : i \in 0 .. n /\ i # 0
    OBVIOUS
  <2>. QED  BY <2>1 DEF Behind
<1>2. new \in [0 .. n -> Seq(S)]
  <2>1. ASSUME NEW i \in 0 .. n
        PROVE  (IF i = 0 THEN <<>> ELSE h \o st[i - 1]) \in Seq(S)
    <3>1. CASE i = 0
      BY <3>1
    <3>2. CASE i # 0
      <4>1. i - 1 \in 0 .. n - 1
        BY <3>2
      <4>2. st[i - 1] \in Seq(S)
        BY <4>1 DEF TailFlattening
      <4>. QED  BY <3>2, <4>2
    <3>. QED  BY <3>1, <3>2
  <2>. QED  BY <2>1 DEF Behind
<1> HIDE DEF new
<1>3. ASSUME NEW i \in 1 .. n PROVE new[i] = new[i - 1] \o ss[i]
  <2>1. CASE i = 1
    <3>1. 1 \in 1 .. n /\ 1 - 1 = 0
      OBVIOUS
    <3>2. h \o <<>> = h /\ <<>> \o h = h
      BY ConcatEmptySeq
    <3>3. new[1] = h \o st[1 - 1]
      BY <1>1, <3>1
    <3>4. ss[1] = h /\ st[0] = <<>>
      BY DEF TailFlattening
    <3>. QED  BY <1>1, <2>1, <3>1, <3>2, <3>3, <3>4
  <2>2. CASE i # 1
    <3>1. i - 1 \in 1 .. n - 1 /\ (i - 1) + 1 = i
      BY <2>2
    <3> DEFINE j == i - 1
               a == st[j - 1]
               b == ss[i]
    <3>2. j \in 1 .. n - 1 /\ j + 1 = i
      BY <3>1
    <3>3. j - 1 \in 0 .. n - 1
      BY <3>2
    <3>4. a \in Seq(S) /\ b \in Seq(S)
      BY <3>3 DEF TailFlattening
    <3>5. st[j] = a \o b
      <4>1. st[j] = st[j - 1] \o ss[j + 1]
        BY <3>2 DEF TailFlattening
      <4>. QED  BY <3>2, <4>1
    <3>6. new[i] = h \o st[j] /\ new[i - 1] = h \o a
      <4>1. i - 1 \in 1 .. n
        BY <3>1
      <4>. QED  BY <1>1, <4>1
    <3> HIDE DEF a, b, j
    <3>7. h \o (a \o b) = (h \o a) \o b
      BY <3>4, Associative
    <3>8. new[i] = new[i - 1] \o b
      BY <3>5, <3>6, <3>7
    <3>. QED  BY <3>8 DEF b
  <2>. QED  BY <2>1, <2>2
<1>4. new[n] = h \o st[n - 1]
  BY <1>1
<1>. QED  BY <1>1, <1>2, <1>3, <1>4 DEF new, WholeFlattening

LEMMA FlattenTail ==
    ASSUME NEW S, NEW ss \in Seq(Seq(S)), ss # <<>>
    PROVE  /\ FlattenSeq(Tail(ss)) \in Seq(S)
           /\ FlattenSeq(ss) = Head(ss) \o FlattenSeq(Tail(ss))
<1> DEFINE n == Len(ss)
           tt == Tail(ss)
           h == Head(ss)
<1>1. /\ n \in Nat \ {0} /\ h \in Seq(S) /\ h = ss[1]
      /\ tt \in Seq(Seq(S)) /\ Len(tt) = n - 1
      /\ \A i \in 1 .. n - 1 : tt[i] = ss[i + 1]
  OBVIOUS
<1>2. \A i \in 1 .. n : ss[i] \in Seq(S)
  OBVIOUS
<1> HIDE DEF tt, h, n
<1>3. PICK st \in [0 .. n - 1 -> Seq(S)] : Flattening(st, tt)
  BY <1>1, FlatteningExists
<1>4. st[0] = <<>> /\ \A i \in 1 .. n - 1 : st[i] = st[i - 1] \o ss[i + 1]
  BY <1>1, <1>3 DEF Flattening
<1>5. \A i \in 0 .. n - 1 : st[i] \in Seq(S)
  OBVIOUS
<1> DEFINE new == Behind(h, st, n)
<1> HIDE DEF new
<1>6. /\ new \in [0 .. n -> Seq(S)] /\ new[0] = <<>> /\ new[n] = h \o st[n - 1]
      /\ \A i \in 1 .. n : new[i] = new[i - 1] \o ss[i]
  <2>1. TailFlattening(S, st, ss, h, n)
    BY <1>1, <1>2, <1>4, <1>5 DEF TailFlattening
  <2>2. n \in Nat \ {0} /\ h \in Seq(S)
    BY <1>1
  <2>3. WholeFlattening(S, new, st, ss, h, n)
    BY <2>1, <2>2, BehindFlattening DEF new
  <2>. QED  BY <2>3 DEF WholeFlattening
<1>7. FlattenSeq(ss) = new[n]
  <2>1. n = Len(ss)
    BY DEF n
  <2>2. Flattening(new, ss)
    BY <1>6, <2>1 DEF Flattening
  <2>. QED  BY <1>6, <2>1, <2>2, FlattenIs
<1>8. FlattenSeq(tt) = st[n - 1]
  <2>1. st \in [0 .. Len(tt) -> Seq(S)]
    BY <1>1
  <2>2. FlattenSeq(tt) = st[Len(tt)]
    BY <1>1, <1>3, <2>1, FlattenIs
  <2>. QED  BY <1>1, <2>2
<1>9. st[n - 1] \in Seq(S)
  <2>1. n - 1 \in 0 .. n - 1
    BY <1>1
  <2>. QED  BY <2>1
<1>. QED  BY <1>6, <1>7, <1>8, <1>9 DEF tt, h

==============================================================================
