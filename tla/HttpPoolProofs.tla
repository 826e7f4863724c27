---------------------------- MODULE HttpPoolProofs ----------------------------
(***************************************************************************)
(* Proofs about HttpPool.tla, for any number of streams, addresses and      *)
(* limits.  The safety properties of the pool are not inductive: a request  *)
(* is served by a chain of calls, register_connection serves a whole list   *)
(* of them, and between two calls some streams are in no list and some      *)
(* connections hold a stream that is about to leave them.  PoolOK says      *)
(* what holds there too: its second argument is the streams in hand, those  *)
(* whose reply is being made, its third the connections that are not        *)
(* settled.  Each operator of the model has a lemma that takes PoolOK to    *)
(* PoolOK, each action one that starts and ends with nothing in hand, and   *)
(* the folds are taken apart into stages by the induction of                *)
(* SequenceLemmas.tla.                                                      *)
(***************************************************************************)
EXTENDS HttpPool, SequenceLemmas, FiniteSetTheorems, TLAPS

\* One connection: what its stage says of its status.
StageOK(k) ==
    /\ k.stage \in {"tls_start", "handshake", "tls_established"} => ~k.error
    /\ k.stage = "tls_failed" => k.error
    /\ k.stage \in {"connect", "handshake"} => ~k.gone
    /\ k.stage = "connect" /\ k.error => k.status = "closed"
    /\ k.stage = "tls_established" => (k.gone <=> k.status = "closed")

\* Its lists: streams wait before it is there, and are in flight or queued afterwards.
ListsOK(k) ==
    /\ IsFiniteSet(k.busy)
    /\ Pending(k) => k.busy = {} /\ k.queue = <<>> /\ k.waiting # <<>>
    /\ ~Pending(k) => k.waiting = <<>>
    /\ k.alpn = "h1" => k.queue = <<>> /\ \A s, t \in k.busy : s = t
    /\ IsInjective(k.waiting) /\ IsInjective(k.queue)
    /\ k.busy \cap Elems(k.queue) = {}

\* The streams in its lists are in the state that belongs to it.
StatesOK(stream, k) ==
    /\ \A s \in Elems(k.waiting) : stream[s].state = "waiting"
    /\ \A s \in Elems(k.queue) : stream[s].state \in {"sent", "reset"}
    /\ \A s \in k.busy : stream[s].state \in {"sent", "reset"}

\* A connection that has closed has nothing in flight, an open one queues only what is
\* beyond its limit.
Settled(stream, k) ==
    /\ k.status = "closed" => k.busy = {}
    /\ k.status = "open" /\ k.queue # <<>> => ~HasFree(k)
    /\ \A s \in k.busy : stream[s].state = "sent"

Has(k) == k.busy \cup Elems(k.queue)

Apart(conns) ==
    \A c, d \in DOMAIN conns : c # d =>
        /\ Elems(conns[c].waiting) \cap Elems(conns[d].waiting) = {}
        /\ Has(conns[c]) \cap Has(conns[d]) = {}

\* Where a stream is.  hand: those whose reply is being made.
PlacedOne(p, hand, s) ==
    /\ s \in hand <=> /\ p.stream[s].state = "waiting"
                      /\ \A c \in DOMAIN p.conns : s \notin Elems(p.conns[c].waiting)
    /\ p.stream[s].state = "sent" =>
          ~p.stream[s].left /\ \E c \in DOMAIN p.conns : s \in Has(p.conns[c])
    /\ p.stream[s].state = "reset" => p.stream[s].left
Placed(p, hand) == \A s \in Streams : PlacedOne(p, hand, s)

\* An HTTP/1 client has one request at a time.
Active(p, s) == p.stream[s].state \notin {"new", "answered"}
Solo(p) == alpn = "h1" => \A s, t \in Streams : Active(p, s) /\ Active(p, t) => s = t

\* While context.server is open and not in the pool, nothing in the pool leads there.
ContextOK(p) ==
    p.context.status = "open" =>
        /\ ~p.context.error
        /\ ~p.context.known => \A c \in DOMAIN p.conns : p.conns[c].addr # p.context.addr

ConnOK(stream, k) == StageOK(k) /\ ListsOK(k) /\ StatesOK(stream, k)

Healthy(p) == ~p.crashed

\* The invariant of the pool between the replies of one step: the streams in hand have
\* not been served yet, and what the connections in X come to is at hand.
PoolOK(p, hand, X) ==
    /\ p \in Pool /\ Healthy(p)
    /\ \A c \in DOMAIN p.conns :
          /\ ConnOK(p.stream, p.conns[c])
          /\ c \notin X => Settled(p.stream, p.conns[c])
    /\ Apart(p.conns) /\ Placed(p, hand) /\ Solo(p) /\ ContextOK(p)

IInv == TypeOK /\ PoolOK(pool, {}, {})

------------------------------------------------------------------------------

\* Two states of a connection that differ in what is in flight or queued.
SameButLists(k, r) ==
    /\ r.addr = k.addr /\ r.status = k.status /\ r.error = k.error /\ r.alpn = k.alpn
    /\ r.stage = k.stage /\ r.gone = k.gone /\ r.waiting = k.waiting /\ r.limit = k.limit

WithBusy(k, busy) == [k EXCEPT !.busy = busy]
WithQueue(k, queue) == [k EXCEPT !.queue = queue]

\* Changing what is in flight changes nothing else of a connection.
LEMMA WithBusyIs ==
    ASSUME NEW k \in Connection, NEW busy \in SUBSET Streams
    PROVE  /\ WithBusy(k, busy) \in Connection
           /\ WithBusy(k, busy).busy = busy /\ WithBusy(k, busy).queue = k.queue
           /\ SameButLists(k, WithBusy(k, busy))
BY DEF Connection, SameButLists, WithBusy

\* Nor does changing its queue.
LEMMA WithQueueIs ==
    ASSUME NEW k \in Connection, NEW queue \in Seq(Streams)
    PROVE  /\ WithQueue(k, queue) \in Connection
           /\ WithQueue(k, queue).busy = k.busy /\ WithQueue(k, queue).queue = queue
           /\ SameButLists(k, WithQueue(k, queue))
BY DEF Connection, SameButLists, WithQueue

\* A queued stream stays queued, is dropped when its client has reset it, or is opened.
LEMMA ResumedCases ==
    ASSUME NEW k \in Connection, NEW s \in Streams, NEW stream \in [Streams -> Stream]
    PROVE  /\ ~HasFree(k) => Resumed(k, s, stream) = WithQueue(k, Append(k.queue, s))
           /\ HasFree(k) /\ stream[s].left => Resumed(k, s, stream) = k
           /\ HasFree(k) /\ ~stream[s].left =>
                 Resumed(k, s, stream) = WithBusy(k, k.busy \cup {s})
BY DEF Resumed, WithQueue, WithBusy

LEMMA ResumedType ==
    ASSUME NEW k \in Connection, NEW s \in Streams, NEW stream \in [Streams -> Stream]
    PROVE  Resumed(k, s, stream) \in Connection
<1>1. k.busy \cup {s} \in SUBSET Streams /\ Append(k.queue, s) \in Seq(Streams)
  BY DEF Connection
<1>2. /\ WithQueue(k, Append(k.queue, s)) \in Connection
      /\ WithBusy(k, k.busy \cup {s}) \in Connection
  BY <1>1, WithQueueIs, WithBusyIs
<1>. QED  BY <1>2, ResumedCases

\* What the resumption of a queue makes of a connection.
Resumption(k, r, stream) ==
    /\ r \in Connection
    /\ SameButLists(k, r)
    /\ IsFiniteSet(r.busy) /\ IsInjective(r.queue) /\ r.busy \cap Elems(r.queue) = {}
    /\ k.busy \subseteq r.busy
    /\ \A s \in r.busy : s \in k.busy \/ (s \in Elems(k.queue) /\ ~stream[s].left)
    /\ Elems(r.queue) \subseteq Elems(k.queue)
    /\ \A s \in Elems(k.queue) : s \in r.busy \cup Elems(r.queue) \/ stream[s].left
    /\ r.queue # <<>> => ~HasFree(r)

Prefix(s, i) == {s[j] : j \in 1 .. i}

ResumptionUpTo(k, r, stream, i) ==
    /\ r \in Connection
    /\ SameButLists(k, r)
    /\ IsFiniteSet(r.busy) /\ IsInjective(r.queue) /\ r.busy \cap Elems(r.queue) = {}
    /\ k.busy \subseteq r.busy
    /\ \A s \in r.busy : s \in k.busy \/ (s \in Prefix(k.queue, i) /\ ~stream[s].left)
    /\ Elems(r.queue) \subseteq Prefix(k.queue, i)
    /\ \A s \in Prefix(k.queue, i) : s \in r.busy \cup Elems(r.queue) \/ stream[s].left
    /\ r.queue # <<>> => ~HasFree(r)

\* A stream at the end of a queue or a list of waiters.
LEMMA AppendElems ==
    ASSUME NEW S, NEW q \in Seq(S), NEW e \in S
    PROVE  /\ Append(q, e) \in Seq(S) /\ Append(q, e) # <<>>
           /\ Elems(Append(q, e)) = Elems(q) \cup {e}
           /\ IsInjective(q) /\ e \notin Elems(q) => IsInjective(Append(q, e))
BY AppendNew DEF Elems, Entries, IsInjective, Distinct

LEMMA PrefixGrows ==
    ASSUME NEW S, NEW q \in Seq(S), NEW i \in 1 .. Len(q)
    PROVE  Prefix(q, i) = Prefix(q, i - 1) \cup {q[i]}
<1>1. 1 .. i = (1 .. (i - 1)) \cup {i}
  OBVIOUS
<1>. QED  BY <1>1 DEF Prefix

\* One more stream of the queue is looked at.
LEMMA ResumedStep ==
    ASSUME NEW k \in Connection, NEW stream \in [Streams -> Stream],
           IsInjective(k.queue), k.busy \cap Elems(k.queue) = {},
           NEW i \in 1 .. Len(k.queue), NEW r, ResumptionUpTo(k, r, stream, i - 1)
    PROVE  ResumptionUpTo(k, Resumed(r, k.queue[i], stream), stream, i)
<1> DEFINE s == k.queue[i]
           t == Resumed(r, s, stream)
<1>1. /\ k.queue \in Seq(Streams) /\ s \in Streams /\ r \in Connection
      /\ r.busy \subseteq Streams /\ r.queue \in Seq(Streams) /\ s \in Elems(k.queue)
  BY DEF Connection, ResumptionUpTo, Elems
<1>2. t \in Connection
  BY <1>1, ResumedType
<1>3. Prefix(k.queue, i) = Prefix(k.queue, i - 1) \cup {s}
  BY <1>1, PrefixGrows
<1>4. s \notin Prefix(k.queue, i - 1)
  BY <1>1 DEF Prefix, IsInjective
<1>5. s \notin r.busy /\ s \notin Elems(r.queue)
  BY <1>1, <1>4 DEF ResumptionUpTo
<1>6. ResumptionUpTo(k, t, stream, i)
  <2>1. CASE ~HasFree(r)
    <3>1. /\ Append(r.queue, s) \in Seq(Streams)
          /\ Elems(Append(r.queue, s)) = Elems(r.queue) \cup {s}
          /\ IsInjective(Append(r.queue, s))
      BY <1>1, <1>5, AppendElems DEF ResumptionUpTo
    <3>2. t = WithQueue(r, Append(r.queue, s))
      BY <2>1, <1>1, ResumedCases
    <3> HIDE DEF t, s
    <3>3. t.queue = Append(r.queue, s) /\ t.busy = r.busy /\ SameButLists(r, t)
      BY <3>1, <3>2, <1>1, WithQueueIs
    <3>4. SameButLists(k, t)
      BY <3>3 DEF SameButLists, ResumptionUpTo
    <3>5. ~HasFree(t)
      BY <2>1, <3>3 DEF HasFree, SameButLists
    <3>6. t.busy \cap Elems(t.queue) = {}
      BY <1>5, <3>1, <3>3 DEF ResumptionUpTo
    <3>. QED  BY <1>2, <1>3, <3>1, <3>3, <3>4, <3>5, <3>6 DEF ResumptionUpTo
  <2>2. CASE HasFree(r) /\ stream[s].left
    <3>1. t = r
      BY <2>2, <1>1, ResumedCases
    <3> HIDE DEF t, s
    <3>. QED  BY <1>2, <1>3, <2>2, <3>1 DEF ResumptionUpTo
  <2>3. CASE HasFree(r) /\ ~stream[s].left
    <3>1. t = WithBusy(r, r.busy \cup {s})
      BY <2>3, <1>1, ResumedCases
    <3>2. r.busy \cup {s} \in SUBSET Streams
      BY <1>1
    <3> HIDE DEF t, s
    <3>3. t.queue = r.queue /\ t.busy = r.busy \cup {s} /\ SameButLists(r, t)
      BY <3>1, <3>2, <1>1, WithBusyIs
    <3>4. SameButLists(k, t)
      BY <3>3 DEF SameButLists, ResumptionUpTo
    <3>5. t.queue = <<>>
      BY <2>3, <3>3 DEF ResumptionUpTo
    <3>6. IsFiniteSet(t.busy)
      BY <3>3, FS_AddElement DEF ResumptionUpTo
    <3>7. t.busy \cap Elems(t.queue) = {}
      BY <1>5, <3>3 DEF ResumptionUpTo
    <3>. QED  BY <1>2, <1>3, <2>3, <3>3, <3>4, <3>5, <3>6, <3>7 DEF ResumptionUpTo
  <2>. QED  BY <2>1, <2>2, <2>3
<1>. QED  BY <1>6

SetConn(p, c, k) == [p EXCEPT !.conns[c] = k]

\* The stages of the fold in ResumeQueue.
FoldStages(p, c, st) ==
    LET k == p.conns[c]
        n == Len(k.queue)
    IN  /\ \A i \in 0 .. n : st[i] \in Connection
        /\ st[0] = WithQueue(k, <<>>)
        /\ \A i \in 1 .. n : st[i] = Resumed(st[i - 1], k.queue[i], p.stream)
        /\ ResumeQueue(p, c) = SetConn(p, c, st[n])

\* ResumeQueue goes through the queue in as many stages as it has streams.
LEMMA ResumeStages ==
    ASSUME NEW p \in Pool, NEW c \in DOMAIN p.conns
    PROVE  \E st : FoldStages(p, c, st)
<1> DEFINE k == p.conns[c]
           q == k.queue
           n == Len(q)
           base == WithQueue(k, <<>>)
           F == [i \in 1 .. n |-> [t \in Connection |-> Resumed(t, q[i], p.stream)]]
           it == CHOOSE iter :
                   iter = [s \in SUBSET DOMAIN q |->
                             IF s = {} THEN base
                             ELSE Resumed(iter[s \ {Greatest(s)}], q[Greatest(s)], p.stream)]
<1>1. p.conns \in Seq(Connection) /\ p.stream \in [Streams -> Stream]
  BY DEF Pool
<1>2. k \in Connection
  BY <1>1
<1>3. k.queue \in Seq(Streams) /\ k.busy \subseteq Streams
  BY <1>2 DEF Connection
<1>4. /\ k \in Connection /\ q \in Seq(Streams) /\ n \in Nat /\ DOMAIN q = 1 .. n
      /\ p.stream \in [Streams -> Stream] /\ \A i \in 1 .. n : q[i] \in Streams
  BY <1>1, <1>2, <1>3
<1>5. base \in Connection
  <2>1. <<>> \in Seq(Streams)
    OBVIOUS
  <2>. QED  BY <2>1, <1>4, WithQueueIs
<1> HIDE DEF q, n
<1>6. F \in [1 .. n -> [Connection -> Connection]]
  BY <1>4, ResumedType
<1>7. it = [s \in SUBSET DOMAIN q |->
              IF s = {} THEN base
              ELSE Resumed(it[s \ {Greatest(s)}], q[Greatest(s)], p.stream)]
  <2>1. PICK iter \in [SUBSET (1 .. n) -> Connection] : IsFold(iter, n, base, F)
    <3> HIDE DEF base, F
    <3>. QED  BY <1>4, <1>5, <1>6, FoldExists
  <2>2. ASSUME NEW s \in SUBSET (1 .. n), s # {}
        PROVE  iter[s] = Resumed(iter[s \ {Greatest(s)}], q[Greatest(s)], p.stream)
    <3>1. Greatest(s) \in 1 .. n
      BY <1>4, <2>2, GreatestIn
    <3>2. iter[s] = F[Greatest(s)][iter[s \ {Greatest(s)}]]
      BY <2>1, <2>2 DEF IsFold
    <3>3. iter[s \ {Greatest(s)}] \in Connection
      BY <2>1
    <3>. QED  BY <3>1, <3>2, <3>3
  <2>3. iter[{}] = base
    BY <2>1 DEF IsFold
  <2>4. iter = [s \in SUBSET DOMAIN q |->
                  IF s = {} THEN base
                  ELSE Resumed(iter[s \ {Greatest(s)}], q[Greatest(s)], p.stream)]
    <3> HIDE DEF base
    <3>. QED  BY <1>4, <2>1, <2>2, <2>3
  <2>. QED  BY <2>4
<1>8. ResumeQueue(p, c) = SetConn(p, c, it[1 .. n])
  BY <1>4 DEF SetConn, ResumeQueue, FoldLeft, MapThenFoldSet, Max, Greatest, WithQueue, q, n
<1> HIDE DEF it, base, k, F
<1>9. it[1 .. 0] = base
  BY <1>4, <1>7, FoldSteps
<1>10. ASSUME NEW i \in 1 .. n
      PROVE  it[1 .. i] = Resumed(it[1 .. (i - 1)], q[i], p.stream)
  <2>1. /\ 1 .. i \in SUBSET (1 .. n) /\ 1 .. i # {} /\ Greatest(1 .. i) = i
        /\ (1 .. i) \ {i} = 1 .. (i - 1)
    BY <1>4, FoldSteps
  <2>. QED  BY <1>4, <1>7, <2>1
<1> DEFINE T == {i \in 0 .. n : it[1 .. i] \in Connection}
<1>11. 0 \in T
  BY <1>4, <1>5, <1>9
<1>12. ASSUME NEW i \in 0 .. n, i < n, i \in T PROVE i + 1 \in T
  <2>1. i + 1 \in 1 .. n /\ i + 1 \in 0 .. n /\ (i + 1) - 1 = i
    BY <1>4, <1>12
  <2>. QED  BY <1>4, <1>10, <1>12, <2>1, ResumedType
<1>13. \A i \in 0 .. n : it[1 .. i] \in Connection
  <2>1. \A i \in 0 .. n : i < n /\ i \in T => i + 1 \in T
    BY <1>12
  <2>2. \A i \in 0 .. n : i \in T
    <3> HIDE DEF T
    <3>. QED  BY <1>4, <1>11, <2>1, InductionUpTo
  <2>. QED  BY <2>2
<1> DEFINE st == [i \in 0 .. n |-> it[1 .. i]]
<1>14. /\ \A i \in 0 .. n : st[i] \in Connection
       /\ st[0] = base
       /\ \A i \in 1 .. n : st[i] = Resumed(st[i - 1], q[i], p.stream)
       /\ ResumeQueue(p, c) = SetConn(p, c, st[n])
  <2>1. \A i \in 1 .. n : i \in 0 .. n /\ i - 1 \in 0 .. n
    BY <1>4
  <2>2. 0 \in 0 .. n /\ n \in 0 .. n
    BY <1>4
  <2>. QED  BY <1>8, <1>9, <1>10, <1>13, <2>1, <2>2
<1> HIDE DEF st
<1>. QED  BY <1>14 DEF FoldStages, k, q, n, base

\* What ResumeQueue makes of a connection: streams of its queue are opened while there is
\* room, those that were reset are dropped, and what is left is beyond the limit.
LEMMA Resume ==
    ASSUME NEW p \in Pool, NEW c \in DOMAIN p.conns, IsFiniteSet(p.conns[c].busy),
           IsInjective(p.conns[c].queue), p.conns[c].busy \cap Elems(p.conns[c].queue) = {}
    PROVE  \E r : /\ ResumeQueue(p, c) = SetConn(p, c, r)
                  /\ Resumption(p.conns[c], r, p.stream)
<1> DEFINE k == p.conns[c]
           q == k.queue
           n == Len(q)
           base == WithQueue(k, <<>>)
<1>1. p.conns \in Seq(Connection) /\ p.stream \in [Streams -> Stream]
  BY DEF Pool
<1>2. k \in Connection
  BY <1>1
<1>3. k.queue \in Seq(Streams) /\ k.busy \subseteq Streams
  BY <1>2 DEF Connection
<1>4. /\ k \in Connection /\ q \in Seq(Streams) /\ n \in Nat /\ DOMAIN q = 1 .. n
      /\ p.stream \in [Streams -> Stream] /\ \A i \in 1 .. n : q[i] \in Streams
  BY <1>1, <1>2, <1>3
<1>5. base \in Connection /\ base.busy = k.busy /\ base.queue = <<>> /\ SameButLists(k, base)
  <2>1. <<>> \in Seq(Streams)
    OBVIOUS
  <2>. QED  BY <2>1, <1>4, WithQueueIs
<1>6. PICK st : FoldStages(p, c, st)
  BY ResumeStages
<1>7. /\ \A i \in 0 .. n : st[i] \in Connection
      /\ st[0] = base
      /\ \A i \in 1 .. n : st[i] = Resumed(st[i - 1], q[i], p.stream)
      /\ ResumeQueue(p, c) = SetConn(p, c, st[n])
  BY <1>6 DEF FoldStages
<1> HIDE DEF q, n, base, k
<1> DEFINE T == {i \in 0 .. n : ResumptionUpTo(k, st[i], p.stream, i)}
<1>8. 0 \in T
  <2>2. Prefix(k.queue, 0) = {} /\ Elems(<<>>) = {} /\ IsInjective(<<>>)
    BY DEF Prefix, Elems, IsInjective
  <2>3. ResumptionUpTo(k, base, p.stream, 0)
    BY <1>5, <2>2 DEF ResumptionUpTo, k
  <2>. QED  BY <1>4, <1>7, <2>3
<1>9. ASSUME NEW i \in 0 .. n, i < n, i \in T PROVE i + 1 \in T
  <2>1. i + 1 \in 1 .. n /\ i + 1 \in 0 .. n /\ (i + 1) - 1 = i
    BY <1>4, <1>9
  <2>2. ResumptionUpTo(k, Resumed(st[i], q[i + 1], p.stream), p.stream, i + 1)
    BY <1>4, <1>9, <2>1, ResumedStep DEF k, q, n
  <2>. QED  BY <1>7, <2>1, <2>2
<1>10. ResumptionUpTo(k, st[n], p.stream, n)
  <2>1. \A i \in 0 .. n : i < n /\ i \in T => i + 1 \in T
    BY <1>9
  <2>2. \A i \in 0 .. n : i \in T
    <3> HIDE DEF T
    <3>. QED  BY <1>4, <1>8, <2>1, InductionUpTo
  <2>3. n \in 0 .. n
    BY <1>4
  <2>. QED  BY <2>2, <2>3
<1>11. Prefix(q, n) = Elems(q)
  BY <1>4 DEF Prefix, Elems
<1>12. Resumption(k, st[n], p.stream)
  BY <1>10, <1>11 DEF Resumption, ResumptionUpTo, q
<1>. QED  BY <1>7, <1>12 DEF k

------------------------------------------------------------------------------
(* Changes of the pool, and what they leave of its invariant.                            *)

Push(p, k) == [p EXCEPT !.conns = Append(@, k)]

LEMMA PoolFields ==
    ASSUME NEW p \in Pool
    PROVE  /\ p.conns \in Seq(Connection) /\ p.stream \in [Streams -> Stream]
           /\ p.context \in Context /\ p.crashed \in BOOLEAN
           /\ DOMAIN p.conns = 1 .. Len(p.conns) /\ Len(p.conns) \in Nat
           /\ \A c \in DOMAIN p.conns : p.conns[c] \in Connection
<1>1. /\ p.conns \in Seq(Connection) /\ p.stream \in [Streams -> Stream]
      /\ p.context \in Context /\ p.crashed \in BOOLEAN
  BY DEF Pool
<1>. QED  BY <1>1

LEMMA ConnectionFields ==
    ASSUME NEW k \in Connection
    PROVE  /\ k.addr \in Addrs \cup {NoAddr} /\ k.status \in Status /\ k.error \in BOOLEAN
           /\ k.alpn \in Protocols /\ k.stage \in Stages /\ k.gone \in BOOLEAN
           /\ k.waiting \in Seq(Streams) /\ k.busy \in SUBSET Streams
           /\ k.queue \in Seq(Streams) /\ k.limit \in Nat
BY DEF Connection

\* What the operators on the pool that change one thing leave of it.
IsSetConn(p, q, c, k) ==
    /\ q \in Pool /\ DOMAIN q.conns = DOMAIN p.conns /\ q.conns[c] = k
    /\ \A d \in DOMAIN p.conns : d # c => q.conns[d] = p.conns[d]
    /\ q.stream = p.stream /\ q.context = p.context /\ (Healthy(p) => Healthy(q))

LEMMA SetConnIs ==
    ASSUME NEW p \in Pool, NEW c \in DOMAIN p.conns, NEW k \in Connection
    PROVE  IsSetConn(p, SetConn(p, c, k), c, k)
<1>1. [p.conns EXCEPT ![c] = k] \in Seq(Connection)
  BY PoolFields
<1>. QED  BY <1>1 DEF IsSetConn, SetConn, Pool, Healthy

IsPush(p, q, k) ==
    /\ q \in Pool /\ Len(p.conns) + 1 \notin DOMAIN p.conns
    /\ DOMAIN q.conns = DOMAIN p.conns \cup {Len(p.conns) + 1}
    /\ q.conns[Len(p.conns) + 1] = k
    /\ \A d \in DOMAIN p.conns : q.conns[d] = p.conns[d]
    /\ q.stream = p.stream /\ q.context = p.context /\ (Healthy(p) => Healthy(q))

LEMMA PushIs ==
    ASSUME NEW p \in Pool, NEW k \in Connection
    PROVE  IsPush(p, Push(p, k), k)
<1>1. /\ p.conns \in Seq(Connection) /\ Len(p.conns) \in Nat
      /\ DOMAIN p.conns = 1 .. Len(p.conns)
  BY PoolFields
<1>2. /\ Append(p.conns, k) \in Seq(Connection)
      /\ DOMAIN Append(p.conns, k) = 1 .. Len(p.conns) + 1
      /\ Append(p.conns, k)[Len(p.conns) + 1] = k
      /\ \A d \in 1 .. Len(p.conns) : Append(p.conns, k)[d] = p.conns[d]
  BY <1>1
<1>3. Push(p, k) \in Pool
  BY <1>2 DEF Push, Pool, Healthy
<1>4. /\ Push(p, k).conns = Append(p.conns, k)
      /\ Push(p, k).stream = p.stream /\ Push(p, k).context = p.context
      /\ (Healthy(p) => Healthy(Push(p, k)))
  BY DEF Push, Pool, Healthy
<1>. QED  BY <1>1, <1>2, <1>3, <1>4 DEF IsPush

States == {"new", "waiting", "sent", "answered", "failed", "reset"}

LEMMA StatesAre ==
    /\ "new" \in States /\ "waiting" \in States /\ "sent" \in States
    /\ "answered" \in States /\ "failed" \in States /\ "reset" \in States
BY DEF States

IsOutcome(p, q, s, state) ==
    /\ q \in Pool /\ q.conns = p.conns /\ q.context = p.context
    /\ q.stream[s].state = state /\ q.stream[s].addr = p.stream[s].addr
    /\ q.stream[s].left <=> p.stream[s].left
    /\ \A t \in Streams : t # s => q.stream[t] = p.stream[t]
    /\ Healthy(p) => Healthy(q)

LEMMA OutcomeIs ==
    ASSUME NEW p \in Pool, NEW s \in Streams, NEW state \in States
    PROVE  IsOutcome(p, Outcome(p, s, state), s, state)
<1>1. p.stream \in [Streams -> Stream] /\ p.stream[s] \in Stream
  BY PoolFields
<1> DEFINE v == [p.stream[s] EXCEPT !.state = state]
<1>2. v \in Stream /\ v.state = state /\ v.addr = p.stream[s].addr /\ v.left = p.stream[s].left
  BY <1>1 DEF Stream, States
<1>3. Outcome(p, s, state) = [p EXCEPT !.stream = [p.stream EXCEPT ![s] = v]]
  BY DEF Outcome
<1> HIDE DEF v
<1>4. /\ [p.stream EXCEPT ![s] = v] \in [Streams -> Stream]
      /\ [p.stream EXCEPT ![s] = v][s] = v
      /\ \A t \in Streams : t # s => [p.stream EXCEPT ![s] = v][t] = p.stream[t]
  BY <1>1, <1>2
<1>. QED  BY <1>2, <1>3, <1>4 DEF IsOutcome, Pool, Healthy

\* The connections in C and what is said of the streams in Z change.
Changed(p, q, C, Z, hand, handq, X, Y) ==
    /\ q \in Pool /\ Healthy(q) /\ q.context = p.context
    /\ DOMAIN q.conns = DOMAIN p.conns
    /\ \A c, d \in C : c = d
    /\ \A t \in Streams \ Z : q.stream[t] = p.stream[t] /\ (t \in handq <=> t \in hand)
    /\ \A t \in Streams \cap Z : PlacedOne(q, handq, t)
    /\ Solo(q) \/ \A t \in Streams \cap Z : Active(q, t) => Active(p, t)
    /\ X \ C \subseteq Y
    /\ \A d \in DOMAIN p.conns \ C :
          /\ q.conns[d] = p.conns[d]
          /\ \A t \in Z : t \notin Elems(p.conns[d].waiting) /\ t \notin Has(p.conns[d])
    /\ \A c \in DOMAIN p.conns \cap C :
          /\ q.conns[c].addr = p.conns[c].addr
          /\ ConnOK(q.stream, q.conns[c])
          /\ c \notin Y => Settled(q.stream, q.conns[c])
          /\ \A t \in Streams \ Z :
               /\ t \in Elems(q.conns[c].waiting) <=> t \in Elems(p.conns[c].waiting)
               /\ t \in Has(q.conns[c]) => t \in Has(p.conns[c])
               /\ t \in Has(p.conns[c]) /\ t \notin Has(q.conns[c]) =>
                    p.stream[t].state # "sent"

\* The pool keeps its invariant when what has changed fits it, and the rest is as it was.
LEMMA Change ==
    ASSUME NEW p, NEW hand, NEW X, PoolOK(p, hand, X),
           NEW q, NEW C, NEW Z, NEW handq, NEW Y, Changed(p, q, C, Z, hand, handq, X, Y)
    PROVE  PoolOK(q, handq, Y)
<1> USE DEF Changed
<1>1. p \in Pool /\ Apart(p.conns) /\ Placed(p, hand) /\ Solo(p) /\ ContextOK(p)
  BY DEF PoolOK
<1>2. \A c \in DOMAIN p.conns :
         /\ Elems(p.conns[c].waiting) \subseteq Streams /\ Has(p.conns[c]) \subseteq Streams
         /\ Elems(q.conns[c].waiting) \subseteq Streams /\ Has(q.conns[c]) \subseteq Streams
  BY <1>1, PoolFields, ConnectionFields DEF Elems, Has
<1>3. ASSUME NEW d \in DOMAIN q.conns
      PROVE  ConnOK(q.stream, q.conns[d]) /\ (d \notin Y => Settled(q.stream, q.conns[d]))
  <2>1. CASE d \in C
    BY <2>1
  <2>2. CASE d \notin C
    <3>1. \A t \in Elems(p.conns[d].waiting) \cup Has(p.conns[d]) : q.stream[t] = p.stream[t]
      BY <2>2, <1>2
    <3>2. /\ ConnOK(p.stream, p.conns[d])
          /\ d \notin X => Settled(p.stream, p.conns[d])
      BY DEF PoolOK
    <3>3. q.conns[d] = p.conns[d]
      BY <2>2
    <3>4. d \notin Y => d \notin X
      BY <2>2
    <3>. QED  BY <3>1, <3>2, <3>3, <3>4 DEF ConnOK, StatesOK, Settled, Has
  <2>. QED  BY <2>1, <2>2
<1>4. Apart(q.conns)
  <2> SUFFICES ASSUME NEW c \in DOMAIN p.conns, NEW d \in DOMAIN p.conns, c # d
               PROVE  /\ Elems(q.conns[c].waiting) \cap Elems(q.conns[d].waiting) = {}
                      /\ Has(q.conns[c]) \cap Has(q.conns[d]) = {}
    BY DEF Apart
  <2>1. /\ Elems(p.conns[c].waiting) \cap Elems(p.conns[d].waiting) = {}
        /\ Has(p.conns[c]) \cap Has(p.conns[d]) = {}
    BY <1>1 DEF Apart
  <2>2. CASE c \in C
    <3>1. d \notin C /\ q.conns[d] = p.conns[d]
      BY <2>2
    <3>. QED  BY <2>1, <2>2, <3>1, <1>2
  <2>3. CASE d \in C
    <3>1. c \notin C /\ q.conns[c] = p.conns[c]
      BY <2>3
    <3>. QED  BY <2>1, <2>3, <3>1, <1>2
  <2>4. CASE c \notin C /\ d \notin C
    BY <2>1, <2>4
  <2>. QED  BY <2>2, <2>3, <2>4
<1>5. Placed(q, handq)
  <2> SUFFICES ASSUME NEW t \in Streams, t \notin Z PROVE PlacedOne(q, handq, t)
    BY DEF Placed
  <2>1. PlacedOne(p, hand, t) /\ q.stream[t] = p.stream[t] /\ (t \in handq <=> t \in hand)
    BY <1>1 DEF Placed
  <2>2. \A c \in DOMAIN p.conns :
           t \in Elems(q.conns[c].waiting) <=> t \in Elems(p.conns[c].waiting)
    OBVIOUS
  <2>3. \A c \in DOMAIN p.conns :
           t \in Has(p.conns[c]) /\ p.stream[t].state = "sent" => t \in Has(q.conns[c])
    OBVIOUS
  <2>. QED  BY <2>1, <2>2, <2>3 DEF PlacedOne
<1>6. Solo(q)
  <2>1. ASSUME \A t \in Streams \cap Z : Active(q, t) => Active(p, t)
        PROVE  \A t \in Streams : Active(q, t) => Active(p, t)
    BY <2>1 DEF Active
  <2>. QED  BY <1>1, <2>1 DEF Solo
<1>7. ContextOK(q)
  <2>1. \A c \in DOMAIN p.conns : q.conns[c].addr = p.conns[c].addr
    OBVIOUS
  <2>. QED  BY <1>1, <2>1 DEF ContextOK
<1>. QED  BY <1>3, <1>4, <1>5, <1>6, <1>7 DEF PoolOK

------------------------------------------------------------------------------
(* The replies.                                                                          *)

\* What no reply changes of the connections that are there.
Keeps(p, q) ==
    /\ q \in Pool /\ DOMAIN p.conns \subseteq DOMAIN q.conns
    /\ \A c \in DOMAIN p.conns :
          /\ q.conns[c].addr = p.conns[c].addr /\ q.conns[c].error = p.conns[c].error
          /\ q.conns[c].alpn = p.conns[c].alpn /\ q.conns[c].stage = p.conns[c].stage

\* A reply is made over the connection c.
Serves(p, q, c, hand, X) ==
    /\ PoolOK(q, hand, X) /\ Keeps(p, q) /\ DOMAIN q.conns = DOMAIN p.conns
    /\ p.conns[c].alpn = "h2" => q.conns[c].status = p.conns[c].status

\* A stream whose reply is being made is in no list.
LEMMA HandApart ==
    ASSUME NEW p, NEW hand, NEW X, PoolOK(p, hand, X), NEW s \in Streams, s \in hand
    PROVE  /\ p.stream[s].state = "waiting"
           /\ \A d \in DOMAIN p.conns : s \notin Elems(p.conns[d].waiting) /\ s \notin Has(p.conns[d])
<1>1. PlacedOne(p, hand, s)
  BY DEF PoolOK, Placed
<1>2. p.stream[s].state = "waiting"
  BY <1>1 DEF PlacedOne
<1>3. \A d \in DOMAIN p.conns : StatesOK(p.stream, p.conns[d])
  BY DEF PoolOK, ConnOK
<1>. QED  BY <1>1, <1>2, <1>3 DEF PlacedOne, StatesOK, Has

\* The reply (None, err).
LEMMA FailOK ==
    ASSUME NEW p, NEW hand, NEW X, PoolOK(p, hand, X), NEW s \in Streams, s \in hand
    PROVE  /\ PoolOK(Fail(p, s), hand \ {s}, X) /\ Keeps(p, Fail(p, s))
           /\ DOMAIN Fail(p, s).conns = DOMAIN p.conns
<1> DEFINE q == Outcome(p, s, "failed")
<1>1. /\ p.stream[s].state = "waiting" /\ p \in Pool /\ Healthy(p)
      /\ \A d \in DOMAIN p.conns : s \notin Elems(p.conns[d].waiting) /\ s \notin Has(p.conns[d])
  BY HandApart DEF PoolOK
<1>2. Fail(p, s) = q
  BY <1>1 DEF Fail, Replied
<1>3. /\ q \in Pool /\ q.conns = p.conns /\ q.context = p.context /\ Healthy(q)
      /\ q.stream[s].state = "failed"
      /\ \A t \in Streams : t # s => q.stream[t] = p.stream[t]
  <2>1. IsOutcome(p, q, s, "failed")
    BY <1>1, OutcomeIs, StatesAre
  <2> HIDE DEF q
  <2>. QED  BY <1>1, <2>1 DEF IsOutcome
<1> HIDE DEF q
<1>4. PlacedOne(q, hand \ {s}, s)
  BY <1>3 DEF PlacedOne
<1>5. Active(p, s)
  BY <1>1 DEF Active
<1>6. PoolOK(q, hand \ {s}, X)
  <2>1. Changed(p, q, {}, {s}, hand, hand \ {s}, X, X)
    BY <1>1, <1>3, <1>4, <1>5 DEF Changed
  <2>. QED  BY <2>1, Change
<1>. QED  BY <1>2, <1>3, <1>6 DEF Keeps

Delivery(k, r, s) ==
    /\ SameButLists(k, r)
    /\ \/ /\ r.busy = k.busy \cup {s} /\ r.queue = k.queue
          /\ k.alpn = "h1" \/ HasFree(k)
       \/ /\ r.busy = k.busy /\ r.queue = Append(k.queue, s)
          /\ k.alpn = "h2" /\ ~HasFree(k)

\* Http1Client and Http2Client take a request, the former when it has none.
LEMMA DeliverIs ==
    ASSUME NEW p \in Pool, NEW s \in Streams, NEW c \in DOMAIN p.conns,
           p.conns[c].alpn = "h1" => p.conns[c].busy = {}
    PROVE  \E r \in Connection :
              Deliver(p, s, c) = SetConn(p, c, r) /\ Delivery(p.conns[c], r, s)
<1> DEFINE k == p.conns[c]
<1>1. /\ k \in Connection /\ k.alpn \in Protocols
      /\ k.busy \cup {s} \in SUBSET Streams /\ Append(k.queue, s) \in Seq(Streams)
  BY PoolFields, ConnectionFields
<1>2. CASE k.alpn = "h1"
  <2>1. Deliver(p, s, c) = SetConn(p, c, WithBusy(k, k.busy \cup {s}))
    BY <1>2 DEF Deliver, SetConn, WithBusy
  <2>. QED  BY <1>1, <1>2, <2>1, WithBusyIs DEF Delivery
<1>3. CASE k.alpn = "h2" /\ HasFree(k)
  <2>1. Deliver(p, s, c) = SetConn(p, c, WithBusy(k, k.busy \cup {s}))
    BY <1>3 DEF Deliver, SetConn, WithBusy
  <2>. QED  BY <1>1, <1>3, <2>1, WithBusyIs DEF Delivery
<1>4. CASE k.alpn = "h2" /\ ~HasFree(k)
  <2>1. Deliver(p, s, c) = SetConn(p, c, WithQueue(k, Append(k.queue, s)))
    BY <1>4 DEF Deliver, SetConn, WithQueue
  <2> DEFINE r == WithQueue(k, Append(k.queue, s))
  <2>2. /\ r \in Connection /\ SameButLists(k, r)
        /\ r.busy = k.busy /\ r.queue = Append(k.queue, s)
    BY <1>1, WithQueueIs
  <2> HIDE DEF r
  <2>. QED  BY <1>4, <2>1, <2>2 DEF Delivery, r
<1>. QED  BY <1>1, <1>2, <1>3, <1>4 DEF Protocols

\* A stream is handed to a connection: in the state "sent", or "reset" when it has left.
Handed(p, q, s, c, state) ==
    LET p0 == Deliver(Outcome(p, s, "sent"), s, c)
    IN  \/ state = "sent" /\ ~p.stream[s].left /\ q = p0
        \/ state = "reset" /\ p.stream[s].left /\ q = Outcome(p0, s, "reset")

Delivered(p, q, s, c, state, hand, X) ==
    /\ PoolOK(q, hand \ {s}, X \cup {c})
    /\ state = "sent" => PoolOK(q, hand \ {s}, X)
    /\ Keeps(p, q) /\ DOMAIN q.conns = DOMAIN p.conns
    /\ q.conns[c].status = p.conns[c].status
    /\ q.stream[s].state = state
    /\ q.conns[c].busy \subseteq p.conns[c].busy \cup {s}
    /\ \A t \in Streams : t # s => q.stream[t] = p.stream[t]

\* The stream is in flight or queued then.  One that has left is not settled yet.
LEMMA DeliverOK ==
    ASSUME NEW p, NEW hand, NEW X, PoolOK(p, hand, X),
           NEW s \in Streams, s \in hand, NEW c \in DOMAIN p.conns,
           ~Pending(p.conns[c]), p.conns[c].alpn = "h1" => p.conns[c].busy = {},
           c \in X <=> p.conns[c].status = "closed",
           NEW q, NEW state \in {"sent", "reset"}, Handed(p, q, s, c, state)
    PROVE  Delivered(p, q, s, c, state, hand, X)
<1> DEFINE k == p.conns[c]
           p1 == Outcome(p, s, "sent")
<1>1. /\ p.stream[s].state = "waiting" /\ p \in Pool /\ Healthy(p)
      /\ \A d \in DOMAIN p.conns : s \notin Elems(p.conns[d].waiting) /\ s \notin Has(p.conns[d])
      /\ state = "reset" <=> p.stream[s].left
  BY HandApart DEF PoolOK, Handed
<1>2. /\ p1 \in Pool /\ p1.conns = p.conns /\ p1.context = p.context /\ Healthy(p1)
      /\ (p1.stream[s].left <=> p.stream[s].left) /\ p1.stream[s].state = "sent"
      /\ \A t \in Streams : t # s => p1.stream[t] = p.stream[t]
  <2>1. IsOutcome(p, p1, s, "sent")
    BY <1>1, OutcomeIs, StatesAre
  <2> HIDE DEF p1
  <2>. QED  BY <1>1, <2>1 DEF IsOutcome
<1> HIDE DEF p1
<1>3. PICK r \in Connection :
          Deliver(p1, s, c) = SetConn(p1, c, r) /\ Delivery(p1.conns[c], r, s)
  BY <1>2, DeliverIs
<1>4. /\ Deliver(p1, s, c) = SetConn(p1, c, r)
      /\ SameButLists(k, r)
      /\ \/ /\ r.busy = k.busy \cup {s} /\ r.queue = k.queue
            /\ k.alpn = "h1" \/ HasFree(k)
         \/ /\ r.busy = k.busy /\ r.queue = Append(k.queue, s)
            /\ k.alpn = "h2" /\ ~HasFree(k)
  BY <1>2, <1>3 DEF Delivery
<1>5. PICK p2 : p2 = SetConn(p1, c, r)
  OBVIOUS
<1>6. /\ p2 \in Pool /\ DOMAIN p2.conns = DOMAIN p.conns /\ p2.conns[c] = r
      /\ \A d \in DOMAIN p.conns : d # c => p2.conns[d] = p.conns[d]
      /\ p2.stream = p1.stream /\ p2.context = p.context /\ Healthy(p2)
  <2>1. IsSetConn(p1, p2, c, r)
    BY <1>2, <1>5, SetConnIs
  <2>. QED  BY <1>2, <2>1 DEF IsSetConn
<1>7. /\ q \in Pool /\ DOMAIN q.conns = DOMAIN p.conns /\ q.conns[c] = r
      /\ \A d \in DOMAIN p.conns : d # c => q.conns[d] = p.conns[d]
      /\ q.stream[s].state = state /\ (q.stream[s].left <=> p.stream[s].left)
      /\ \A t \in Streams : t # s => q.stream[t] = p.stream[t]
      /\ q.context = p.context /\ Healthy(q)
  <2>1. CASE state = "sent" /\ q = p2
    BY <1>2, <1>6, <2>1
  <2>2. CASE state = "reset" /\ q = Outcome(p2, s, "reset")
    <3>1. IsOutcome(p2, q, s, "reset")
      BY <1>6, <2>2, OutcomeIs, StatesAre
    <3>. QED  BY <1>2, <1>6, <2>2, <3>1 DEF IsOutcome
  <2>. QED  BY <1>4, <1>5, <2>1, <2>2 DEF Handed, p1
<1>8. /\ k \in Connection /\ k.queue \in Seq(Streams) /\ k.busy \subseteq Streams
      /\ k.waiting \in Seq(Streams)
      /\ ConnOK(p.stream, k) /\ (c \notin X => Settled(p.stream, k))
      /\ k.status \in Status
  BY <1>1, PoolFields, ConnectionFields DEF PoolOK
<1>9. s \notin k.busy /\ s \notin Elems(k.queue) /\ s \notin Elems(k.waiting)
  BY <1>1 DEF Has
<1>10. k.waiting = <<>> /\ r.waiting = <<>> /\ r.stage = "done" /\ Elems(<<>>) = {}
  BY <1>4, <1>8 DEF ConnOK, ListsOK, Pending, SameButLists, Elems
<1>11. /\ Append(k.queue, s) # <<>>
      /\ Elems(Append(k.queue, s)) = Elems(k.queue) \cup {s}
      /\ IsInjective(Append(k.queue, s))
  BY <1>8, <1>9, AppendElems DEF ConnOK, ListsOK
<1>12. IsFiniteSet(k.busy \cup {s})
  BY <1>8, FS_AddElement DEF ConnOK, ListsOK
<1> HIDE DEF k
<1>13. Has(r) = Has(k) \cup {s}
  BY <1>4, <1>11 DEF Has
<1>14. StageOK(r)
  BY <1>4, <1>8 DEF ConnOK, StageOK, SameButLists
<1>15. ListsOK(r)
  <2>1. IsFiniteSet(r.busy) /\ IsInjective(r.queue) /\ r.busy \cap Elems(r.queue) = {}
    BY <1>4, <1>8, <1>9, <1>11, <1>12 DEF ConnOK, ListsOK
  <2>2. r.alpn = "h1" => r.queue = <<>> /\ \A t, u \in r.busy : t = u
    BY <1>4, <1>8 DEF ConnOK, ListsOK, SameButLists, k
  <2>3. IsInjective(r.waiting)
    BY <1>10 DEF IsInjective
  <2>. QED  BY <1>10, <2>1, <2>2, <2>3 DEF ListsOK, Pending
<1>16. StatesOK(q.stream, r)
  <2>1. \A t \in Elems(r.queue) \cup r.busy : t = s \/ (t \in Streams /\ t \in Has(k))
    BY <1>8, <1>13 DEF Has, Elems
  <2>2. \A t \in Has(k) : p.stream[t].state \in {"sent", "reset"}
    BY <1>8 DEF Has, ConnOK, StatesOK
  <2>. QED  BY <1>7, <1>10, <2>1, <2>2 DEF StatesOK
<1>17. ASSUME state = "sent", c \notin X PROVE Settled(q.stream, r)
  <2>1. r.status = "open" /\ k.status = "open" /\ Settled(p.stream, k)
    BY <1>4, <1>8, <1>17 DEF SameButLists, Status, k
  <2>2. r.queue # <<>> => ~HasFree(r)
    BY <1>4, <1>8, <2>1 DEF Settled, SameButLists, HasFree, ConnOK, ListsOK
  <2>3. \A t \in r.busy : q.stream[t].state = "sent"
    BY <1>4, <1>7, <1>8, <1>17, <2>1 DEF Settled
  <2>. QED  BY <2>1, <2>2, <2>3 DEF Settled
<1>18. PlacedOne(q, hand \ {s}, s)
  BY <1>1, <1>7, <1>13 DEF PlacedOne
<1>19. ASSUME NEW Y, X \ {c} \subseteq Y, c \notin Y => Settled(q.stream, r)
       PROVE  PoolOK(q, hand \ {s}, Y)
  <2>1. Active(p, s)
    BY <1>1 DEF Active
  <2>2. ConnOK(q.stream, r) /\ r.addr = p.conns[c].addr
    BY <1>4, <1>14, <1>15, <1>16 DEF ConnOK, SameButLists, k
  <2>3. Changed(p, q, {c}, {s}, hand, hand \ {s}, X, Y)
    BY <1>1, <1>7, <1>10, <1>13, <1>18, <1>19, <2>1, <2>2 DEF Changed, k
  <2>. QED  BY <2>3, Change
<1>20. Keeps(p, q)
  BY <1>4, <1>7 DEF Keeps, SameButLists, k
<1>. QED  BY <1>4, <1>7, <1>17, <1>19, <1>20 DEF Delivered, SameButLists, k

\* A queue is resumed when something has ended.
LEMMA ResumeOK ==
    ASSUME NEW p, NEW hand, NEW X, NEW c \in DOMAIN p.conns, PoolOK(p, hand, X \cup {c}),
           ~Pending(p.conns[c]), p.conns[c].alpn = "h2", p.conns[c].status = "open",
           \A t \in p.conns[c].busy : p.stream[t].state = "sent"
    PROVE  Serves(p, ResumeQueue(p, c), c, hand, X)
<1> DEFINE k == p.conns[c]
           q == ResumeQueue(p, c)
<1>1. /\ p \in Pool /\ Healthy(p) /\ ConnOK(p.stream, k) /\ Placed(p, hand)
  BY DEF PoolOK
<1>2. /\ k \in Connection /\ k.queue \in Seq(Streams) /\ k.busy \subseteq Streams
      /\ k.waiting \in Seq(Streams)
  BY <1>1, PoolFields, ConnectionFields
<1>3. PICK r : q = SetConn(p, c, r) /\ Resumption(k, r, p.stream)
  BY <1>1, Resume DEF ConnOK, ListsOK
<1> HIDE DEF q
<1>4. /\ r \in Connection /\ SameButLists(k, r)
      /\ IsFiniteSet(r.busy) /\ IsInjective(r.queue) /\ r.busy \cap Elems(r.queue) = {}
      /\ k.busy \subseteq r.busy
      /\ \A s \in r.busy : s \in k.busy \/ (s \in Elems(k.queue) /\ ~p.stream[s].left)
      /\ Elems(r.queue) \subseteq Elems(k.queue)
      /\ \A s \in Elems(k.queue) : s \in r.busy \cup Elems(r.queue) \/ p.stream[s].left
      /\ r.queue # <<>> => ~HasFree(r)
  BY <1>3 DEF Resumption
<1>5. /\ q \in Pool /\ DOMAIN q.conns = DOMAIN p.conns /\ q.conns[c] = r
      /\ \A d \in DOMAIN p.conns : d # c => q.conns[d] = p.conns[d]
      /\ q.stream = p.stream /\ q.context = p.context /\ Healthy(q)
  <2>1. IsSetConn(p, q, c, r)
    BY <1>1, <1>3, <1>4, SetConnIs
  <2>. QED  BY <1>1, <2>1 DEF IsSetConn
<1>6. k.waiting = <<>> /\ r.waiting = <<>> /\ r.alpn = "h2" /\ r.status = "open" /\ r.stage = "done"
      /\ Elems(<<>>) = {} /\ r.addr = k.addr
  BY <1>1, <1>4 DEF ConnOK, ListsOK, Pending, SameButLists, Elems
<1>7. \A s \in Elems(k.queue) : s \in Streams /\ p.stream[s].state \in {"sent", "reset"}
  BY <1>1, <1>2 DEF ConnOK, StatesOK, Elems
<1>8. \A s \in Streams : /\ p.stream[s].state = "sent" => ~p.stream[s].left
                         /\ p.stream[s].state = "reset" => p.stream[s].left
  BY <1>1 DEF Placed, PlacedOne
<1> HIDE DEF k
<1>9. \A s \in r.busy : p.stream[s].state = "sent"
  BY <1>4, <1>7, <1>8 DEF k
<1>10. ConnOK(q.stream, r)
  <2>1. StageOK(r)
    BY <1>1, <1>4 DEF ConnOK, StageOK, SameButLists
  <2>2. ListsOK(r)
    <3>1. IsInjective(<<>>)
      BY DEF IsInjective
    <3>. QED  BY <3>1, <1>4, <1>6 DEF ListsOK, Pending
  <2>3. StatesOK(q.stream, r)
    BY <1>4, <1>5, <1>6, <1>7, <1>9 DEF StatesOK
  <2>. QED  BY <2>1, <2>2, <2>3 DEF ConnOK
<1>11. Settled(q.stream, r)
  BY <1>4, <1>5, <1>6, <1>9 DEF Settled
<1>12. /\ \A t \in Streams : t \in Has(r) => t \in Has(k)
       /\ \A t \in Streams : t \in Has(k) /\ t \notin Has(r) => p.stream[t].state # "sent"
  BY <1>4, <1>8 DEF Has
<1>13. Changed(p, q, {c}, {}, hand, hand, X \cup {c}, X)
  BY <1>1, <1>5, <1>6, <1>10, <1>11, <1>12 DEF Changed, k
<1>14. PoolOK(q, hand, X)
  BY <1>13, Change
<1>15. Keeps(p, q)
  BY <1>4, <1>5 DEF Keeps, SameButLists, k
<1>. QED  BY <1>1, <1>4, <1>5, <1>14, <1>15 DEF Serves, SameButLists, q, k

Without(p, c, s) == SetConn(p, c, WithBusy(p.conns[c], p.conns[c].busy \ {s}))

\* A connection loses a stream that is in no state that would be missed.
IsWithout(p, q, c, s, hand, X) ==
    /\ PoolOK(q, hand, X \cup {c}) /\ Keeps(p, q) /\ DOMAIN q.conns = DOMAIN p.conns
    /\ q.stream = p.stream /\ SameButLists(p.conns[c], q.conns[c])
    /\ q.conns[c].busy = p.conns[c].busy \ {s} /\ q.conns[c].queue = p.conns[c].queue

LEMMA WithoutOK ==
    ASSUME NEW p, NEW hand, NEW X, NEW c \in DOMAIN p.conns, PoolOK(p, hand, X \cup {c}),
           NEW s \in Streams, p.stream[s].state # "sent"
    PROVE  IsWithout(p, Without(p, c, s), c, s, hand, X)
<1> DEFINE k == p.conns[c]
           q == Without(p, c, s)
<1>1. /\ p \in Pool /\ Healthy(p) /\ ConnOK(p.stream, k)
  BY DEF PoolOK
<1>2. /\ k \in Connection /\ k.busy \ {s} \in SUBSET Streams
  BY <1>1, PoolFields, ConnectionFields
<1> DEFINE r == WithBusy(k, k.busy \ {s})
<1>3. q = SetConn(p, c, r)
  BY DEF Without
<1> HIDE DEF q
<1>4. r \in Connection /\ r.busy = k.busy \ {s} /\ r.queue = k.queue /\ SameButLists(k, r)
  BY <1>2, WithBusyIs
<1>5. /\ q \in Pool /\ DOMAIN q.conns = DOMAIN p.conns /\ q.conns[c] = r
      /\ \A d \in DOMAIN p.conns : d # c => q.conns[d] = p.conns[d]
      /\ q.stream = p.stream /\ q.context = p.context /\ Healthy(q)
  <2>1. IsSetConn(p, SetConn(p, c, r), c, r)
    BY <1>1, <1>4, SetConnIs
  <2>2. IsSetConn(p, q, c, r)
    BY <1>3, <2>1
  <2> HIDE DEF r
  <2>. QED  BY <1>1, <2>2 DEF IsSetConn
<1> HIDE DEF r
<1> HIDE DEF k
<1>6. ConnOK(q.stream, r)
  <2>1. StageOK(r)
    BY <1>1, <1>4 DEF ConnOK, StageOK, SameButLists
  <2>2. ListsOK(r)
    <3>1. IsFiniteSet(r.busy)
      <4>1. IsFiniteSet(k.busy)
        BY <1>1 DEF ConnOK, ListsOK
      <4>2. IsFiniteSet(k.busy \ {s})
        BY <4>1, FS_RemoveElement
      <4>. QED  BY <1>4, <4>2
    <3>. QED  BY <3>1, <1>1, <1>4 DEF ConnOK, ListsOK, SameButLists, Pending
  <2>3. StatesOK(q.stream, r)
    BY <1>1, <1>4, <1>5 DEF ConnOK, StatesOK, SameButLists
  <2>. QED  BY <2>1, <2>2, <2>3 DEF ConnOK
<1>7. /\ r.addr = k.addr /\ r.waiting = k.waiting
      /\ \A t \in Streams : t \in Has(r) => t \in Has(k)
      /\ \A t \in Streams : t \in Has(k) /\ t \notin Has(r) => p.stream[t].state # "sent"
  BY <1>4 DEF Has, SameButLists
<1>8. Changed(p, q, {c}, {}, hand, hand, X \cup {c}, X \cup {c})
  BY <1>1, <1>5, <1>6, <1>7 DEF Changed, k
<1>9. PoolOK(q, hand, X \cup {c})
  BY <1>8, Change
<1>10. Keeps(p, q)
  BY <1>4, <1>5 DEF Keeps, SameButLists, k
<1>. QED  BY <1>4, <1>5, <1>9, <1>10 DEF IsWithout, k, q

\* A connection closes, and nothing is in flight on it any more.
ClosedConn(k) == [k EXCEPT !.status = "closed", !.busy = {}]

IsClosedConn(k, r) ==
    /\ r \in Connection /\ r.status = "closed" /\ r.busy = {} /\ r.queue = k.queue
    /\ r.addr = k.addr /\ r.error = k.error /\ r.alpn = k.alpn /\ r.stage = k.stage
    /\ r.gone = k.gone /\ r.waiting = k.waiting /\ r.limit = k.limit

LEMMA ClosedConnIs ==
    ASSUME NEW k \in Connection
    PROVE  IsClosedConn(k, ClosedConn(k))
BY DEF IsClosedConn, ClosedConn, Connection, Status

\* RequestProtocolError: an HTTP/1 connection closes, an HTTP/2 queue is resumed.
LEMMA ResetOK ==
    ASSUME NEW p, NEW hand, NEW X, NEW c \in DOMAIN p.conns, PoolOK(p, hand, X \cup {c}),
           ~Pending(p.conns[c]), NEW s \in Streams, p.stream[s].state = "reset",
           p.conns[c].status = "closed" => c \in X \/ Settled(p.stream, p.conns[c]),
           p.conns[c].status = "open" =>
              \A t \in p.conns[c].busy : t # s => p.stream[t].state = "sent",
           p.conns[c].alpn = "h1" => p.conns[c].busy \subseteq {s}
    PROVE  Serves(p, Reset(p, s, c), c, hand, X)
<1> DEFINE k == p.conns[c]
           q == Reset(p, s, c)
<1>1. /\ p \in Pool /\ Healthy(p) /\ ConnOK(p.stream, k)
  BY DEF PoolOK
<1>2. /\ k \in Connection /\ k.status \in Status /\ k.alpn \in Protocols
      /\ k.waiting \in Seq(Streams)
  BY <1>1, PoolFields, ConnectionFields
<1>3. CASE k.status = "closed"
  <2>1. q = p
    BY <1>3 DEF Reset
  <2>2. PoolOK(p, hand, X)
    BY <1>3 DEF PoolOK
  <2>. QED  BY <2>1, <2>2, <1>1 DEF Serves, Keeps
<1>4. CASE k.status = "open" /\ k.alpn = "h1"
  <2> DEFINE r == ClosedConn(k)
  <2>1. q = SetConn(p, c, r)
    BY <1>4 DEF Reset, SetConn, ClosedConn
  <2> HIDE DEF q
  <2>2. /\ r \in Connection /\ r.status = "closed" /\ r.busy = {} /\ r.queue = k.queue
        /\ r.addr = k.addr /\ r.error = k.error /\ r.alpn = k.alpn /\ r.stage = k.stage
        /\ r.gone = k.gone /\ r.waiting = k.waiting /\ r.limit = k.limit
    <3>1. IsClosedConn(k, r)
      BY <1>2, ClosedConnIs
    <3> HIDE DEF k, r
    <3>. QED  BY <3>1 DEF IsClosedConn
  <2> HIDE DEF r
  <2>3. /\ q \in Pool /\ DOMAIN q.conns = DOMAIN p.conns /\ q.conns[c] = r
        /\ \A d \in DOMAIN p.conns : d # c => q.conns[d] = p.conns[d]
        /\ q.stream = p.stream /\ q.context = p.context /\ Healthy(q)
    <3>1. IsSetConn(p, q, c, r)
      BY <1>1, <2>1, <2>2, SetConnIs
    <3>. QED  BY <1>1, <3>1 DEF IsSetConn
  <2>4. k.waiting = <<>> /\ k.queue = <<>> /\ k.stage = "done"
    BY <1>1, <1>4 DEF ConnOK, ListsOK, Pending
  <2>5. ConnOK(q.stream, r)
    <3>1. StageOK(r)
      BY <2>2, <2>4 DEF StageOK
    <3>2. ListsOK(r)
      <4>1. IsFiniteSet(r.busy)
        BY <2>2, FS_EmptySet
      <4>. QED  BY <4>1, <1>1, <2>2, <2>4 DEF ConnOK, ListsOK, Pending
    <3>3. StatesOK(q.stream, r)
      BY <1>1, <2>2, <2>3 DEF ConnOK, StatesOK
    <3>. QED  BY <3>1, <3>2, <3>3 DEF ConnOK
  <2>6. Settled(q.stream, r)
    BY <2>2 DEF Settled
  <2>7. /\ \A t \in Streams : t \in Has(r) => t \in Has(k)
        /\ \A t \in Streams : t \in Has(k) /\ t \notin Has(r) => p.stream[t].state # "sent"
    BY <1>4, <2>2, <2>4 DEF Has, Elems
  <2> HIDE DEF k
  <2>8. Changed(p, q, {c}, {}, hand, hand, X \cup {c}, X)
    BY <1>1, <2>2, <2>3, <2>5, <2>6, <2>7 DEF Changed, k
  <2>9. PoolOK(q, hand, X)
    BY <2>8, Change
  <2>10. Keeps(p, q)
    BY <2>2, <2>3 DEF Keeps, k
  <2>. QED  BY <1>4, <2>3, <2>9, <2>10 DEF Serves, k, q
<1>5. CASE k.status = "open" /\ k.alpn = "h2"
  <2> DEFINE p1 == Without(p, c, s)
  <2>1. q = ResumeQueue(p1, c)
    BY <1>5 DEF Reset, Without, SetConn, WithBusy
  <2>2. /\ PoolOK(p1, hand, X \cup {c}) /\ Keeps(p, p1) /\ DOMAIN p1.conns = DOMAIN p.conns
        /\ p1.stream = p.stream /\ SameButLists(k, p1.conns[c])
        /\ p1.conns[c].busy = k.busy \ {s}
    <3>1. p.stream[s].state # "sent"
      OBVIOUS
    <3>2. IsWithout(p, p1, c, s, hand, X)
      BY <3>1, WithoutOK
    <3> HIDE DEF p1
    <3>. QED  BY <3>2 DEF IsWithout
  <2> HIDE DEF p1, q
  <2>3. /\ ~Pending(p1.conns[c]) /\ p1.conns[c].alpn = "h2" /\ p1.conns[c].status = "open"
        /\ \A t \in p1.conns[c].busy : p1.stream[t].state = "sent"
    BY <1>5, <2>2 DEF SameButLists, Pending
  <2>4. Serves(p1, q, c, hand, X)
    BY <2>1, <2>2, <2>3, ResumeOK
  <2>. QED  BY <1>5, <2>2, <2>3, <2>4 DEF Serves, Keeps, q
<1>. QED  BY <1>2, <1>3, <1>4, <1>5 DEF Status, Protocols

\* The reply (connection, None).
LEMMA UseOK ==
    ASSUME NEW p, NEW hand, NEW X, PoolOK(p, hand, X),
           NEW s \in Streams, s \in hand, NEW c \in DOMAIN p.conns,
           ~Pending(p.conns[c]), p.conns[c].alpn = "h1" => p.conns[c].busy = {},
           c \in X <=> p.conns[c].status = "closed"
    PROVE  Serves(p, Use(p, s, c), c, hand \ {s}, X)
<1> DEFINE q == Use(p, s, c)
           p1 == Deliver(Outcome(p, s, "sent"), s, c)
<1>1. p \in Pool /\ p.stream[s].state = "waiting"
  BY HandApart DEF PoolOK
<1>2. Replied(p, s, "sent") = Outcome(p, s, "sent")
  BY <1>1 DEF Replied
<1>3. CASE ~p.stream[s].left
  <2>1. q = p1
    BY <1>2, <1>3 DEF Use
  <2>2. Handed(p, q, s, c, "sent")
    BY <1>3, <2>1 DEF Handed
  <2>3. "sent" \in {"sent", "reset"}
    OBVIOUS
  <2> HIDE DEF p1, q
  <2>4. Delivered(p, q, s, c, "sent", hand, X)
    BY <2>2, <2>3, DeliverOK
  <2>. QED  BY <2>4 DEF Delivered, Serves, q
<1>4. CASE p.stream[s].left
  <2> DEFINE p2 == Outcome(p1, s, "reset")
  <2>1. q = Reset(p2, s, c)
    BY <1>2, <1>4 DEF Use
  <2>2. /\ PoolOK(p2, hand \ {s}, X \cup {c})
        /\ Keeps(p, p2) /\ DOMAIN p2.conns = DOMAIN p.conns
        /\ p2.conns[c].status = p.conns[c].status
        /\ p2.stream[s].state = "reset"
        /\ p2.conns[c].busy \subseteq p.conns[c].busy \cup {s}
        /\ \A t \in Streams : t # s => p2.stream[t] = p.stream[t]
    <3>1. "reset" \in {"sent", "reset"}
      OBVIOUS
    <3>2. Handed(p, p2, s, c, "reset")
      BY <1>4 DEF Handed
    <3> HIDE DEF p2
    <3>3. Delivered(p, p2, s, c, "reset", hand, X)
      BY <3>1, <3>2, DeliverOK
    <3>. QED  BY <3>3 DEF Delivered
  <2>3. /\ p.conns[c] \in Connection /\ p.conns[c].busy \subseteq Streams
        /\ p.conns[c].status \in Status
    BY <1>1, PoolFields, ConnectionFields
  <2> HIDE DEF p2, q
  <2>4. /\ ~Pending(p2.conns[c]) /\ p2.conns[c].alpn = p.conns[c].alpn
    BY <2>2 DEF Keeps, Pending
  <2>5. p2.conns[c].status = "open" =>
          \A t \in p2.conns[c].busy : t # s => p2.stream[t].state = "sent"
    <3>1. ASSUME p2.conns[c].status = "open" PROVE Settled(p.stream, p.conns[c])
      BY <2>2, <3>1 DEF PoolOK
    <3>. QED  BY <2>2, <2>3, <3>1 DEF Settled
  <2>6. p2.conns[c].alpn = "h1" => p2.conns[c].busy \subseteq {s}
    BY <2>2, <2>4
  <2>7. Serves(p2, q, c, hand \ {s}, X)
    BY <2>1, <2>2, <2>4, <2>5, <2>6, ResetOK
  <2>. QED  BY <2>2, <2>4, <2>7 DEF Serves, Keeps, q
<1>. QED  BY <1>3, <1>4

------------------------------------------------------------------------------
(* New connections.                                                                      *)

\* A connection is added: those that wait for it are not in hand any more.
Grown(p, q, n, hand, X) ==
    LET k == q.conns[n] IN
    /\ q \in Pool /\ Healthy(q) /\ ContextOK(q) /\ q.stream = p.stream
    /\ n \notin DOMAIN p.conns /\ n \notin X /\ DOMAIN q.conns = DOMAIN p.conns \cup {n}
    /\ \A d \in DOMAIN p.conns : q.conns[d] = p.conns[d]
    /\ ConnOK(q.stream, k) /\ Settled(q.stream, k)
    /\ Has(k) = {} /\ Elems(k.waiting) \subseteq hand

LEMMA GrownOK ==
    ASSUME NEW p, NEW hand, NEW X, PoolOK(p, hand, X), NEW q, NEW n, Grown(p, q, n, hand, X)
    PROVE  PoolOK(q, hand \ Elems(q.conns[n].waiting), X) /\ Keeps(p, q)
<1> DEFINE k == q.conns[n]
<1>1. /\ q \in Pool /\ Healthy(q) /\ ContextOK(q) /\ q.stream = p.stream
      /\ n \notin DOMAIN p.conns /\ n \notin X /\ DOMAIN q.conns = DOMAIN p.conns \cup {n}
      /\ \A d \in DOMAIN p.conns : q.conns[d] = p.conns[d]
      /\ ConnOK(q.stream, k) /\ Settled(q.stream, k)
      /\ Has(k) = {} /\ Elems(k.waiting) \subseteq hand
  BY DEF Grown
<1>2. /\ p \in Pool /\ Apart(p.conns) /\ Placed(p, hand) /\ Solo(p)
      /\ \A c \in DOMAIN p.conns :
          /\ ConnOK(p.stream, p.conns[c])
          /\ c \notin X => Settled(p.stream, p.conns[c])
  BY DEF PoolOK
<1>3. \A c \in DOMAIN p.conns : \A t \in hand :
         t \in Streams => t \notin Elems(p.conns[c].waiting)
  BY <1>2 DEF Placed, PlacedOne
<1>4. \A c \in DOMAIN p.conns : Elems(p.conns[c].waiting) \subseteq Streams
  BY <1>2, PoolFields, ConnectionFields DEF Elems
<1> HIDE DEF k
<1>5. Apart(q.conns)
  <2> SUFFICES ASSUME NEW c \in DOMAIN q.conns, NEW d \in DOMAIN q.conns, c # d
               PROVE  /\ Elems(q.conns[c].waiting) \cap Elems(q.conns[d].waiting) = {}
                      /\ Has(q.conns[c]) \cap Has(q.conns[d]) = {}
    BY DEF Apart
  <2>1. CASE c = n
    <3>1. d \in DOMAIN p.conns /\ q.conns[d] = p.conns[d] /\ q.conns[c] = k
      BY <1>1, <2>1 DEF k
    <3>. QED  BY <1>1, <1>3, <1>4, <3>1
  <2>2. CASE d = n
    <3>1. c \in DOMAIN p.conns /\ q.conns[c] = p.conns[c] /\ q.conns[d] = k
      BY <1>1, <2>2 DEF k
    <3>. QED  BY <1>1, <1>3, <1>4, <3>1
  <2>3. CASE c # n /\ d # n
    BY <1>1, <1>2, <2>3 DEF Apart
  <2>. QED  BY <2>1, <2>2, <2>3
<1>6. Placed(q, hand \ Elems(k.waiting))
  <2> SUFFICES ASSUME NEW t \in Streams PROVE PlacedOne(q, hand \ Elems(k.waiting), t)
    BY DEF Placed
  <2>1. PlacedOne(p, hand, t)
    BY <1>2 DEF Placed
  <2>2. (\E c \in DOMAIN p.conns : t \in Has(p.conns[c])) =>
           \E c \in DOMAIN q.conns : t \in Has(q.conns[c])
    BY <1>1
  <2>3. (\A c \in DOMAIN q.conns : t \notin Elems(q.conns[c].waiting)) <=>
           /\ \A c \in DOMAIN p.conns : t \notin Elems(p.conns[c].waiting)
           /\ t \notin Elems(k.waiting)
    BY <1>1 DEF k
  <2>. QED  BY <1>1, <2>1, <2>2, <2>3 DEF PlacedOne
<1>7. Solo(q)
  BY <1>1, <1>2 DEF Solo, Active
<1>8. ASSUME NEW c \in DOMAIN q.conns
      PROVE  ConnOK(q.stream, q.conns[c]) /\ (c \notin X => Settled(q.stream, q.conns[c]))
  BY <1>1, <1>2, <1>8 DEF k
<1>9. PoolOK(q, hand \ Elems(k.waiting), X)
  BY <1>1, <1>5, <1>6, <1>7, <1>8 DEF PoolOK
<1>10. Keeps(p, q)
  BY <1>1 DEF Keeps
<1>. QED  BY <1>9, <1>10 DEF k

IsEntry(k, addr, status, protocol, waiting) ==
    /\ k \in Connection /\ k.addr = addr /\ k.status = status /\ k.alpn = protocol
    /\ ~k.error /\ ~k.gone /\ k.busy = {} /\ k.queue = <<>>
    /\ k.waiting = waiting
    /\ k.stage = IF waiting = <<>> THEN "done" ELSE "connect"

LEMMA EntryIs ==
    ASSUME NEW addr \in Addrs \cup {NoAddr}, NEW status \in Status, NEW protocol \in Protocols,
           NEW waiting \in Seq(Streams)
    PROVE  IsEntry(Entry(addr, status, protocol, waiting), addr, status, protocol, waiting)
BY LimitAssumption DEF IsEntry, Entry, Connection, Stages

\* An entry is in order when its streams are waiting.
EntryInOrder(stream, k) == ConnOK(stream, k) /\ Settled(stream, k) /\ Has(k) = {}

LEMMA EntryOK ==
    ASSUME NEW k, NEW addr, NEW status, NEW protocol, NEW waiting, IsInjective(waiting),
           IsEntry(k, addr, status, protocol, waiting),
           NEW stream, \A t \in Elems(waiting) : stream[t].state = "waiting"
    PROVE  EntryInOrder(stream, k)
<1>1. /\ ~k.error /\ ~k.gone /\ k.busy = {} /\ k.queue = <<>>
      /\ k.waiting = waiting
      /\ k.stage = IF waiting = <<>> THEN "done" ELSE "connect"
  BY DEF IsEntry
<1>2. IsFiniteSet({}) /\ IsInjective(<<>>) /\ Elems(<<>>) = {}
  BY FS_EmptySet DEF IsInjective, Elems
<1>3. StageOK(k)
  BY <1>1 DEF StageOK
<1>4. ListsOK(k)
  BY <1>1, <1>2 DEF ListsOK, Pending
<1>5. StatesOK(stream, k)
  BY <1>1, <1>2 DEF StatesOK
<1>6. Settled(stream, k) /\ Has(k) = {}
  BY <1>1, <1>2 DEF Settled, Has
<1>. QED  BY <1>3, <1>4, <1>5, <1>6 DEF EntryInOrder, ConnOK

\* context.server as it enters the pool.
ContextEntry(p) == Entry(p.context.addr, p.context.status, p.context.alpn, <<>>)

IsAdoption(p, q) ==
    LET n == Len(p.conns) + 1 IN
    /\ q \in Pool /\ n \notin DOMAIN p.conns /\ DOMAIN q.conns = DOMAIN p.conns \cup {n}
    /\ q.conns[n] = ContextEntry(p)
    /\ \A d \in DOMAIN p.conns : q.conns[d] = p.conns[d]
    /\ q.stream = p.stream /\ (Healthy(p) => Healthy(q))
    /\ q.context.known /\ q.context.status = p.context.status
    /\ q.context.addr = p.context.addr /\ (q.context.error <=> p.context.error)

LEMMA AdoptIs ==
    ASSUME NEW p \in Pool
    PROVE  IsAdoption(p, Adopt(p)) /\ ContextEntry(p) \in Connection
<1> DEFINE p1 == Push(p, ContextEntry(p))
           v == [p.context EXCEPT !.known = TRUE]
<1>1. p.context \in Context
  BY PoolFields
<1>2. /\ p.context.addr \in Addrs \cup {NoAddr} /\ p.context.status \in Status
      /\ p.context.alpn \in Protocols
  BY <1>1 DEF Context
<1>3. ContextEntry(p) \in Connection
  <2>1. <<>> \in Seq(Streams)
    OBVIOUS
  <2>. QED  BY <1>2, <2>1, EntryIs DEF ContextEntry, IsEntry
<1>4. IsPush(p, p1, ContextEntry(p))
  BY <1>3, PushIs
<1>5. Adopt(p) = [p1 EXCEPT !.context = v]
  BY DEF Adopt, Push, ContextEntry, Pool
<1>6. /\ v \in Context /\ v.known = TRUE /\ v.status = p.context.status
      /\ v.addr = p.context.addr /\ v.error = p.context.error
  BY <1>1 DEF Context
<1> HIDE DEF v, p1
<1>7. p1 \in Pool
  BY <1>4 DEF IsPush
<1>8. /\ Adopt(p) \in Pool /\ Adopt(p).context = v
      /\ Adopt(p).conns = p1.conns /\ Adopt(p).stream = p1.stream
      /\ (Healthy(p1) => Healthy(Adopt(p)))
  BY <1>5, <1>6, <1>7 DEF Pool, Healthy
<1>. QED  BY <1>3, <1>4, <1>6, <1>8 DEF IsPush, IsAdoption

\* context.server is in the pool once at most.
LEMMA AdoptOK ==
    ASSUME NEW p, NEW hand, NEW X, PoolOK(p, hand, X), X \subseteq DOMAIN p.conns,
           ~p.context.known, p.context.status = "open"
    PROVE  PoolOK(Adopt(p), hand, X) /\ Keeps(p, Adopt(p)) /\ IsAdoption(p, Adopt(p))
<1> DEFINE q == Adopt(p)
           n == Len(p.conns) + 1
           k == ContextEntry(p)
<1>1. p \in Pool /\ Healthy(p) /\ ContextOK(p) /\ p.context \in Context
  BY PoolFields DEF PoolOK
<1>2. IsAdoption(p, q)
  BY <1>1, AdoptIs
<1> HIDE DEF q
<1>3. /\ p.context.addr \in Addrs \cup {NoAddr} /\ p.context.status \in Status
      /\ p.context.alpn \in Protocols /\ <<>> \in Seq(Streams)
      /\ IsInjective(<<>>) /\ Elems(<<>>) = {}
  BY <1>1 DEF Context, IsInjective, Elems
<1>4. ConnOK(q.stream, k) /\ Settled(q.stream, k) /\ Has(k) = {} /\ k.waiting = <<>>
  <2>1. IsEntry(k, p.context.addr, p.context.status, p.context.alpn, <<>>)
    BY <1>3, EntryIs DEF ContextEntry
  <2> HIDE DEF k
  <2>2. EntryInOrder(q.stream, k)
    BY <1>3, <2>1, EntryOK
  <2>. QED  BY <2>1, <2>2 DEF IsEntry, EntryInOrder
<1> HIDE DEF k
<1>5. ContextOK(q)
  BY <1>1, <1>2 DEF IsAdoption, ContextOK
<1>6. Grown(p, q, n, hand, X)
  BY <1>1, <1>2, <1>3, <1>4, <1>5 DEF IsAdoption, Grown, k
<1>7. PoolOK(q, hand \ Elems(q.conns[n].waiting), X) /\ Keeps(p, q)
  <2> HIDE DEF n
  <2>. QED  BY <1>6, GrownOK
<1>8. hand \ Elems(q.conns[n].waiting) = hand
  BY <1>2, <1>3, <1>4 DEF IsAdoption, k
<1>. QED  BY <1>2, <1>7, <1>8 DEF q

\* A reply that may take a new connection for the stream.
Made(p, q, s, hand, X) ==
    /\ PoolOK(q, hand \ {s}, X) /\ Keeps(p, q)
    /\ \A c \in DOMAIN q.conns \ DOMAIN p.conns : q.conns[c].addr = p.stream[s].addr

\* A connection is opened for the stream, which waits for it.
LEMMA OpenOK ==
    ASSUME NEW p, NEW hand, NEW X, PoolOK(p, hand, X), X \subseteq DOMAIN p.conns,
           NEW s \in Streams, s \in hand,
           p.context.status = "open" /\ ~p.context.known =>
              p.context.addr # p.stream[s].addr
    PROVE  Made(p, Open(p, s), s, hand, X)
<1> DEFINE q == Open(p, s)
           n == Len(p.conns) + 1
           k == Entry(p.stream[s].addr, "closed", "h1", <<s>>)
<1>1. p \in Pool /\ Healthy(p) /\ ContextOK(p) /\ p.stream[s] \in Stream
  BY PoolFields DEF PoolOK
<1>2. p.stream[s].state = "waiting"
  BY HandApart
<1>3. /\ p.stream[s].addr \in Addrs \cup {NoAddr} /\ "closed" \in Status /\ "h1" \in Protocols
      /\ <<s>> \in Seq(Streams) /\ IsInjective(<<s>>) /\ Elems(<<s>>) = {s} /\ <<s>> # <<>>
  BY <1>1 DEF Stream, Status, Protocols, IsInjective, Elems
<1>4. /\ k \in Connection /\ ConnOK(p.stream, k) /\ Settled(p.stream, k) /\ Has(k) = {}
      /\ k.waiting = <<s>> /\ k.addr = p.stream[s].addr
  <2>1. IsEntry(k, p.stream[s].addr, "closed", "h1", <<s>>)
    BY <1>3, EntryIs
  <2> HIDE DEF k
  <2>2. \A t \in Elems(<<s>>) : p.stream[t].state = "waiting"
    BY <1>2, <1>3
  <2>3. EntryInOrder(p.stream, k)
    BY <1>3, <2>1, <2>2, EntryOK
  <2>. QED  BY <2>1, <2>3 DEF IsEntry, EntryInOrder
<1>5. q = Push(p, k)
  BY DEF Open, Push
<1> HIDE DEF q, k
<1>6. IsPush(p, q, k)
  BY <1>1, <1>4, <1>5, PushIs
<1>7. ContextOK(q)
  BY <1>1, <1>4, <1>6 DEF IsPush, ContextOK
<1>8. Grown(p, q, n, hand, X)
  BY <1>1, <1>3, <1>4, <1>6, <1>7 DEF IsPush, Grown
<1>9. PoolOK(q, hand \ Elems(q.conns[n].waiting), X) /\ Keeps(p, q)
  <2> HIDE DEF n
  <2>. QED  BY <1>8, GrownOK
<1>10. hand \ Elems(q.conns[n].waiting) = hand \ {s}
  BY <1>3, <1>4, <1>6 DEF IsPush
<1>11. \A c \in DOMAIN q.conns \ DOMAIN p.conns : q.conns[c].addr = p.stream[s].addr
  BY <1>4, <1>6 DEF IsPush
<1>. QED  BY <1>9, <1>10, <1>11 DEF Made, q

\* get_connection without reuse.
LEMMA MakeConnectionOK ==
    ASSUME NEW p, NEW hand, NEW X, PoolOK(p, hand, X), X \subseteq DOMAIN p.conns,
           NEW s \in Streams, s \in hand
    PROVE  Made(p, MakeConnection(p, s), s, hand, X)
<1> DEFINE matches == ~p.context.known /\ p.context.addr = p.stream[s].addr
           q == MakeConnection(p, s)
<1>1. /\ p \in Pool /\ ContextOK(p) /\ p.context.status \in Status
      /\ p.context.error \in BOOLEAN
  BY PoolFields DEF PoolOK, Context
<1>2. CASE matches /\ p.context.error
  <2>1. q = Fail(p, s)
    BY <1>2 DEF MakeConnection
  <2> HIDE DEF q
  <2>2. /\ PoolOK(Fail(p, s), hand \ {s}, X) /\ Keeps(p, Fail(p, s))
        /\ DOMAIN Fail(p, s).conns = DOMAIN p.conns
    BY FailOK
  <2>. QED  BY <2>1, <2>2 DEF Made, q
<1>3. CASE matches /\ ~p.context.error /\ p.context.status = "open"
  <2> DEFINE p1 == Adopt(p)
             n == Len(p.conns) + 1
  <2>1. q = Use(p1, s, n)
    BY <1>3 DEF MakeConnection
  <2>2. PoolOK(p1, hand, X) /\ Keeps(p, p1) /\ IsAdoption(p, p1)
    BY <1>3, AdoptOK
  <2> HIDE DEF p1, q
  <2>3. /\ n \in DOMAIN p1.conns /\ n \notin X /\ p1.conns[n] = ContextEntry(p)
        /\ DOMAIN p1.conns = DOMAIN p.conns \cup {n}
    BY <2>2 DEF IsAdoption
  <2>4. /\ p.context.addr \in Addrs \cup {NoAddr} /\ p.context.status \in Status
        /\ p.context.alpn \in Protocols /\ <<>> \in Seq(Streams)
    BY <1>1, PoolFields DEF Context
  <2>5. LET k == ContextEntry(p)
        IN  ~Pending(k) /\ k.busy = {} /\ k.status = "open" /\ k.addr = p.context.addr
    <3>1. IsEntry(ContextEntry(p), p.context.addr, p.context.status, p.context.alpn, <<>>)
      BY <2>4, EntryIs DEF ContextEntry
    <3>. QED  BY <1>3, <3>1 DEF IsEntry, Pending
  <2> HIDE DEF n
  <2>6. Serves(p1, q, n, hand \ {s}, X)
    BY <2>1, <2>2, <2>3, <2>5, UseOK
  <2>7. ASSUME NEW c \in DOMAIN q.conns \ DOMAIN p.conns
        PROVE  q.conns[c].addr = p.stream[s].addr
    BY <1>3, <2>3, <2>5, <2>6 DEF Serves, Keeps
  <2>. QED  BY <2>2, <2>6, <2>7 DEF Serves, Made, Keeps, q
<1>4. CASE ~(matches /\ p.context.error)
           /\ ~(matches /\ ~p.context.error /\ p.context.status = "open")
  <2>1. q = Open(p, s)
    BY <1>4 DEF MakeConnection
  <2>2. p.context.status = "open" /\ ~p.context.known => p.context.addr # p.stream[s].addr
    BY <1>1, <1>4 DEF ContextOK
  <2> HIDE DEF q, matches
  <2>. QED  BY <2>1, <2>2, OpenOK DEF q
<1>. QED  BY <1>2, <1>3, <1>4

LEMMA LeastIs ==
    ASSUME NEW T \in SUBSET Nat, T # {}
    PROVE  Min(T) \in T
<1>1. \E m \in T : \A k \in T : m <= k
  BY LeastNatural
<1>. QED  BY <1>1 DEF Min

WithWaiting(k, waiting) == [k EXCEPT !.waiting = waiting]

IsWithWaiting(k, r, waiting) ==
    /\ r \in Connection /\ r.waiting = waiting
    /\ r.addr = k.addr /\ r.status = k.status /\ r.error = k.error /\ r.alpn = k.alpn
    /\ r.stage = k.stage /\ r.gone = k.gone /\ r.limit = k.limit
    /\ r.busy = k.busy /\ r.queue = k.queue

LEMMA WithWaitingIs ==
    ASSUME NEW k \in Connection, NEW waiting \in Seq(Streams)
    PROVE  IsWithWaiting(k, WithWaiting(k, waiting), waiting)
BY DEF IsWithWaiting, WithWaiting, Connection

\* A stream joins those that wait for a connection that is being opened.
LEMMA WaitOK ==
    ASSUME NEW p, NEW hand, NEW X, PoolOK(p, hand, X), NEW s \in Streams, s \in hand,
           NEW c \in DOMAIN p.conns, Pending(p.conns[c])
    PROVE  LET w == Append(p.conns[c].waiting, s)
               q == SetConn(p, c, WithWaiting(p.conns[c], w))
           IN  Made(p, q, s, hand, X)
<1> DEFINE k == p.conns[c]
           w == Append(k.waiting, s)
           q == SetConn(p, c, WithWaiting(k, w))
<1>1. /\ p \in Pool /\ Healthy(p) /\ ConnOK(p.stream, k) /\ Placed(p, hand)
      /\ c \notin X => Settled(p.stream, k)
  BY DEF PoolOK
<1>2. /\ p.stream[s].state = "waiting"
      /\ \A d \in DOMAIN p.conns : s \notin Elems(p.conns[d].waiting) /\ s \notin Has(p.conns[d])
  BY HandApart
<1>3. k \in Connection /\ k.waiting \in Seq(Streams)
  BY <1>1, PoolFields, ConnectionFields
<1>4. /\ w \in Seq(Streams) /\ w # <<>> /\ Elems(w) = Elems(k.waiting) \cup {s} /\ IsInjective(w)
  BY <1>1, <1>2, <1>3, AppendElems DEF ConnOK, ListsOK
<1> HIDE DEF w
<1>5. PICK r : r = WithWaiting(k, w)
  OBVIOUS
<1>6. IsWithWaiting(k, r, w)
  BY <1>3, <1>4, <1>5, WithWaitingIs
<1>7. IsSetConn(p, q, c, r)
  BY <1>1, <1>5, <1>6, SetConnIs DEF IsWithWaiting
<1> HIDE DEF q, k
<1>8. ConnOK(q.stream, r)
  <2>1. StageOK(r)
    BY <1>1, <1>6 DEF IsWithWaiting, ConnOK, StageOK
  <2>2. ListsOK(r)
    BY <1>1, <1>4, <1>6 DEF IsWithWaiting, ConnOK, ListsOK, Pending, k
  <2>3. StatesOK(q.stream, r)
    BY <1>1, <1>2, <1>4, <1>6, <1>7 DEF IsWithWaiting, IsSetConn, ConnOK, StatesOK
  <2>. QED  BY <2>1, <2>2, <2>3 DEF ConnOK
<1>9. c \notin X => Settled(q.stream, r)
  BY <1>1, <1>6, <1>7 DEF IsWithWaiting, IsSetConn, Settled, HasFree
<1>10. Has(r) = Has(k) /\ r.addr = k.addr /\ Elems(r.waiting) = Elems(k.waiting) \cup {s}
  BY <1>4, <1>6 DEF IsWithWaiting, Has
<1>11. PlacedOne(q, hand \ {s}, s)
  <2>1. s \in Elems(q.conns[c].waiting) /\ c \in DOMAIN q.conns /\ q.stream = p.stream
    BY <1>7, <1>10 DEF IsSetConn
  <2>. QED  BY <1>2, <2>1 DEF PlacedOne
<1>12. Changed(p, q, {c}, {s}, hand, hand \ {s}, X, X)
  <2>1. Active(q, s) => Active(p, s)
    BY <1>7 DEF IsSetConn, Active
  <2>. QED  BY <1>1, <1>2, <1>7, <1>8, <1>9, <1>10, <1>11, <2>1 DEF Changed, IsSetConn, k
<1>13. PoolOK(q, hand \ {s}, X)
  BY <1>12, Change
<1>14. Keeps(p, q)
  BY <1>6, <1>7 DEF Keeps, IsSetConn, IsWithWaiting, k
<1>. QED  BY <1>7, <1>13, <1>14 DEF Made, IsSetConn, q, k, w

\* An HTTP/1 client has nothing in flight while a stream of its waits.
LEMMA NothingElse ==
    ASSUME NEW p, NEW hand, NEW X, PoolOK(p, hand, X), NEW s \in Streams, s \in hand,
           alpn = "h1", NEW c \in DOMAIN p.conns
    PROVE  p.conns[c].busy = {}
<1>1. /\ p.stream[s].state = "waiting"
      /\ s \notin Has(p.conns[c])
  BY HandApart
<1>2. ASSUME NEW t \in p.conns[c].busy PROVE FALSE
  <2>1. p \in Pool /\ StatesOK(p.stream, p.conns[c]) /\ Solo(p)
    BY DEF PoolOK, ConnOK
  <2>2. t \in Streams
    BY <2>1, PoolFields, ConnectionFields
  <2>3. Active(p, t) /\ Active(p, s)
    BY <1>1, <2>1 DEF StatesOK, Active
  <2>4. t = s
    BY <2>1, <2>2, <2>3 DEF Solo
  <2>. QED  BY <1>1, <2>4 DEF Has
<1>. QED  BY <1>2

\* get_connection.  A connection is opened only when none in the pool is suitable.
LEMMA GetConnectionOK ==
    ASSUME NEW p, NEW hand, PoolOK(p, hand, {}), NEW s \in Streams, s \in hand,
           alpn \in Protocols
    PROVE  /\ Made(p, GetConnection(p, s), s, hand, {})
           /\ \A c \in DOMAIN GetConnection(p, s).conns \ DOMAIN p.conns :
                 Suitable(p, s) = {}
<1> DEFINE q == GetConnection(p, s)
<1>1. p \in Pool
  BY DEF PoolOK
<1>2. CASE Suitable(p, s) = {}
  <2>1. q = MakeConnection(p, s)
    BY <1>2 DEF GetConnection
  <2> HIDE DEF q
  <2>2. Made(p, q, s, hand, {})
    BY <2>1, MakeConnectionOK
  <2>. QED  BY <1>2, <2>2 DEF q
<1>3. CASE Suitable(p, s) # {}
  <2> DEFINE c == Min(Suitable(p, s))
             k == p.conns[c]
  <2>1. Suitable(p, s) \in SUBSET Nat
    BY <1>1, PoolFields DEF Suitable
  <2>2. c \in Suitable(p, s)
    BY <1>3, <2>1, LeastIs
  <2>3. q = Reuse(p, s, c)
    BY <1>3 DEF GetConnection
  <2> HIDE DEF q, c
  <2>4. /\ c \in DOMAIN p.conns
        /\ Pending(k) \/ k.error \/ (k.status = "open" /\ ~H2ToH1(k))
    BY <2>2 DEF Suitable
  <2>5. CASE Pending(k)
    <3>1. q = SetConn(p, c, WithWaiting(k, Append(k.waiting, s)))
      BY <2>3, <2>5 DEF Reuse, SetConn, WithWaiting
    <3>2. Made(p, q, s, hand, {})
      BY <2>4, <2>5, <3>1, WaitOK
    <3>3. DOMAIN q.conns = DOMAIN p.conns
      BY <1>1, <2>4, <3>1 DEF SetConn, Pool
    <3>. QED  BY <3>2, <3>3 DEF q
  <2>6. CASE ~Pending(k) /\ k.error
    <3>1. q = Fail(p, s)
      BY <2>3, <2>6 DEF Reuse
    <3>2. /\ PoolOK(Fail(p, s), hand \ {s}, {}) /\ Keeps(p, Fail(p, s))
          /\ DOMAIN Fail(p, s).conns = DOMAIN p.conns
      BY FailOK
    <3>. QED  BY <3>1, <3>2 DEF Made, q
  <2>7. CASE ~Pending(k) /\ ~k.error
    <3>1. q = Use(p, s, c)
      BY <2>3, <2>7 DEF Reuse
    <3>2. k.alpn = "h1" => k.busy = {}
      BY <2>4, <2>7, NothingElse DEF H2ToH1, Protocols
    <3>3. c \in {} <=> k.status = "closed"
      BY <2>4, <2>7
    <3>4. Serves(p, q, c, hand \ {s}, {})
      BY <2>4, <2>7, <3>1, <3>2, <3>3, UseOK
    <3>. QED  BY <3>4 DEF Serves, Made, q
  <2>. QED  BY <2>5, <2>6, <2>7
<1>. QED  BY <1>2, <1>3

------------------------------------------------------------------------------
(* The replies to all who wait, in turn.                                                 *)

\* The three ways in which register_connection replies.
Reply(kind, p, s, c) ==
    CASE kind = "fail"   -> Fail(p, s)
      [] kind = "use"    -> Use(p, s, c)
      [] kind = "unused" -> GetUnused(p, s)

\* The fold as a function on sets of positions.
IsTurns(iter, kind, p, w, c) ==
    iter = [t \in SUBSET DOMAIN w |->
              IF t = {} THEN p
              ELSE Reply(kind, iter[t \ {Greatest(t)}], w[Greatest(t)], c)]

\* There is such a function.
LEMMA TurnsExist ==
    ASSUME NEW kind, NEW p, NEW w \in Seq(Streams), NEW c
    PROVE  \E iter : IsTurns(iter, kind, p, w, c)
<1> DEFINE n == Len(w)
           Up(m, iter) == iter = [t \in SUBSET (1 .. m) |->
                             IF t = {} THEN p
                             ELSE Reply(kind, iter[t \ {Greatest(t)}], w[Greatest(t)], c)]
           T == {m \in 0 .. n : \E iter : Up(m, iter)}
<1>1. n \in Nat /\ DOMAIN w = 1 .. n
  OBVIOUS
<1> HIDE DEF n
<1>2. 0 \in T
  <2> DEFINE it == [t \in SUBSET (1 .. 0) |-> p]
  <2>1. \A t \in SUBSET (1 .. 0) : t = {}
    OBVIOUS
  <2>2. Up(0, it)
    BY <2>1
  <2>. QED  BY <1>1, <2>2
<1>3. ASSUME NEW m \in 0 .. n, m < n, m \in T PROVE m + 1 \in T
  <2>1. PICK it : Up(m, it)
    BY <1>3
  <2> DEFINE new == [t \in SUBSET (1 .. m + 1) |->
                       IF m + 1 \in t THEN Reply(kind, it[t \ {m + 1}], w[m + 1], c)
                       ELSE it[t]]
  <2>2. m + 1 \in 0 .. n /\ m \in Nat
    BY <1>1, <1>3
  <2>3. \A t \in SUBSET (1 .. m + 1) :
           t \ {m + 1} \in SUBSET (1 .. m) /\ (m + 1 \notin t => t \in SUBSET (1 .. m))
    BY <2>2
  <2>4. \A t \in SUBSET (1 .. m) : t \in SUBSET (1 .. m + 1) /\ m + 1 \notin t
    BY <2>2
  <2>5. ASSUME NEW t \in SUBSET (1 .. m + 1), t # {}
        PROVE  new[t] = Reply(kind, new[t \ {Greatest(t)}], w[Greatest(t)], c)
    <3>1. CASE m + 1 \in t
      <4>1. Greatest(t) = m + 1
        <5>1. m + 1 \in Nat /\ \A k \in t : m + 1 >= k
          BY <2>2
        <5>. QED  BY <3>1, <5>1, GreatestIs
      <4>2. new[t \ {m + 1}] = it[t \ {m + 1}]
        BY <2>3
      <4>. QED  BY <3>1, <4>1, <4>2
    <3>2. CASE m + 1 \notin t
      <4>1. t \in SUBSET (1 .. m) /\ Greatest(t) \in t
        BY <3>2, <2>2, <2>3, <2>5, GreatestIn
      <4>2. t \ {Greatest(t)} \in SUBSET (1 .. m)
        BY <4>1
      <4>3. it[t] = Reply(kind, it[t \ {Greatest(t)}], w[Greatest(t)], c)
        BY <2>1, <2>5, <4>1
      <4>. QED  BY <3>2, <4>1, <4>2, <4>3, <2>4
    <3>. QED  BY <3>1, <3>2
  <2>6. new[{}] = p
    BY <2>1
  <2>7. new = [t \in SUBSET (1 .. m + 1) |-> new[t]]
    OBVIOUS
  <2> HIDE DEF new
  <2>8. Up(m + 1, new)
    BY <2>5, <2>6, <2>7
  <2>. QED  BY <2>2, <2>8
<1>4. n \in T
  <2>1. \A i \in 0 .. n : i < n /\ i \in T => i + 1 \in T
    BY <1>3
  <2> HIDE DEF T
  <2>2. \A i \in 0 .. n : i \in T
    BY <1>1, <1>2, <2>1, InductionUpTo
  <2>. QED  BY <1>1, <2>2
<1>. QED  BY <1>1, <1>4 DEF IsTurns

\* The pool after each reply.
TurnStages(kind, p, w, c, st) ==
    st[0] = p /\ \A i \in 1 .. Len(w) : st[i] = Reply(kind, st[i - 1], w[i], c)

LEMMA TurnsAre ==
    ASSUME NEW kind, NEW p, NEW w \in Seq(Streams), NEW c,
           NEW it, IsTurns(it, kind, p, w, c)
    PROVE  \E st : TurnStages(kind, p, w, c, st) /\ st[Len(w)] = it[DOMAIN w]
<1> DEFINE n == Len(w)
           st == [i \in 0 .. n |-> it[1 .. i]]
<1>1. n \in Nat /\ DOMAIN w = 1 .. n
  OBVIOUS
<1>2. it = [t \in SUBSET DOMAIN w |->
              IF t = {} THEN p
              ELSE Reply(kind, it[t \ {Greatest(t)}], w[Greatest(t)], c)]
  BY DEF IsTurns
<1> HIDE DEF n
<1>3. it[1 .. 0] = p
  BY <1>1, <1>2, FoldSteps
<1>4. ASSUME NEW i \in 1 .. n
      PROVE  it[1 .. i] = Reply(kind, it[1 .. (i - 1)], w[i], c)
  <2>1. /\ 1 .. i \in SUBSET (1 .. n) /\ 1 .. i # {} /\ Greatest(1 .. i) = i
        /\ (1 .. i) \ {i} = 1 .. (i - 1)
    BY <1>1, FoldSteps
  <2>. QED  BY <1>1, <1>2, <2>1
<1>5. /\ \A i \in 1 .. n : i \in 0 .. n /\ i - 1 \in 0 .. n
      /\ 0 \in 0 .. n /\ n \in 0 .. n
  BY <1>1
<1>6. st[0] = p /\ st[n] = it[DOMAIN w] /\ \A i \in 1 .. n : st[i] = Reply(kind, st[i - 1], w[i], c)
  BY <1>1, <1>3, <1>4, <1>5
<1> HIDE DEF st
<1>. QED  BY <1>6 DEF TurnStages, n

\* Each of the three folds of register_connection goes through its stages.
LEMMA FailTurns ==
    ASSUME NEW p, NEW w \in Seq(Streams), NEW c
    PROVE  \E st : /\ TurnStages("fail", p, w, c, st)
                  /\ InTurn(Fail, p, w) = st[Len(w)]
<1> DEFINE Is(iter) ==
             iter = [t \in SUBSET DOMAIN w |->
                       IF t = {} THEN p
                       ELSE CHOOSE x \in {Fail(q, w[Greatest(t)]) :
                                             q \in {iter[t \ {Greatest(t)}]}} : TRUE]
           it == CHOOSE iter : Is(iter)
<1>1. InTurn(Fail, p, w) = it[DOMAIN w]
  BY DEF InTurn, FoldLeft, MapThenFoldSet, Max, Greatest
<1>2. \A r, s : (CHOOSE x \in {Fail(q, s) : q \in {r}} : TRUE) = Reply("fail", r, s, c)
  BY DEF Reply
<1>3. PICK iter : IsTurns(iter, "fail", p, w, c)
  BY TurnsExist
<1>4. Is(iter)
  BY <1>2, <1>3 DEF IsTurns
<1>5. Is(it)
  <2> HIDE DEF Is
  <2>. QED  BY <1>4
<1> HIDE DEF it
<1>6. IsTurns(it, "fail", p, w, c)
  BY <1>2, <1>5 DEF IsTurns
<1>. QED  BY <1>1, <1>6, TurnsAre

UseAll(p, w, c) == InTurn(LAMBDA r, s : Use(r, s, c), p, w)

LEMMA UseTurns ==
    ASSUME NEW p, NEW w \in Seq(Streams), NEW c
    PROVE  \E st : /\ TurnStages("use", p, w, c, st)
                  /\ UseAll(p, w, c) = st[Len(w)]
<1> DEFINE Is(iter) ==
             iter = [t \in SUBSET DOMAIN w |->
                       IF t = {} THEN p
                       ELSE CHOOSE x \in {Use(q, w[Greatest(t)], c) :
                                             q \in {iter[t \ {Greatest(t)}]}} : TRUE]
           it == CHOOSE iter : Is(iter)
<1>1. UseAll(p, w, c) = it[DOMAIN w]
  BY DEF UseAll, InTurn, FoldLeft, MapThenFoldSet, Max, Greatest
<1>2. \A r, s : (CHOOSE x \in {Use(q, s, c) : q \in {r}} : TRUE) = Reply("use", r, s, c)
  BY DEF Reply
<1>3. PICK iter : IsTurns(iter, "use", p, w, c)
  BY TurnsExist
<1>4. Is(iter)
  BY <1>2, <1>3 DEF IsTurns
<1>5. Is(it)
  <2> HIDE DEF Is
  <2>. QED  BY <1>4
<1> HIDE DEF it
<1>6. IsTurns(it, "use", p, w, c)
  BY <1>2, <1>5 DEF IsTurns
<1>. QED  BY <1>1, <1>6, TurnsAre

LEMMA UnusedTurns ==
    ASSUME NEW p, NEW w \in Seq(Streams), NEW c
    PROVE  \E st : /\ TurnStages("unused", p, w, c, st)
                  /\ InTurn(GetUnused, p, w) = st[Len(w)]
<1> DEFINE Is(iter) ==
             iter = [t \in SUBSET DOMAIN w |->
                       IF t = {} THEN p
                       ELSE CHOOSE x \in {GetUnused(q, w[Greatest(t)]) :
                                             q \in {iter[t \ {Greatest(t)}]}} : TRUE]
           it == CHOOSE iter : Is(iter)
<1>1. InTurn(GetUnused, p, w) = it[DOMAIN w]
  BY DEF InTurn, FoldLeft, MapThenFoldSet, Max, Greatest
<1>2. \A r, s : (CHOOSE x \in {GetUnused(q, s) : q \in {r}} : TRUE) = Reply("unused", r, s, c)
  BY DEF Reply
<1>3. PICK iter : IsTurns(iter, "unused", p, w, c)
  BY TurnsExist
<1>4. Is(iter)
  BY <1>2, <1>3 DEF IsTurns
<1>5. Is(it)
  <2> HIDE DEF Is
  <2>. QED  BY <1>4
<1> HIDE DEF it
<1>6. IsTurns(it, "unused", p, w, c)
  BY <1>2, <1>5 DEF IsTurns
<1>. QED  BY <1>1, <1>6, TurnsAre


\* Those whose turn is yet to come.
Rest(w, i) == {w[j] : j \in (i + 1) .. Len(w)}

LEMMA RestIs ==
    ASSUME NEW w \in Seq(Streams), IsInjective(w)
    PROVE  /\ Rest(w, 0) = Elems(w) /\ Rest(w, Len(w)) = {} /\ Len(w) \in Nat
           /\ \A i \in 1 .. Len(w) :
                 /\ w[i] \in Streams /\ w[i] \in Rest(w, i - 1)
                 /\ Rest(w, i) = Rest(w, i - 1) \ {w[i]}
<1>1. Len(w) \in Nat /\ DOMAIN w = 1 .. Len(w) /\ \A i \in 1 .. Len(w) : w[i] \in Streams
  OBVIOUS
<1>2. Rest(w, 0) = Elems(w) /\ Rest(w, Len(w)) = {}
  BY <1>1 DEF Rest, Elems
<1>3. ASSUME NEW i \in 1 .. Len(w)
      PROVE  /\ w[i] \in Rest(w, i - 1)
             /\ Rest(w, i) = Rest(w, i - 1) \ {w[i]}
  <2>1. ((i - 1) + 1) .. Len(w) = {i} \cup ((i + 1) .. Len(w)) /\ i \notin (i + 1) .. Len(w)
        /\ (i + 1) .. Len(w) \subseteq 1 .. Len(w)
    BY <1>1
  <2>2. \A j \in (i + 1) .. Len(w) : w[j] # w[i]
    BY <1>1, <2>1 DEF IsInjective
  <2>. QED  BY <2>1, <2>2 DEF Rest
<1>. QED  BY <1>1, <1>2, <1>3

LEMMA KeepsTwice ==
    ASSUME NEW p, NEW q, NEW r, Keeps(p, q), Keeps(q, r)
    PROVE  Keeps(p, r)
BY DEF Keeps

\* What the replies to all who wait leave of the pool.
AllFailed(p, q, X) == PoolOK(q, {}, X) /\ Keeps(p, q) /\ DOMAIN q.conns = DOMAIN p.conns

\* All get an error.
LEMMA FailAllOK ==
    ASSUME NEW p, NEW X, NEW w \in Seq(Streams), IsInjective(w), PoolOK(p, Elems(w), X)
    PROVE  AllFailed(p, InTurn(Fail, p, w), X)
<1>1. PICK st : TurnStages("fail", p, w, 0, st) /\ InTurn(Fail, p, w) = st[Len(w)]
  BY FailTurns
<1>2. /\ Rest(w, 0) = Elems(w) /\ Rest(w, Len(w)) = {} /\ Len(w) \in Nat
      /\ \A i \in 1 .. Len(w) :
            /\ w[i] \in Streams /\ w[i] \in Rest(w, i - 1)
            /\ Rest(w, i) = Rest(w, i - 1) \ {w[i]}
  BY RestIs
<1> DEFINE J(i) == /\ PoolOK(st[i], Rest(w, i), X) /\ Keeps(p, st[i])
                   /\ DOMAIN st[i].conns = DOMAIN p.conns
           T == {i \in 0 .. Len(w) : J(i)}
<1>3. 0 \in T
  BY <1>1, <1>2 DEF TurnStages, Keeps, PoolOK
<1>4. ASSUME NEW i \in 0 .. Len(w), i < Len(w), i \in T PROVE i + 1 \in T
  <2>1. i + 1 \in 1 .. Len(w) /\ i + 1 \in 0 .. Len(w) /\ (i + 1) - 1 = i
    BY <1>2, <1>4
  <2>2. PICK s : s = w[i + 1]
    OBVIOUS
  <2>3. PICK q : q = st[i]
    OBVIOUS
  <2>4. st[i + 1] = Fail(q, s) /\ s \in Streams /\ s \in Rest(w, i)
        /\ Rest(w, i + 1) = Rest(w, i) \ {s}
    BY <1>1, <1>2, <2>1, <2>2, <2>3 DEF TurnStages, Reply
  <2>5. PoolOK(q, Rest(w, i), X) /\ Keeps(p, q) /\ DOMAIN q.conns = DOMAIN p.conns
    BY <1>4, <2>3
  <2>6. /\ PoolOK(Fail(q, s), Rest(w, i) \ {s}, X) /\ Keeps(q, Fail(q, s))
        /\ DOMAIN Fail(q, s).conns = DOMAIN q.conns
    BY <2>4, <2>5, FailOK
  <2>7. Keeps(p, Fail(q, s))
    BY <2>5, <2>6, KeepsTwice
  <2>. QED  BY <2>1, <2>4, <2>5, <2>6, <2>7
<1>5. Len(w) \in T
  <2>1. \A i \in 0 .. Len(w) : i < Len(w) /\ i \in T => i + 1 \in T
    BY <1>4
  <2> HIDE DEF T
  <2>2. \A i \in 0 .. Len(w) : i \in T
    BY <1>2, <1>3, <2>1, InductionUpTo
  <2>. QED  BY <1>2, <2>2
<1>. QED  BY <1>1, <1>2, <1>5 DEF AllFailed

AllMade(p, q, X) == PoolOK(q, {}, X) /\ Keeps(p, q)

\* All get a connection of their own.
LEMMA UnusedAllOK ==
    ASSUME NEW p, NEW X, NEW w \in Seq(Streams), IsInjective(w), PoolOK(p, Elems(w), X),
           X \subseteq DOMAIN p.conns
    PROVE  AllMade(p, InTurn(GetUnused, p, w), X)
<1>1. PICK st : TurnStages("unused", p, w, 0, st) /\ InTurn(GetUnused, p, w) = st[Len(w)]
  BY UnusedTurns
<1>2. /\ Rest(w, 0) = Elems(w) /\ Rest(w, Len(w)) = {} /\ Len(w) \in Nat
      /\ \A i \in 1 .. Len(w) :
            /\ w[i] \in Streams /\ w[i] \in Rest(w, i - 1)
            /\ Rest(w, i) = Rest(w, i - 1) \ {w[i]}
  BY RestIs
<1> DEFINE J(i) == PoolOK(st[i], Rest(w, i), X) /\ Keeps(p, st[i])
           T == {i \in 0 .. Len(w) : J(i)}
<1>3. 0 \in T
  BY <1>1, <1>2 DEF TurnStages, Keeps, PoolOK
<1>4. ASSUME NEW i \in 0 .. Len(w), i < Len(w), i \in T PROVE i + 1 \in T
  <2>1. i + 1 \in 1 .. Len(w) /\ i + 1 \in 0 .. Len(w) /\ (i + 1) - 1 = i
    BY <1>2, <1>4
  <2>2. PICK s : s = w[i + 1]
    OBVIOUS
  <2>3. PICK q : q = st[i]
    OBVIOUS
  <2>4. st[i + 1] = GetUnused(q, s) /\ s \in Streams /\ s \in Rest(w, i)
        /\ Rest(w, i + 1) = Rest(w, i) \ {s}
    BY <1>1, <1>2, <2>1, <2>2, <2>3 DEF TurnStages, Reply
  <2>5. PoolOK(q, Rest(w, i), X) /\ Keeps(p, q)
    BY <1>4, <2>3
  <2>6. Made(q, GetUnused(q, s), s, Rest(w, i), X)
    BY <2>4, <2>5, MakeConnectionOK DEF Keeps, GetUnused
  <2>7. Keeps(p, GetUnused(q, s))
    BY <2>5, <2>6, KeepsTwice DEF Made
  <2>. QED  BY <2>1, <2>4, <2>6, <2>7 DEF Made
<1>5. Len(w) \in T
  <2>1. \A i \in 0 .. Len(w) : i < Len(w) /\ i \in T => i + 1 \in T
    BY <1>4
  <2> HIDE DEF T
  <2>2. \A i \in 0 .. Len(w) : i \in T
    BY <1>2, <1>3, <2>1, InductionUpTo
  <2>. QED  BY <1>2, <2>2
<1>. QED  BY <1>1, <1>2, <1>5 DEF AllMade

\* A connection that may be shared is used by all of them; an HTTP/1 client has one.
LEMMA UseAllOK ==
    ASSUME NEW p, NEW X, NEW w \in Seq(Streams), IsInjective(w), PoolOK(p, Elems(w), X),
           NEW c \in DOMAIN p.conns, ~Pending(p.conns[c]), ~H2ToH1(p.conns[c]),
           c \in X <=> p.conns[c].status = "closed", alpn \in Protocols
    PROVE  AllFailed(p, UseAll(p, w, c), X)
<1>1. PICK st : TurnStages("use", p, w, c, st) /\ UseAll(p, w, c) = st[Len(w)]
  BY UseTurns
<1>2. /\ Rest(w, 0) = Elems(w) /\ Rest(w, Len(w)) = {} /\ Len(w) \in Nat
      /\ \A i \in 1 .. Len(w) :
            /\ w[i] \in Streams /\ w[i] \in Rest(w, i - 1)
            /\ Rest(w, i) = Rest(w, i - 1) \ {w[i]}
  BY RestIs
<1>3. /\ p \in Pool /\ p.conns[c].alpn \in Protocols /\ Placed(p, Elems(w)) /\ Solo(p)
  BY PoolFields, ConnectionFields DEF PoolOK
<1>4. p.conns[c].alpn = "h1" => alpn = "h1"
  BY DEF H2ToH1, Protocols
<1>5. p.conns[c].alpn = "h1" => Len(w) <= 1
  <2> SUFFICES ASSUME alpn = "h1", Len(w) > 1 PROVE FALSE
    BY <1>2, <1>4
  <2>1. 1 \in DOMAIN w /\ 2 \in DOMAIN w /\ w[1] \in Streams /\ w[2] \in Streams
    BY <1>2
  <2>2. w[1] # w[2]
    BY <2>1 DEF IsInjective
  <2>3. \A s \in Streams : s \in Elems(w) => Active(p, s)
    BY <1>3 DEF Placed, PlacedOne, Active
  <2>4. w[1] \in Elems(w) /\ w[2] \in Elems(w)
    BY <2>1 DEF Elems
  <2>. QED  BY <1>3, <2>1, <2>2, <2>3, <2>4 DEF Solo
<1> DEFINE J(i) == /\ PoolOK(st[i], Rest(w, i), X) /\ Keeps(p, st[i])
                   /\ DOMAIN st[i].conns = DOMAIN p.conns
                   /\ i = 0 \/ p.conns[c].alpn = "h2" =>
                        st[i].conns[c].status = p.conns[c].status
           T == {i \in 0 .. Len(w) : J(i)}
<1>6. 0 \in T
  BY <1>1, <1>2, <1>3 DEF TurnStages, Keeps
<1>7. ASSUME NEW i \in 0 .. Len(w), i < Len(w), i \in T PROVE i + 1 \in T
  <2>1. i + 1 \in 1 .. Len(w) /\ i + 1 \in 0 .. Len(w) /\ (i + 1) - 1 = i /\ i + 1 # 0
    BY <1>2, <1>7
  <2>2. PICK s : s = w[i + 1]
    OBVIOUS
  <2>3. PICK q : q = st[i]
    OBVIOUS
  <2>4. st[i + 1] = Use(q, s, c) /\ s \in Streams /\ s \in Rest(w, i)
        /\ Rest(w, i + 1) = Rest(w, i) \ {s}
    BY <1>1, <1>2, <2>1, <2>2, <2>3 DEF TurnStages, Reply
  <2>5. PoolOK(q, Rest(w, i), X) /\ Keeps(p, q) /\ DOMAIN q.conns = DOMAIN p.conns
    BY <1>7, <2>3
  <2>6. q.conns[c].status = p.conns[c].status
    <3>1. i = 0 \/ p.conns[c].alpn = "h2"
      BY <1>2, <1>3, <1>5, <1>7 DEF Protocols
    <3>. QED  BY <1>7, <2>3, <3>1
  <2>7. /\ c \in DOMAIN q.conns /\ ~Pending(q.conns[c])
        /\ q.conns[c].alpn = p.conns[c].alpn
        /\ c \in X <=> q.conns[c].status = "closed"
    BY <2>5, <2>6 DEF Keeps, Pending
  <2>8. q.conns[c].alpn = "h1" => q.conns[c].busy = {}
    BY <1>4, <2>4, <2>5, <2>7, NothingElse
  <2>9. Serves(q, Use(q, s, c), c, Rest(w, i) \ {s}, X)
    BY <2>4, <2>5, <2>7, <2>8, UseOK
  <2>10. Keeps(p, Use(q, s, c))
    BY <2>5, <2>9, KeepsTwice DEF Serves
  <2>11. p.conns[c].alpn = "h2" => Use(q, s, c).conns[c].status = p.conns[c].status
    BY <2>6, <2>7, <2>9 DEF Serves
  <2>. QED  BY <2>1, <2>4, <2>5, <2>9, <2>10, <2>11 DEF Serves
<1>8. Len(w) \in T
  <2>1. \A i \in 0 .. Len(w) : i < Len(w) /\ i \in T => i + 1 \in T
    BY <1>7
  <2> HIDE DEF T
  <2>2. \A i \in 0 .. Len(w) : i \in T
    BY <1>2, <1>6, <2>1, InductionUpTo
  <2>. QED  BY <1>2, <2>2
<1>. QED  BY <1>1, <1>2, <1>8 DEF AllFailed


------------------------------------------------------------------------------
(* register_connection.                                                                  *)

\* A set of connections that may be unsettled may be larger.
LEMMA PoolWeaker ==
    ASSUME NEW p, NEW hand, NEW X, PoolOK(p, hand, X), NEW Y, X \subseteq Y
    PROVE  PoolOK(p, hand, Y)
BY DEF PoolOK

\* The connection is there, and nobody waits for it any more.
Registered(k) == [k EXCEPT !.stage = "done", !.waiting = <<>>]

IsRegistered(k, r) ==
    /\ r \in Connection /\ r.stage = "done" /\ r.waiting = <<>>
    /\ r.addr = k.addr /\ r.status = k.status /\ r.error = k.error /\ r.alpn = k.alpn
    /\ r.gone = k.gone /\ r.limit = k.limit /\ r.busy = k.busy /\ r.queue = k.queue

LEMMA RegisteredIs ==
    ASSUME NEW k \in Connection
    PROVE  IsRegistered(k, Registered(k))
<1>1. <<>> \in Seq(Streams) /\ "done" \in Stages
  BY DEF Stages
<1>. QED  BY <1>1 DEF IsRegistered, Registered, Connection

\* Those that waited for it are in hand.
InHand(p, q, c) ==
    /\ PoolOK(q, Elems(p.conns[c].waiting), {}) /\ DOMAIN q.conns = DOMAIN p.conns
    /\ IsRegistered(p.conns[c], q.conns[c])
    /\ \A d \in DOMAIN p.conns : q.conns[d].addr = p.conns[d].addr

LEMMA InHandOK ==
    ASSUME NEW p, NEW c \in DOMAIN p.conns, PoolOK(p, {}, {}), Pending(p.conns[c])
    PROVE  InHand(p, SetConn(p, c, Registered(p.conns[c])), c)
<1> DEFINE k == p.conns[c]
           q == SetConn(p, c, Registered(k))
           Z == Elems(k.waiting)
<1>1. p \in Pool /\ Healthy(p) /\ ConnOK(p.stream, k) /\ Placed(p, {}) /\ Apart(p.conns)
  BY DEF PoolOK
<1>2. k \in Connection /\ k.waiting \in Seq(Streams)
  BY <1>1, PoolFields, ConnectionFields
<1>3. PICK r : r = Registered(k)
  OBVIOUS
<1>4. IsRegistered(k, r)
  BY <1>2, <1>3, RegisteredIs
<1>5. IsSetConn(p, q, c, r)
  BY <1>1, <1>3, <1>4, SetConnIs DEF IsRegistered
<1> HIDE DEF q
<1>6. k.busy = {} /\ k.queue = <<>> /\ Elems(<<>>) = {} /\ Z \subseteq Streams
      /\ IsInjective(<<>>)
  BY <1>1, <1>2 DEF ConnOK, ListsOK, Elems, IsInjective
<1> HIDE DEF k
<1>7. ConnOK(q.stream, r) /\ Settled(q.stream, r) /\ Has(r) = {}
  <2>1. StageOK(r)
    BY <1>4 DEF IsRegistered, StageOK
  <2>2. ListsOK(r)
    BY <1>1, <1>4, <1>6 DEF IsRegistered, ListsOK, ConnOK, Pending
  <2>3. StatesOK(q.stream, r) /\ Settled(q.stream, r) /\ Has(r) = {}
    BY <1>4, <1>6 DEF IsRegistered, StatesOK, Settled, Has
  <2>. QED  BY <2>1, <2>2, <2>3 DEF ConnOK
<1>8. \A t \in Z : p.stream[t].state = "waiting"
  BY <1>1 DEF ConnOK, StatesOK
<1>9. ASSUME NEW d \in DOMAIN p.conns \ {c}, NEW t \in Z
      PROVE  t \notin Elems(p.conns[d].waiting) /\ t \notin Has(p.conns[d])
  <2>1. ConnOK(p.stream, p.conns[d])
    BY DEF PoolOK
  <2>. QED  BY <1>1, <1>8, <2>1 DEF Apart, ConnOK, StatesOK, Has, k
<1>10. ASSUME NEW t \in Z PROVE PlacedOne(q, Z, t)
  <2>1. \A d \in DOMAIN q.conns : t \notin Elems(q.conns[d].waiting)
    BY <1>4, <1>5, <1>6, <1>9 DEF IsSetConn, IsRegistered
  <2>. QED  BY <1>5, <1>8, <2>1 DEF PlacedOne, IsSetConn
<1>11. Has(k) = {} /\ \A t \in Streams \ Z : t \notin Elems(r.waiting)
  BY <1>4, <1>6 DEF Has, IsRegistered
<1>12. Changed(p, q, {c}, Z, {}, Z, {}, {})
  BY <1>1, <1>4, <1>5, <1>7, <1>9, <1>10, <1>11
     DEF Changed, IsSetConn, IsRegistered, Active, k
<1>13. PoolOK(q, Z, {})
  BY <1>12, Change
<1>. QED  BY <1>4, <1>5, <1>13 DEF InHand, IsSetConn, IsRegistered, q, k

LEMMA HeadAndTail ==
    ASSUME NEW w \in Seq(Streams), w # <<>>, IsInjective(w)
    PROVE  /\ Head(w) \in Streams /\ Head(w) \in Elems(w) /\ Tail(w) \in Seq(Streams)
           /\ IsInjective(Tail(w)) /\ Elems(Tail(w)) = Elems(w) \ {Head(w)}
<1>1. /\ Len(w) \in Nat /\ Len(w) > 0 /\ DOMAIN w = 1 .. Len(w) /\ Head(w) = w[1]
      /\ Tail(w) \in Seq(Streams) /\ DOMAIN Tail(w) = 1 .. (Len(w) - 1)
      /\ \A i \in 1 .. (Len(w) - 1) : Tail(w)[i] = w[i + 1]
  OBVIOUS
<1>2. IsInjective(Tail(w))
  BY <1>1 DEF IsInjective
<1>3. w[1] \in Streams /\ w[1] \in Elems(w)
  BY <1>1 DEF Elems
<1>4. \A i \in 1 .. (Len(w) - 1) : w[i + 1] # w[1] /\ i + 1 \in 1 .. Len(w)
  BY <1>1 DEF IsInjective
<1>5. Elems(Tail(w)) \subseteq Elems(w) \ {w[1]}
  BY <1>1, <1>4 DEF Elems
<1>6. ASSUME NEW i \in 1 .. Len(w), w[i] # w[1] PROVE w[i] \in Elems(Tail(w))
  <2>1. i - 1 \in DOMAIN Tail(w) /\ Tail(w)[i - 1] = w[(i - 1) + 1] /\ (i - 1) + 1 = i
    BY <1>1, <1>6
  <2>. QED  BY <2>1 DEF Elems
<1>7. Elems(w) \ {w[1]} \subseteq Elems(Tail(w))
  BY <1>1, <1>6 DEF Elems
<1>. QED  BY <1>1, <1>2, <1>3, <1>5, <1>7

\* Everybody has the reply.  A connection is opened only for those that are sent away.
IsRegistration(p, q, c, X) ==
    /\ PoolOK(q, {}, X) /\ c \in DOMAIN q.conns /\ DOMAIN p.conns \subseteq DOMAIN q.conns
    /\ q.conns[c].stage = "done" /\ q.conns[c].alpn = p.conns[c].alpn
    /\ DOMAIN q.conns = DOMAIN p.conns \/ H2ToH1(p.conns[c])

\* Whatever has become of the attempt, register_connection serves all who wait.
LEMMA RegisterOK ==
    ASSUME NEW p, NEW c \in DOMAIN p.conns, PoolOK(p, {}, {}), Pending(p.conns[c]),
           NEW X \in SUBSET {c}, p.conns[c].error => X = {},
           ~p.conns[c].error => (c \in X <=> p.conns[c].status = "closed"),
           alpn \in Protocols
    PROVE  IsRegistration(p, RegisterConnection(p, c), c, X)
<1> DEFINE k == p.conns[c]
           w == k.waiting
           q == SetConn(p, c, Registered(k))
           r == RegisterConnection(p, c)
<1>1. InHand(p, q, c)
  BY InHandOK
<1>2. p \in Pool /\ w \in Seq(Streams) /\ IsInjective(w) /\ w # <<>>
  <2>1. p \in Pool /\ ListsOK(k)
    BY DEF PoolOK, ConnOK
  <2>2. k \in Connection
    BY <2>1, PoolFields
  <2>. QED  BY <2>1, <2>2, ConnectionFields DEF ListsOK
<1>3. [p EXCEPT !.conns[c].stage = "done", !.conns[c].waiting = <<>>] = q
  BY <1>2, PoolFields DEF SetConn, Registered
<1> HIDE DEF q
<1>4. /\ PoolOK(q, Elems(w), {}) /\ DOMAIN q.conns = DOMAIN p.conns
      /\ q.conns[c].stage = "done" /\ q.conns[c].alpn = k.alpn
      /\ q.conns[c].status = k.status /\ q.conns[c].busy = {}
  <2>1. k.busy = {}
    BY DEF PoolOK, ConnOK, ListsOK
  <2>. QED  BY <1>1, <2>1 DEF InHand, IsRegistered
<1>5. PoolOK(q, Elems(w), X)
  <2> HIDE DEF w
  <2>. QED  BY <1>4, PoolWeaker
<1>6. c \in DOMAIN q.conns /\ ~Pending(q.conns[c])
  BY <1>4 DEF Pending
<1>7. CASE k.error
  <2>1. r = InTurn(Fail, q, w)
    BY <1>3, <1>7 DEF RegisterConnection
  <2> HIDE DEF r, w
  <2>2. AllFailed(q, r, X)
    BY <1>2, <1>5, <2>1, FailAllOK
  <2> HIDE DEF k
  <2>. QED  BY <1>4, <2>2 DEF AllFailed, Keeps, IsRegistration, r, k
<1>8. CASE ~k.error /\ H2ToH1(k)
  <2>1. r = InTurn(GetUnused, Use(q, Head(w), c), Tail(w))
    BY <1>3, <1>8 DEF RegisterConnection
  <2>2. /\ Head(w) \in Streams /\ Head(w) \in Elems(w) /\ Tail(w) \in Seq(Streams)
        /\ IsInjective(Tail(w)) /\ Elems(Tail(w)) = Elems(w) \ {Head(w)}
    BY <1>2, HeadAndTail
  <2>3. PICK s : s = Head(w)
    OBVIOUS
  <2>4. PICK u : u = Use(q, s, c)
    OBVIOUS
  <2>5. c \in X <=> q.conns[c].status = "closed"
    BY <1>4, <1>8
  <2> HIDE DEF w, r
  <2>6. Serves(q, u, c, Elems(w) \ {s}, X)
    BY <1>4, <1>5, <1>6, <2>2, <2>3, <2>4, <2>5, UseOK
  <2>7. PICK v : v = Tail(w)
    OBVIOUS
  <2>8. AllMade(u, InTurn(GetUnused, u, v), X)
    <3>1. X \subseteq DOMAIN u.conns
      BY <1>4, <2>6 DEF Serves
    <3>2. PoolOK(u, Elems(v), X)
      BY <2>2, <2>3, <2>6, <2>7 DEF Serves
    <3>. QED  BY <2>2, <2>7, <3>1, <3>2, UnusedAllOK
  <2>9. r = InTurn(GetUnused, u, v)
    BY <2>1, <2>3, <2>4, <2>7
  <2>10. PoolOK(r, {}, X) /\ Keeps(u, r) /\ Keeps(q, u)
    BY <2>6, <2>8, <2>9 DEF AllMade, Serves
  <2> HIDE DEF k
  <2>. QED  BY <1>4, <1>8, <2>10 DEF Keeps, IsRegistration, r, k
<1>9. CASE ~k.error /\ ~H2ToH1(k)
  <2>1. r = UseAll(q, w, c)
    BY <1>3, <1>9 DEF RegisterConnection, UseAll, InTurn, FoldLeft, MapThenFoldSet, Max
  <2>2. ~H2ToH1(q.conns[c])
    BY <1>4, <1>9 DEF H2ToH1
  <2>3. c \in X <=> q.conns[c].status = "closed"
    BY <1>4, <1>9
  <2> HIDE DEF r, w
  <2>4. AllFailed(q, r, X)
    BY <1>2, <1>5, <1>6, <2>1, <2>2, <2>3, UseAllOK
  <2> HIDE DEF k
  <2>. QED  BY <1>4, <2>4 DEF AllFailed, Keeps, IsRegistration, r, k
<1>. QED  BY <1>7, <1>8, <1>9


------------------------------------------------------------------------------
(* The steps.                                                                            *)

\* What NoAttemptAfterError says of one step.
NoneTried ==
    \A c \in DOMAIN pool'.conns \ DOMAIN pool.conns, d \in DOMAIN pool.conns :
        pool.conns[d].error => pool'.conns[c].addr # pool.conns[d].addr \/ SentAway

StepOK == PoolOK(pool', {}, {}) /\ NoneTried

LEMMA NoneNew ==
    ASSUME PoolOK(pool', {}, {}), DOMAIN pool'.conns = DOMAIN pool.conns
    PROVE  StepOK
BY DEF StepOK, NoneTried

\* What the invariant says, part by part.
LEMMA Facts ==
    ASSUME IInv
    PROVE  /\ PoolOK(pool, {}, {}) /\ pool \in Pool /\ Healthy(pool) /\ alpn \in Protocols
           /\ \A c \in DOMAIN pool.conns :
                 /\ pool.conns[c] \in Connection /\ ConnOK(pool.stream, pool.conns[c])
                 /\ Settled(pool.stream, pool.conns[c])
           /\ \A s \in Streams : pool.stream[s] \in Stream /\ PlacedOne(pool, {}, s)
<1>1. PoolOK(pool, {}, {}) /\ pool \in Pool /\ alpn \in Protocols
  BY DEF IInv, TypeOK
<1>. QED  BY <1>1, PoolFields DEF PoolOK, Placed

\* A connection that is being made goes on.
IsMoved(k, r) ==
    /\ r \in Connection /\ r.addr = k.addr /\ r.waiting = k.waiting
    /\ r.busy = k.busy /\ r.queue = k.queue /\ Pending(r) /\ StageOK(r)

LEMMA MoveOK ==
    ASSUME NEW p, NEW c \in DOMAIN p.conns, PoolOK(p, {}, {}), Pending(p.conns[c]),
           NEW r, IsMoved(p.conns[c], r)
    PROVE  IsSetConn(p, SetConn(p, c, r), c, r) /\ PoolOK(SetConn(p, c, r), {}, {})
<1> DEFINE k == p.conns[c]
           q == SetConn(p, c, r)
<1>1. p \in Pool /\ Healthy(p) /\ ConnOK(p.stream, k)
  BY DEF PoolOK
<1>2. IsSetConn(p, q, c, r)
  BY <1>1, SetConnIs DEF IsMoved
<1> HIDE DEF q, k
<1>3. k.busy = {} /\ k.queue = <<>>
  BY <1>1 DEF ConnOK, ListsOK, k
<1>4. ConnOK(q.stream, r)
  <2>1. ListsOK(r)
    BY <1>1, <1>3 DEF IsMoved, ConnOK, ListsOK, k
  <2>2. StatesOK(q.stream, r)
    BY <1>1, <1>2 DEF IsMoved, IsSetConn, ConnOK, StatesOK, k
  <2>. QED  BY <2>1, <2>2 DEF IsMoved, ConnOK
<1>5. Settled(q.stream, r)
  BY <1>3 DEF IsMoved, Settled, k
<1>6. Has(r) = Has(k) /\ r.waiting = k.waiting /\ r.addr = k.addr
  BY DEF IsMoved, Has, k
<1>7. Changed(p, q, {c}, {}, {}, {}, {}, {})
  BY <1>1, <1>2, <1>4, <1>5, <1>6 DEF Changed, IsSetConn, k
<1>. QED  BY <1>2, <1>7, Change DEF q

LEMMA Moves ==
    ASSUME IInv, NEW c \in DOMAIN pool.conns, Pending(pool.conns[c]),
           NEW r, IsMoved(pool.conns[c], r), pool' = SetConn(pool, c, r)
    PROVE  StepOK
<1>1. PoolOK(pool, {}, {})
  BY Facts
<1>2. IsSetConn(pool, SetConn(pool, c, r), c, r) /\ PoolOK(SetConn(pool, c, r), {}, {})
  BY <1>1, MoveOK
<1>. QED  BY <1>2, NoneNew DEF IsSetConn

LEMMA SetConnTwice ==
    ASSUME NEW p \in Pool, NEW c \in DOMAIN p.conns, NEW k, NEW r
    PROVE  SetConn(SetConn(p, c, k), c, r) = SetConn(p, c, r)
           /\ SetConn(p, c, k).conns[c] = k
BY PoolFields DEF SetConn, Pool

\* The attempt goes on, and nobody is replied to.
LEMMA TransportOpensOK ==
    ASSUME IInv, NEW c \in DOMAIN pool.conns, TransportOpens(c) PROVE StepOK
<1> DEFINE k == pool.conns[c]
           r == [k EXCEPT !.status = "open"]
<1>1. k \in Connection /\ StageOK(k) /\ k.stage = "connect" /\ ~k.error
  BY Facts DEF TransportOpens, At, ConnOK
<1>2. pool' = SetConn(pool, c, r)
  BY DEF TransportOpens, SetConn
<1>3. IsMoved(k, r)
  <2>1. r \in Connection /\ r.status = "open" /\ r.stage = "connect" /\ ~r.error
        /\ (r.gone <=> k.gone) /\ r.addr = k.addr /\ r.waiting = k.waiting
        /\ r.busy = k.busy /\ r.queue = k.queue
    BY <1>1 DEF Connection, Status
  <2> HIDE DEF r, k
  <2>. QED  BY <1>1, <2>1 DEF IsMoved, Pending, StageOK
<1>4. Pending(k)
  BY <1>1 DEF Pending
<1> HIDE DEF r
<1>. QED  BY <1>2, <1>3, <1>4, Moves

LEMMA AttemptFailsOK ==
    ASSUME IInv, NEW c \in DOMAIN pool.conns, AttemptFails(c) PROVE StepOK
<1> DEFINE k == pool.conns[c]
           r == [k EXCEPT !.status = "closed", !.error = TRUE]
<1>1. k \in Connection /\ StageOK(k) /\ k.stage = "connect"
  BY Facts DEF AttemptFails, At, ConnOK
<1>2. pool' = SetConn(pool, c, r)
  BY DEF AttemptFails, SetConn
<1>3. IsMoved(k, r)
  <2>1. r \in Connection /\ r.status = "closed" /\ r.stage = "connect"
        /\ (r.gone <=> k.gone) /\ r.addr = k.addr /\ r.waiting = k.waiting
        /\ r.busy = k.busy /\ r.queue = k.queue
    BY <1>1 DEF Connection, Status
  <2> HIDE DEF r, k
  <2>. QED  BY <1>1, <2>1 DEF IsMoved, Pending, StageOK
<1>4. Pending(k)
  BY <1>1 DEF Pending
<1> HIDE DEF r
<1>. QED  BY <1>2, <1>3, <1>4, Moves

\* A step that registers a connection.
LEMMA RegistrationStep ==
    ASSUME IInv, NEW c \in DOMAIN pool.conns, Pending(pool.conns[c]),
           NEW p, IsRegistration(pool, p, c, {}), pool' = p
    PROVE  StepOK
<1>1. PoolOK(pool', {}, {})
  BY DEF IsRegistration
<1>2. CASE DOMAIN pool'.conns = DOMAIN pool.conns
  BY <1>1, <1>2, NoneNew
<1>3. CASE H2ToH1(pool.conns[c])
  <2>1. SentAway
    BY <1>3 DEF IsRegistration, SentAway, Pending, H2ToH1
  <2>. QED  BY <1>1, <2>1 DEF StepOK, NoneTried
<1>. QED  BY <1>2, <1>3 DEF IsRegistration

LEMMA ConnectedOK ==
    ASSUME IInv, NEW c \in DOMAIN pool.conns, Connected(c) PROVE StepOK
<1> DEFINE k == pool.conns[c]
<1>1. k \in Connection /\ StageOK(k) /\ k.stage = "connect" /\ k.status \in Status
      /\ Pending(k) /\ PoolOK(pool, {}, {}) /\ alpn \in Protocols
  BY Facts, ConnectionFields DEF Connected, At, ConnOK, Pending
<1>2. CASE pool' = RegisterConnection(pool, c) /\ (k.error \/ k.status = "open")
  <2>1. ~k.error => (c \in {} <=> k.status = "closed")
    BY <1>2
  <2>2. {} \in SUBSET {c}
    OBVIOUS
  <2>3. IsRegistration(pool, RegisterConnection(pool, c), c, {})
    BY <1>1, <2>1, <2>2, RegisterOK
  <2>. QED  BY <1>1, <1>2, <2>3, RegistrationStep
<1>3. CASE k.status = "open" /\ pool' = [pool EXCEPT !.conns[c].stage = "tls_start"]
  <2> DEFINE r == [k EXCEPT !.stage = "tls_start"]
  <2>1. pool' = SetConn(pool, c, r)
    BY <1>3 DEF SetConn
  <2>2. IsMoved(k, r)
    <3>1. r \in Connection /\ r.stage = "tls_start"
          /\ (r.error <=> k.error) /\ r.addr = k.addr /\ r.waiting = k.waiting
          /\ r.busy = k.busy /\ r.queue = k.queue
      BY <1>1 DEF Connection, Stages
    <3>2. ~k.error
      BY <1>1, <1>3 DEF StageOK
    <3> HIDE DEF r, k
    <3>. QED  BY <3>1, <3>2 DEF IsMoved, Pending, StageOK
  <2> HIDE DEF r
  <2>. QED  BY <1>1, <2>1, <2>2, Moves
<1>. QED  BY <1>2, <1>3 DEF Connected

HandshakeFailed(k) == [k EXCEPT !.error = TRUE, !.stage = "tls_failed"]

LEMMA HandshakeErrorIs ==
    ASSUME NEW p \in Pool, NEW c \in DOMAIN p.conns, NEW k \in Connection
    PROVE  /\ HandshakeError(SetConn(p, c, k), c) = SetConn(p, c, HandshakeFailed(k))
           /\ HandshakeFailed(k) \in Connection
           /\ LET r == HandshakeFailed(k)
              IN  /\ r.addr = k.addr /\ r.waiting = k.waiting
                  /\ r.busy = k.busy /\ r.queue = k.queue /\ Pending(r) /\ StageOK(r)
<1>1. HandshakeError(SetConn(p, c, k), c)
        = SetConn(SetConn(p, c, k), c, HandshakeFailed(SetConn(p, c, k).conns[c]))
  BY DEF HandshakeError, SetConn, HandshakeFailed
<1>2. HandshakeError(SetConn(p, c, k), c) = SetConn(p, c, HandshakeFailed(k))
  BY <1>1, SetConnTwice
<1>3. PICK r : r = HandshakeFailed(k)
  OBVIOUS
<1>4. /\ r \in Connection /\ r.addr = k.addr /\ r.waiting = k.waiting
      /\ r.busy = k.busy /\ r.queue = k.queue
      /\ r.stage = "tls_failed" /\ r.error
  BY <1>3 DEF HandshakeFailed, Connection, Stages
<1>5. Pending(r) /\ StageOK(r)
  BY <1>4 DEF Pending, StageOK
<1>. QED  BY <1>2, <1>3, <1>4, <1>5

\* The handshake of a connection that came to k by this step fails.
LEMMA HandshakeErrorStep ==
    ASSUME IInv, NEW c \in DOMAIN pool.conns, Pending(pool.conns[c]), NEW k \in Connection,
           k.addr = pool.conns[c].addr, k.waiting = pool.conns[c].waiting,
           k.busy = pool.conns[c].busy, k.queue = pool.conns[c].queue,
           pool' = HandshakeError(SetConn(pool, c, k), c)
    PROVE  StepOK
<1>1. PICK r : r = HandshakeFailed(k)
  OBVIOUS
<1>2. pool' = SetConn(pool, c, r) /\ IsMoved(pool.conns[c], r)
  BY <1>1, Facts, HandshakeErrorIs DEF IsMoved
<1>. QED  BY <1>2, Moves

Begun(p, c, context) ==
    [p EXCEPT !.conns[c].stage = "handshake",
              !.conns[c].status = IF context THEN @ ELSE "closed"]
Started(k, context) ==
    [k EXCEPT !.stage = "handshake", !.status = IF context THEN @ ELSE "closed"]

LEMMA HandshakeStartsOK ==
    ASSUME IInv, NEW c \in DOMAIN pool.conns, HandshakeStarts(c) PROVE StepOK
<1> DEFINE k == pool.conns[c]
<1>1. k \in Connection /\ StageOK(k) /\ k.stage = "tls_start" /\ pool \in Pool /\ Pending(k)
  BY Facts DEF HandshakeStarts, At, ConnOK, Pending
<1>2. PICK context \in BOOLEAN :
        pool' = IF k.gone THEN HandshakeError(Begun(pool, c, context), c)
                ELSE Begun(pool, c, context)
  <2>1. \E context \in BOOLEAN :
          pool' = IF k.gone THEN HandshakeError(Begun(pool, c, context), c)
                  ELSE Begun(pool, c, context)
    BY Zenon DEF HandshakeStarts, Begun
  <2>. QED  BY <2>1
<1>3. Begun(pool, c, context) = SetConn(pool, c, Started(k, context))
  BY <1>1, PoolFields DEF SetConn, Begun, Started
<1>4. PICK r : r = Started(k, context)
  OBVIOUS
<1>5. /\ r \in Connection /\ r.stage = "handshake" /\ (r.error <=> k.error)
      /\ (r.gone <=> k.gone) /\ r.addr = k.addr /\ r.waiting = k.waiting
      /\ r.busy = k.busy /\ r.queue = k.queue
  BY <1>1, <1>4 DEF Connection, Stages, Status, Started
<1>6. CASE k.gone
  BY <1>1, <1>2, <1>3, <1>4, <1>5, <1>6, HandshakeErrorStep
<1>7. CASE ~k.gone
  <2>1. IsMoved(k, r)
    BY <1>1, <1>5, <1>7 DEF IsMoved, Pending, StageOK
  <2>. QED  BY <1>1, <1>2, <1>3, <1>4, <1>7, <2>1, Moves
<1>. QED  BY <1>6, <1>7

LEMMA HandshakeCompletesOK ==
    ASSUME IInv, NEW c \in DOMAIN pool.conns, NEW protocol \in Protocols,
           HandshakeCompletes(c, protocol)
    PROVE  StepOK
<1> DEFINE k == pool.conns[c]
           r == [k EXCEPT !.stage = "tls_established", !.alpn = protocol]
<1>1. k \in Connection /\ StageOK(k) /\ k.stage = "handshake" /\ k.status = "open" /\ Pending(k)
  BY Facts DEF HandshakeCompletes, At, ConnOK, Pending
<1>2. pool' = SetConn(pool, c, r)
  BY PoolFields, Facts DEF HandshakeCompletes, SetConn
<1>3. IsMoved(k, r)
  <2>1. /\ r \in Connection /\ r.stage = "tls_established" /\ (r.error <=> k.error)
        /\ r.status = k.status
        /\ (r.gone <=> k.gone) /\ r.addr = k.addr /\ r.waiting = k.waiting
        /\ r.busy = k.busy /\ r.queue = k.queue
    BY <1>1 DEF Connection, Stages
  <2> HIDE DEF r, k
  <2>. QED  BY <1>1, <2>1 DEF IsMoved, Pending, StageOK
<1> HIDE DEF r
<1>. QED  BY <1>1, <1>2, <1>3, Moves

LEMMA SetConnSame ==
    ASSUME NEW p \in Pool, NEW c \in DOMAIN p.conns
    PROVE  SetConn(p, c, p.conns[c]) = p
BY PoolFields DEF SetConn, Pool

LEMMA HandshakeFailsOK ==
    ASSUME IInv, NEW c \in DOMAIN pool.conns, HandshakeFails(c) PROVE StepOK
<1>1. pool.conns[c] \in Connection /\ Pending(pool.conns[c]) /\ pool \in Pool
  BY Facts DEF HandshakeFails, At, Pending
<1>2. pool' = HandshakeError(SetConn(pool, c, pool.conns[c]), c)
  BY <1>1, SetConnSame DEF HandshakeFails
<1>. QED  BY <1>1, <1>2, HandshakeErrorStep

LEMMA TunnelClosesOK ==
    ASSUME IInv, NEW c \in DOMAIN pool.conns, TunnelCloses(c) PROVE StepOK
<1> DEFINE k == pool.conns[c]
           r == [k EXCEPT !.status = "closed", !.gone = TRUE]
<1>1. /\ k \in Connection /\ StageOK(k) /\ pool \in Pool /\ Pending(k)
      /\ k.stage \in {"tls_start", "handshake", "tls_established", "tls_failed"}
  BY Facts DEF TunnelCloses, At, ConnOK, Pending
<1>2. [pool EXCEPT !.conns[c].status = "closed", !.conns[c].gone = TRUE] = SetConn(pool, c, r)
  BY <1>1, PoolFields DEF SetConn
<1>3. pool' = IF k.stage = "handshake" THEN HandshakeError(SetConn(pool, c, r), c)
              ELSE SetConn(pool, c, r)
  BY <1>2 DEF TunnelCloses, At
<1>4. /\ r \in Connection /\ r.stage = k.stage /\ (r.error <=> k.error)
      /\ r.status = "closed" /\ r.gone /\ r.addr = k.addr /\ r.waiting = k.waiting
      /\ r.busy = k.busy /\ r.queue = k.queue
  BY <1>1 DEF Connection, Status
<1> HIDE DEF r
<1>5. CASE k.stage = "handshake"
  BY <1>1, <1>3, <1>4, <1>5, HandshakeErrorStep
<1>6. CASE k.stage # "handshake"
  <2>1. IsMoved(k, r)
    BY <1>1, <1>4, <1>6 DEF IsMoved, Pending, StageOK
  <2>. QED  BY <1>1, <1>3, <1>6, <2>1, Moves
<1>. QED  BY <1>5, <1>6


\* A connection closes: those in flight fail, but for those that had been reset.
IsClosed(p, q, c) ==
    /\ q \in Pool /\ q.context = p.context /\ (Healthy(p) => Healthy(q))
    /\ DOMAIN q.conns = DOMAIN p.conns
    /\ q.conns[c] = ClosedConn(p.conns[c])
    /\ \A d \in DOMAIN p.conns : d # c => q.conns[d] = p.conns[d]
    /\ \A s \in Streams :
          IF s \in p.conns[c].busy /\ ~p.stream[s].left
          THEN q.stream[s].state = "failed"
          ELSE q.stream[s] = p.stream[s]

LEMMA ClosedIs ==
    ASSUME NEW p \in Pool, NEW c \in DOMAIN p.conns
    PROVE  IsClosed(p, Closed(p, c), c)
<1> DEFINE r == ClosedConn(p.conns[c])
           stream == [s \in Streams |->
                        IF s \in p.conns[c].busy /\ ~p.stream[s].left
                        THEN [p.stream[s] EXCEPT !.state = "failed"] ELSE p.stream[s]]
           p1 == SetConn(p, c, r)
<1>1. p.conns[c] \in Connection /\ p.stream \in [Streams -> Stream]
  BY PoolFields
<1>2. r \in Connection
  BY <1>1, ClosedConnIs DEF IsClosedConn
<1>3. IsSetConn(p, p1, c, r)
  BY <1>2, SetConnIs
<1>4. Closed(p, c) = [p1 EXCEPT !.stream = stream]
  BY PoolFields DEF Closed, SetConn, ClosedConn, Pool
<1>5. stream \in [Streams -> Stream]
  <2>1. \A s \in Streams : [p.stream[s] EXCEPT !.state = "failed"] \in Stream
    BY <1>1 DEF Stream
  <2>. QED  BY <1>1, <2>1
<1>6. \A s \in Streams :
         IF s \in p.conns[c].busy /\ ~p.stream[s].left
         THEN stream[s].state = "failed" ELSE stream[s] = p.stream[s]
  <2>1. \A s \in Streams : [p.stream[s] EXCEPT !.state = "failed"].state = "failed"
    BY <1>1 DEF Stream
  <2>. QED  BY <2>1
<1> HIDE DEF stream, p1
<1>7. p1 \in Pool
  BY <1>3 DEF IsSetConn
<1>8. /\ Closed(p, c) \in Pool /\ Closed(p, c).stream = stream
      /\ Closed(p, c).conns = p1.conns /\ Closed(p, c).context = p1.context
      /\ (Healthy(p1) => Healthy(Closed(p, c)))
  BY <1>4, <1>5, <1>7 DEF Pool, Healthy
<1>. QED  BY <1>3, <1>6, <1>8 DEF IsClosed, IsSetConn

\* What was in flight has failed or had been reset, what was queued stays queued.
LEMMA ClosedOK ==
    ASSUME NEW p, NEW c \in DOMAIN p.conns, PoolOK(p, {}, {c}), ~Pending(p.conns[c])
    PROVE  /\ PoolOK(Closed(p, c), {}, {}) /\ DOMAIN Closed(p, c).conns = DOMAIN p.conns
           /\ Closed(p, c).conns[c].stage = p.conns[c].stage
           /\ Closed(p, c).conns[c].alpn = p.conns[c].alpn
           /\ \A d \in DOMAIN p.conns : Closed(p, c).conns[d].addr = p.conns[d].addr
<1> DEFINE k == p.conns[c]
           q == Closed(p, c)
           Z == k.busy
<1>1. p \in Pool /\ Healthy(p) /\ ConnOK(p.stream, k) /\ Placed(p, {}) /\ Apart(p.conns)
  BY DEF PoolOK
<1>2. k \in Connection /\ Z \subseteq Streams
  BY <1>1, PoolFields, ConnectionFields
<1>3. IsClosed(p, q, c)
  BY <1>1, ClosedIs
<1>4. PICK r : r = ClosedConn(k)
  OBVIOUS
<1>5. /\ r \in Connection /\ r.status = "closed" /\ r.busy = {} /\ r.queue = k.queue
      /\ r.addr = k.addr /\ r.error = k.error /\ r.alpn = k.alpn /\ r.stage = k.stage
      /\ r.gone = k.gone /\ r.waiting = k.waiting /\ r.limit = k.limit
  <2>1. IsClosedConn(k, r)
    BY <1>2, <1>4, ClosedConnIs
  <2> HIDE DEF k
  <2>. QED  BY <2>1 DEF IsClosedConn
<1>6. k.waiting = <<>> /\ Elems(<<>>) = {} /\ k.stage = "done"
  BY <1>1 DEF ConnOK, ListsOK, Pending, Elems
<1> HIDE DEF q, k
<1>7. q.conns[c] = r
  BY <1>3, <1>4 DEF IsClosed, k
<1>8. \A t \in Streams : t \notin Z => q.stream[t] = p.stream[t]
  BY <1>3 DEF IsClosed, k
<1>9. ASSUME NEW t \in Z
      PROVE  /\ PlacedOne(q, {}, t) /\ (Active(q, t) => Active(p, t))
             /\ q.stream[t].state \in {"failed", "reset"}
  <2>1. t \in Streams /\ p.stream[t].state \in {"sent", "reset"} /\ PlacedOne(p, {}, t)
    BY <1>1, <1>2 DEF ConnOK, StatesOK, Placed
  <2>2. CASE ~p.stream[t].left
    <3>1. q.stream[t].state = "failed"
      BY <1>3, <2>1, <2>2 DEF IsClosed, k
    <3>. QED  BY <2>1, <3>1 DEF PlacedOne, Active
  <2>3. CASE p.stream[t].left
    <3>1. q.stream[t] = p.stream[t] /\ p.stream[t].state = "reset"
      BY <1>3, <2>1, <2>3 DEF IsClosed, PlacedOne, k
    <3>. QED  BY <2>1, <2>3, <3>1 DEF PlacedOne, Active
  <2>. QED  BY <2>2, <2>3
<1>10. ConnOK(q.stream, r)
  <2>1. StageOK(r)
    BY <1>5, <1>6 DEF StageOK
  <2>2. ListsOK(r)
    BY <1>1, <1>5, FS_EmptySet DEF ConnOK, ListsOK, Pending
  <2>3. StatesOK(q.stream, r)
    <3>1. \A t \in Elems(k.queue) : t \in Streams /\ t \notin Z
      BY <1>1, <1>2, ConnectionFields DEF ConnOK, ListsOK, Elems
    <3>. QED  BY <1>1, <1>5, <1>6, <1>8, <3>1 DEF ConnOK, StatesOK
  <2>. QED  BY <2>1, <2>2, <2>3 DEF ConnOK
<1>11. Settled(q.stream, r)
  BY <1>5 DEF Settled
<1>12. \A t \in Streams \ Z : t \in Has(r) <=> t \in Has(k)
  BY <1>5 DEF Has
<1>13. ASSUME NEW d \in DOMAIN p.conns \ {c}, NEW t \in Z
       PROVE  t \notin Elems(p.conns[d].waiting) /\ t \notin Has(p.conns[d])
  <2>1. ConnOK(p.stream, p.conns[d])
    BY DEF PoolOK
  <2>2. p.stream[t].state # "waiting"
    BY <1>1 DEF ConnOK, StatesOK
  <2>. QED  BY <1>1, <2>1, <2>2 DEF Apart, ConnOK, StatesOK, Has, k
<1>14. Changed(p, q, {c}, Z, {}, {}, {c}, {})
  <2> HIDE DEF Z
  <2>. QED  BY <1>1, <1>3, <1>5, <1>6, <1>7, <1>8, <1>9, <1>10, <1>11, <1>12, <1>13
               DEF Changed, IsClosed, k
<1>15. PoolOK(q, {}, {})
  BY <1>14, Change
<1>16. \A d \in DOMAIN p.conns : q.conns[d].addr = p.conns[d].addr
  BY <1>3, <1>5, <1>7 DEF IsClosed, k
<1>. QED  BY <1>3, <1>5, <1>7, <1>15, <1>16 DEF IsClosed, q, k

\* The reply comes first and the queued close after it.
LEMMA HandshakeFinishedOK ==
    ASSUME IInv, NEW c \in DOMAIN pool.conns, HandshakeFinished(c) PROVE StepOK
<1> DEFINE k == pool.conns[c]
<1>1. /\ k \in Connection /\ StageOK(k) /\ pool \in Pool /\ Pending(k)
      /\ PoolOK(pool, {}, {}) /\ alpn \in Protocols
      /\ k.stage \in {"tls_established", "tls_failed"}
  BY Facts DEF HandshakeFinished, At, ConnOK, Pending
<1>2. CASE k.stage = "tls_established" /\ ~k.gone
  <2>1. pool' = RegisterConnection(pool, c)
    BY <1>2 DEF HandshakeFinished, At
  <2>2. ~k.error => (c \in {} <=> k.status = "closed")
    BY <1>1, <1>2 DEF StageOK
  <2>3. IsRegistration(pool, RegisterConnection(pool, c), c, {})
    BY <1>1, <2>2, RegisterOK
  <2>. QED  BY <1>1, <2>1, <2>3, RegistrationStep
<1>3. CASE k.stage = "tls_established" /\ k.gone
  <2>1. PICK p : p = RegisterConnection(pool, c)
    OBVIOUS
  <2>2. pool' = Closed(p, c)
    BY <1>3, <2>1 DEF HandshakeFinished, At
  <2>3. ~k.error /\ k.status = "closed"
    BY <1>1, <1>3 DEF StageOK
  <2>4. IsRegistration(pool, p, c, {c})
    BY <1>1, <2>1, <2>3, RegisterOK
  <2>5. /\ PoolOK(p, {}, {c}) /\ c \in DOMAIN p.conns /\ DOMAIN pool.conns \subseteq DOMAIN p.conns
        /\ ~Pending(p.conns[c]) /\ p.conns[c].stage = "done" /\ p.conns[c].alpn = k.alpn
        /\ DOMAIN p.conns = DOMAIN pool.conns \/ H2ToH1(k)
    BY <2>4 DEF IsRegistration, Pending
  <2>6. /\ PoolOK(pool', {}, {}) /\ DOMAIN pool'.conns = DOMAIN p.conns
        /\ pool'.conns[c].stage = "done" /\ pool'.conns[c].alpn = k.alpn
    BY <2>2, <2>5, ClosedOK
  <2>7. CASE DOMAIN p.conns = DOMAIN pool.conns
    BY <2>6, <2>7, NoneNew
  <2>8. CASE H2ToH1(k)
    <3>1. SentAway
      BY <1>1, <2>6, <2>8 DEF SentAway, Pending, H2ToH1
    <3>. QED  BY <2>6, <3>1 DEF StepOK, NoneTried
  <2>. QED  BY <2>5, <2>7, <2>8
<1>4. CASE k.stage = "tls_failed"
  <2> DEFINE r == [k EXCEPT !.status = "closed"]
             p == SetConn(pool, c, r)
  <2>1. [pool EXCEPT !.conns[c].status = "closed"] = p
    BY DEF SetConn
  <2>2. pool' = RegisterConnection(p, c)
    BY <1>4, <2>1 DEF HandshakeFinished, At
  <2>3. /\ r \in Connection /\ r.stage = k.stage /\ (r.error <=> k.error)
        /\ r.addr = k.addr /\ r.waiting = k.waiting
        /\ r.busy = k.busy /\ r.queue = k.queue /\ r.alpn = k.alpn
    BY <1>1 DEF Connection, Status
  <2> HIDE DEF r
  <2>4. IsMoved(k, r) /\ r.error
    BY <1>1, <1>4, <2>3 DEF IsMoved, Pending, StageOK
  <2>5. IsSetConn(pool, p, c, r) /\ PoolOK(p, {}, {})
    BY <1>1, <2>4, MoveOK
  <2> HIDE DEF p
  <2>6. /\ c \in DOMAIN p.conns /\ DOMAIN p.conns = DOMAIN pool.conns
        /\ Pending(p.conns[c]) /\ p.conns[c].error /\ p.conns[c].alpn = k.alpn
    BY <2>3, <2>4, <2>5 DEF IsSetConn, IsMoved
  <2>7. {} \in SUBSET {c}
    OBVIOUS
  <2>8. IsRegistration(p, pool', c, {})
    BY <1>1, <2>2, <2>5, <2>6, <2>7, RegisterOK
  <2>9. IsRegistration(pool, pool', c, {})
    BY <2>6, <2>8 DEF IsRegistration, H2ToH1
  <2>. QED  BY <1>1, <2>9, RegistrationStep
<1>. QED  BY <1>1, <1>2, <1>3, <1>4

LEMMA ServerClosesOK ==
    ASSUME IInv, NEW c \in DOMAIN pool.conns, ServerCloses(c) PROVE StepOK
<1>1. PoolOK(pool, {}, {c})
  BY Facts, PoolWeaker
<1>2. ~Pending(pool.conns[c]) /\ pool' = Closed(pool, c)
  BY DEF ServerCloses, Established
<1>3. PoolOK(Closed(pool, c), {}, {}) /\ DOMAIN Closed(pool, c).conns = DOMAIN pool.conns
  BY <1>1, <1>2, ClosedOK
<1>. QED  BY <1>2, <1>3, NoneNew

\* A stream in flight comes to an end.
Ended(p, c, s, state) == Without(Outcome(p, s, state), c, s)

IsEnded(p, q, c, s) ==
    /\ PoolOK(q, {}, {c}) /\ DOMAIN q.conns = DOMAIN p.conns
    /\ SameButLists(p.conns[c], q.conns[c])
    /\ q.conns[c].busy = p.conns[c].busy \ {s} /\ q.conns[c].queue = p.conns[c].queue
    /\ \A t \in q.conns[c].busy : q.stream[t].state = "sent"

\* The stream is gone from its connection, which has room now.
LEMMA EndedOK ==
    ASSUME NEW p, PoolOK(p, {}, {}), NEW c \in DOMAIN p.conns,
           NEW s \in Streams, s \in p.conns[c].busy, NEW state \in {"answered", "failed"}
    PROVE  IsEnded(p, Ended(p, c, s, state), c, s)
<1> DEFINE k == p.conns[c]
           p1 == Outcome(p, s, state)
           q == Ended(p, c, s, state)
<1>1. /\ p \in Pool /\ Healthy(p) /\ ConnOK(p.stream, k) /\ Settled(p.stream, k)
      /\ Placed(p, {}) /\ Apart(p.conns)
  BY DEF PoolOK
<1>2. k \in Connection /\ k.busy \in SUBSET Streams /\ k.busy \ {s} \in SUBSET Streams
      /\ k.queue \in Seq(Streams)
  BY <1>1, PoolFields, ConnectionFields
<1>3. IsOutcome(p, p1, s, state)
  BY <1>1, OutcomeIs, StatesAre
<1> HIDE DEF p1
<1>4. PICK r : r = WithBusy(k, k.busy \ {s})
  OBVIOUS
<1>5. r \in Connection /\ r.busy = k.busy \ {s} /\ r.queue = k.queue /\ SameButLists(k, r)
  BY <1>2, <1>4, WithBusyIs
<1>6. q = SetConn(p1, c, r)
  BY <1>3, <1>4 DEF Ended, Without, IsOutcome, p1
<1>7. IsSetConn(p1, q, c, r)
  BY <1>3, <1>5, <1>6, SetConnIs DEF IsOutcome
<1> HIDE DEF q, k
<1>8. /\ q \in Pool /\ Healthy(q) /\ q.context = p.context /\ DOMAIN q.conns = DOMAIN p.conns
      /\ q.conns[c] = r /\ \A d \in DOMAIN p.conns : d # c => q.conns[d] = p.conns[d]
      /\ q.stream[s].state = state
      /\ \A t \in Streams : t # s => q.stream[t] = p.stream[t]
  BY <1>1, <1>3, <1>7 DEF IsOutcome, IsSetConn
<1>9. p.stream[s].state = "sent"
  BY <1>1 DEF Settled, k
<1>10. ConnOK(q.stream, r)
  <2>1. StageOK(r)
    BY <1>1, <1>5 DEF ConnOK, StageOK, SameButLists
  <2>2. IsFiniteSet(r.busy)
    <3>1. IsFiniteSet(k.busy)
      BY <1>1 DEF ConnOK, ListsOK
    <3>2. IsFiniteSet(k.busy \ {s})
      BY <3>1, FS_RemoveElement
    <3>. QED  BY <1>5, <3>2
  <2>3. ListsOK(r)
    BY <1>1, <1>5, <2>2 DEF ConnOK, ListsOK, SameButLists, Pending
  <2>4. StatesOK(q.stream, r)
    <3>1. \A t \in Elems(k.queue) \cup Elems(k.waiting) : t \in Streams /\ t # s
      <4>1. s \notin Elems(k.queue) /\ s \notin Elems(k.waiting)
        BY <1>1, <1>9 DEF ConnOK, ListsOK, StatesOK, k
      <4>. QED  BY <1>2, <4>1, ConnectionFields DEF Elems
    <3>. QED  BY <1>1, <1>2, <1>5, <1>8, <3>1 DEF ConnOK, StatesOK, SameButLists
  <2>. QED  BY <2>1, <2>3, <2>4 DEF ConnOK
<1>11. \A t \in r.busy : q.stream[t].state = "sent"
  BY <1>1, <1>2, <1>5, <1>8 DEF Settled
<1>12. \A t \in Streams \ {s} : t \in Has(r) <=> t \in Has(k)
  BY <1>5 DEF Has
<1>13. ASSUME NEW d \in DOMAIN p.conns \ {c}
       PROVE  s \notin Elems(p.conns[d].waiting) /\ s \notin Has(p.conns[d])
  <2>1. ConnOK(p.stream, p.conns[d])
    BY DEF PoolOK
  <2>. QED  BY <1>1, <1>9, <2>1 DEF Apart, ConnOK, StatesOK, Has
<1>14. PlacedOne(q, {}, s) /\ (Active(q, s) => Active(p, s))
  BY <1>8, <1>9 DEF PlacedOne, Active
<1>15. r.addr = k.addr /\ r.waiting = k.waiting
  BY <1>5 DEF SameButLists
<1>16. Changed(p, q, {c}, {s}, {}, {}, {}, {c})
  BY <1>1, <1>8, <1>10, <1>12, <1>13, <1>14, <1>15 DEF Changed, k
<1>17. PoolOK(q, {}, {c})
  BY <1>16, Change
<1>. QED  BY <1>5, <1>8, <1>11, <1>17 DEF IsEnded, q, k

LEMMA ResumeStep ==
    ASSUME IInv, NEW c \in DOMAIN pool.conns, NEW p, PoolOK(p, {}, {c}),
           DOMAIN p.conns = DOMAIN pool.conns, ~Pending(p.conns[c]), p.conns[c].alpn = "h2",
           p.conns[c].status = "open", \A t \in p.conns[c].busy : p.stream[t].state = "sent",
           pool' = ResumeQueue(p, c)
    PROVE  StepOK
<1>1. {} \cup {c} = {c}
  OBVIOUS
<1>2. Serves(p, ResumeQueue(p, c), c, {}, {})
  <2>1. PoolOK(p, {}, {} \cup {c})
    BY <1>1
  <2>. QED  BY <2>1, ResumeOK
<1>. QED  BY <1>2, NoneNew DEF Serves

LEMMA ServerResetOK ==
    ASSUME IInv, NEW c \in DOMAIN pool.conns, NEW s \in Streams, ServerReset(c, s)
    PROVE  StepOK
<1>1. PICK p : p = Ended(pool, c, s, "failed")
  OBVIOUS
<1>2. pool' = ResumeQueue(p, c)
  BY <1>1 DEF ServerReset, Ended, Without, SetConn, WithBusy
<1>3. "failed" \in {"answered", "failed"}
  OBVIOUS
<1>4. IsEnded(pool, p, c, s)
  BY <1>1, <1>3, Facts, EndedOK DEF ServerReset
<1>. QED  BY <1>2, <1>4, ResumeStep DEF IsEnded, SameButLists, Pending, ServerReset, Established

LEMMA RespondOK ==
    ASSUME IInv, NEW c \in DOMAIN pool.conns, NEW s \in Streams, Respond(c, s)
    PROVE  StepOK
<1> DEFINE k == pool.conns[c]
<1>1. /\ k \in Connection /\ k.alpn \in Protocols /\ ConnOK(pool.stream, k) /\ ~Pending(k)
      /\ k.status = "open" /\ s \in k.busy /\ pool \in Pool
  BY Facts, ConnectionFields DEF Respond, Established
<1>2. PICK p : p = Ended(pool, c, s, "answered")
  OBVIOUS
<1>3. [Outcome(pool, s, "answered") EXCEPT !.conns[c].busy = @ \ {s}] = p
  BY <1>2 DEF Ended, Without, SetConn, WithBusy
<1>4. PICK keep \in BOOLEAN : pool' = Responded(pool, c, s, keep)
  BY DEF Respond
<1>5. pool' = CASE p.conns[c].alpn = "h2" -> ResumeQueue(p, c)
                [] p.conns[c].alpn = "h1" /\ keep /\ alpn = "h1" -> p
                [] OTHER -> [p EXCEPT !.conns[c].status = "closed"]
  BY <1>3, <1>4 DEF Responded
<1>6. "answered" \in {"answered", "failed"}
  OBVIOUS
<1>7. IsEnded(pool, p, c, s)
  BY <1>1, <1>2, <1>6, Facts, EndedOK
<1> HIDE DEF k
<1>8. /\ PoolOK(p, {}, {c}) /\ DOMAIN p.conns = DOMAIN pool.conns /\ c \in DOMAIN p.conns
      /\ SameButLists(k, p.conns[c])
      /\ p.conns[c].busy = k.busy \ {s} /\ p.conns[c].queue = k.queue
      /\ \A t \in p.conns[c].busy : p.stream[t].state = "sent"
  BY <1>7 DEF IsEnded, k
<1>9. CASE p.conns[c].alpn = "h2"
  <2>1. pool' = ResumeQueue(p, c)
    BY <1>5, <1>9
  <2>. QED  BY <1>1, <1>8, <1>9, <2>1, ResumeStep DEF SameButLists, Pending
<1>10. CASE p.conns[c].alpn = "h1"
  <2>1. k.queue = <<>> /\ p.conns[c].busy = {} /\ p.conns[c].queue = <<>> /\ k.alpn = "h1"
    BY <1>1, <1>8, <1>10 DEF ConnOK, ListsOK, SameButLists
  <2>2. CASE pool' = p
    <3>1. Settled(p.stream, p.conns[c])
      BY <2>1 DEF Settled
    <3>2. PoolOK(p, {}, {})
      BY <1>8, <3>1 DEF PoolOK
    <3>. QED  BY <1>8, <2>2, <3>2, NoneNew
  <2>3. CASE pool' = [p EXCEPT !.conns[c].status = "closed"]
    <3>1. p \in Pool /\ Healthy(p) /\ ConnOK(p.stream, p.conns[c])
      BY <1>8 DEF PoolOK
    <3>2. p.conns[c] \in Connection
      BY <1>8, <3>1, PoolFields
    <3>3. PICK r : r = ClosedConn(p.conns[c])
      OBVIOUS
    <3>4. pool' = SetConn(p, c, [p.conns[c] EXCEPT !.status = "closed"])
      BY <2>3 DEF SetConn
    <3>5. r = [p.conns[c] EXCEPT !.status = "closed"]
      BY <2>1, <3>2, <3>3 DEF ClosedConn, Connection
    <3>6. /\ r \in Connection /\ r.status = "closed" /\ r.busy = {} /\ r.queue = <<>>
          /\ r.addr = p.conns[c].addr /\ r.stage = p.conns[c].stage
          /\ r.gone = p.conns[c].gone /\ r.waiting = p.conns[c].waiting
          /\ r.alpn = p.conns[c].alpn
      <4>1. IsClosedConn(p.conns[c], r)
        BY <3>2, <3>3, ClosedConnIs
      <4>. QED  BY <2>1, <4>1 DEF IsClosedConn
    <3>7. IsSetConn(p, pool', c, r)
      BY <1>8, <3>1, <3>4, <3>5, <3>6, SetConnIs
    <3>8. p.conns[c].stage = "done" /\ r.waiting = <<>> /\ Elems(<<>>) = {} /\ Has(r) = {}
          /\ Has(p.conns[c]) = {} /\ IsInjective(<<>>)
      BY <1>1, <1>8, <2>1, <3>1, <3>6
         DEF SameButLists, Pending, ConnOK, ListsOK, Has, Elems, IsInjective
    <3>9. ConnOK(pool'.stream, r) /\ Settled(pool'.stream, r)
      BY <3>6, <3>8, FS_EmptySet DEF ConnOK, StageOK, ListsOK, StatesOK, Pending, Settled
    <3>10. Changed(p, pool', {c}, {}, {}, {}, {c}, {})
      BY <1>8, <3>1, <3>6, <3>7, <3>8, <3>9 DEF Changed, IsSetConn
    <3>11. PoolOK(pool', {}, {})
      BY <1>8, <3>10, Change
    <3>. QED  BY <1>8, <3>7, <3>11, NoneNew DEF IsSetConn
  <2>. QED  BY <1>5, <1>10, <2>2, <2>3
<1>. QED  BY <1>1, <1>8, <1>9, <1>10 DEF SameButLists, Protocols

LEMMA SettingsOK ==
    ASSUME IInv, NEW c \in DOMAIN pool.conns, NEW limit \in Limits, Settings(c, limit)
    PROVE  StepOK
<1> DEFINE k == pool.conns[c]
           r == [k EXCEPT !.limit = limit]
<1>1. /\ k \in Connection /\ ConnOK(pool.stream, k) /\ Settled(pool.stream, k) /\ ~Pending(k)
      /\ k.status = "open" /\ k.alpn = "h2" /\ pool \in Pool /\ Healthy(pool)
      /\ PoolOK(pool, {}, {})
  BY Facts DEF Settings, Established
<1>2. PICK p : p = SetConn(pool, c, r)
  OBVIOUS
<1>3. pool' = ResumeQueue(p, c)
  BY <1>2 DEF Settings, SetConn
<1>4. /\ r \in Connection /\ r.addr = k.addr /\ r.status = k.status /\ r.error = k.error
      /\ r.alpn = k.alpn /\ r.stage = k.stage /\ r.gone = k.gone /\ r.waiting = k.waiting
      /\ r.busy = k.busy /\ r.queue = k.queue
  BY <1>1, LimitAssumption DEF Connection
<1> HIDE DEF r
<1>5. IsSetConn(pool, p, c, r)
  BY <1>1, <1>2, <1>4, SetConnIs
<1> HIDE DEF k
<1>6. ConnOK(p.stream, r)
  BY <1>1, <1>4, <1>5 DEF IsSetConn, ConnOK, StageOK, ListsOK, StatesOK, Pending
<1>7. Has(r) = Has(k)
  BY <1>4 DEF Has
<1>8. Changed(pool, p, {c}, {}, {}, {}, {}, {c})
  BY <1>1, <1>4, <1>5, <1>6, <1>7 DEF Changed, IsSetConn, k
<1>9. PoolOK(p, {}, {c})
  BY <1>1, <1>8, Change
<1>10. /\ DOMAIN p.conns = DOMAIN pool.conns /\ ~Pending(p.conns[c]) /\ p.conns[c].alpn = "h2"
       /\ p.conns[c].status = "open" /\ \A t \in p.conns[c].busy : p.stream[t].state = "sent"
  BY <1>1, <1>4, <1>5 DEF IsSetConn, Pending, Settled
<1>. QED  BY <1>3, <1>9, <1>10, ResumeStep


\* A stream asks for a connection: until it has the reply it is in hand.
IsAsked(p, q, s, a) ==
    /\ q \in Pool /\ (Healthy(p) => Healthy(q)) /\ q.conns = p.conns /\ q.context = p.context
    /\ q.stream[s].state = "waiting" /\ q.stream[s].addr = a
    /\ \A t \in Streams : t # s => q.stream[t] = p.stream[t]

Asked(p, s, a) == [p EXCEPT !.stream[s].state = "waiting", !.stream[s].addr = a]

LEMMA AskedIs ==
    ASSUME NEW p \in Pool, NEW s \in Streams, NEW a \in Addrs
    PROVE  IsAsked(p, Asked(p, s, a), s, a)
<1> DEFINE v == [p.stream[s] EXCEPT !.state = "waiting", !.addr = a]
<1>1. p.stream \in [Streams -> Stream] /\ p.stream[s] \in Stream
  BY PoolFields
<1>2. v \in Stream /\ v.state = "waiting" /\ v.addr = a
  BY <1>1 DEF Stream
<1>3. Asked(p, s, a) = [p EXCEPT !.stream = [p.stream EXCEPT ![s] = v]]
  BY <1>1 DEF Asked, Pool
<1> HIDE DEF v
<1>4. /\ [p.stream EXCEPT ![s] = v] \in [Streams -> Stream]
      /\ [p.stream EXCEPT ![s] = v][s] = v
      /\ \A t \in Streams : t # s => [p.stream EXCEPT ![s] = v][t] = p.stream[t]
  BY <1>1, <1>2
<1>. QED  BY <1>2, <1>3, <1>4 DEF IsAsked, Pool, Healthy

\* get_connection for a stream that has just asked.
LEMMA RequestOK ==
    ASSUME IInv, NEW s \in Streams, NEW a \in Addrs, Request(s, a)
    PROVE  StepOK
<1>1. /\ PoolOK(pool, {}, {}) /\ pool \in Pool /\ Healthy(pool) /\ alpn \in Protocols
      /\ pool.stream[s].state = "new"
      /\ \A c \in DOMAIN pool.conns : ConnOK(pool.stream, pool.conns[c])
  BY Facts DEF Request
<1>2. PICK p : p = Asked(pool, s, a)
  OBVIOUS
<1>3. pool' = GetConnection(p, s)
  BY <1>2 DEF Request, Asked
<1>4. IsAsked(pool, p, s, a)
  BY <1>1, <1>2, AskedIs
<1>5. ASSUME NEW c \in DOMAIN pool.conns
      PROVE  s \notin Elems(pool.conns[c].waiting) /\ s \notin Has(pool.conns[c])
  BY <1>1 DEF ConnOK, StatesOK, Has
<1>6. Solo(p)
  <2> SUFFICES ASSUME alpn = "h1", NEW t \in Streams, t # s PROVE ~Active(p, t)
    BY DEF Solo
  <2>1. pool.stream[t].state \in {"new", "answered"}
    BY DEF Request
  <2>. QED  BY <1>4, <2>1 DEF IsAsked, Active
<1>7. PlacedOne(p, {s}, s)
  BY <1>4, <1>5 DEF IsAsked, PlacedOne
<1>8. Changed(pool, p, {}, {s}, {}, {s}, {}, {})
  BY <1>1, <1>4, <1>5, <1>6, <1>7 DEF IsAsked, Changed
<1>9. PoolOK(p, {s}, {})
  BY <1>1, <1>8, Change
<1>10. /\ Made(p, GetConnection(p, s), s, {s}, {})
       /\ \A c \in DOMAIN GetConnection(p, s).conns \ DOMAIN p.conns : Suitable(p, s) = {}
  BY <1>1, <1>9, GetConnectionOK
<1>11. PoolOK(pool', {}, {})
  <2>1. {s} \ {s} = {}
    OBVIOUS
  <2>. QED  BY <1>3, <1>10, <2>1 DEF Made
<1>12. NoneTried
  <2> SUFFICES ASSUME NEW c \in DOMAIN pool'.conns \ DOMAIN pool.conns,
                      NEW d \in DOMAIN pool.conns, pool.conns[d].error
               PROVE  pool'.conns[c].addr # pool.conns[d].addr
    BY DEF NoneTried
  <2>1. pool'.conns[c].addr = a /\ Suitable(p, s) = {}
    BY <1>3, <1>4, <1>10 DEF Made, IsAsked
  <2>2. d \in DOMAIN p.conns /\ p.conns[d] = pool.conns[d] /\ p.stream[s].addr = a
    BY <1>4 DEF IsAsked
  <2>. QED  BY <2>1, <2>2 DEF Suitable
<1>. QED  BY <1>11, <1>12 DEF StepOK

\* The client is gone for a stream.
Left(p, s) == [p EXCEPT !.stream[s].left = TRUE]

IsLeft(p, q, s) ==
    /\ q \in Pool /\ (Healthy(p) => Healthy(q)) /\ q.conns = p.conns /\ q.context = p.context
    /\ q.stream[s].state = p.stream[s].state /\ q.stream[s].left
    /\ \A t \in Streams : t # s => q.stream[t] = p.stream[t]

LEMMA LeftIs ==
    ASSUME NEW p \in Pool, NEW s \in Streams
    PROVE  IsLeft(p, Left(p, s), s)
<1> DEFINE v == [p.stream[s] EXCEPT !.left = TRUE]
<1>1. p.stream \in [Streams -> Stream] /\ p.stream[s] \in Stream
  BY PoolFields
<1>2. v \in Stream /\ v.state = p.stream[s].state /\ v.left
  BY <1>1 DEF Stream
<1>3. Left(p, s) = [p EXCEPT !.stream = [p.stream EXCEPT ![s] = v]]
  BY DEF Left
<1> HIDE DEF v
<1>4. /\ [p.stream EXCEPT ![s] = v] \in [Streams -> Stream]
      /\ [p.stream EXCEPT ![s] = v][s] = v
      /\ \A t \in Streams : t # s => [p.stream EXCEPT ![s] = v][t] = p.stream[t]
  BY <1>1, <1>2
<1>. QED  BY <1>2, <1>3, <1>4 DEF IsLeft, Pool, Healthy

\* A stream that waits only leaves a mark, one that was sent is reset where it is.
LEMMA ClientResetOK ==
    ASSUME IInv, NEW s \in Streams, ClientReset(s)
    PROVE  StepOK
<1> DEFINE at == {c \in DOMAIN pool.conns :
                    s \in pool.conns[c].busy \cup Elems(pool.conns[c].queue)}
<1>1. /\ PoolOK(pool, {}, {}) /\ pool \in Pool /\ Healthy(pool) /\ Apart(pool.conns)
      /\ PlacedOne(pool, {}, s) /\ DOMAIN pool.conns \in SUBSET Nat
      /\ \A c \in DOMAIN pool.conns : /\ ConnOK(pool.stream, pool.conns[c])
                                      /\ Settled(pool.stream, pool.conns[c])
                                      /\ pool.conns[c] \in Connection
  BY Facts, PoolFields DEF PoolOK
<1>2. PICK p : p = Left(pool, s)
  OBVIOUS
<1>3. IsLeft(pool, p, s)
  BY <1>1, <1>2, LeftIs
<1>4. CASE pool.stream[s].state = "waiting"
  <2>1. pool' = p
    BY <1>2, <1>4 DEF ClientReset, Left
  <2>2. PICK c \in DOMAIN pool.conns : s \in Elems(pool.conns[c].waiting)
    BY <1>1, <1>4 DEF PlacedOne
  <2>3. \A d \in DOMAIN pool.conns : s \notin Has(pool.conns[d])
    BY <1>1, <1>4 DEF ConnOK, StatesOK, Has
  <2>4. \A d \in DOMAIN pool.conns : d # c => s \notin Elems(pool.conns[d].waiting)
    BY <1>1, <2>2 DEF Apart
  <2>5. \A t \in Streams : p.stream[t].state = pool.stream[t].state
    BY <1>3 DEF IsLeft
  <2>6. ConnOK(p.stream, pool.conns[c]) /\ Settled(p.stream, pool.conns[c])
    <3>1. /\ Elems(pool.conns[c].waiting) \subseteq Streams
          /\ Elems(pool.conns[c].queue) \subseteq Streams
          /\ pool.conns[c].busy \subseteq Streams
      BY <1>1, ConnectionFields DEF Elems
    <3>2. StatesOK(p.stream, pool.conns[c]) /\ Settled(p.stream, pool.conns[c])
      BY <1>1, <2>5, <3>1 DEF ConnOK, StatesOK, Settled
    <3>. QED  BY <1>1, <3>2 DEF ConnOK
  <2>7. PlacedOne(p, {}, s) /\ (Active(p, s) => Active(pool, s))
    BY <1>3, <1>4, <2>2 DEF IsLeft, PlacedOne, Active
  <2>8. Changed(pool, p, {c}, {s}, {}, {}, {}, {})
    BY <1>1, <1>3, <2>3, <2>4, <2>6, <2>7 DEF IsLeft, Changed
  <2>9. PoolOK(p, {}, {})
    BY <1>1, <2>8, Change
  <2>. QED  BY <1>3, <2>1, <2>9, NoneNew DEF IsLeft
<1>5. CASE pool.stream[s].state = "sent"
  <2>1. PICK q : q = Outcome(p, s, "reset")
    OBVIOUS
  <2>2. IsOutcome(p, q, s, "reset")
    BY <1>3, <2>1, OutcomeIs, StatesAre DEF IsLeft
  <2>3. at # {} /\ at \in SUBSET Nat
    BY <1>1, <1>5 DEF PlacedOne, Has
  <2>4. PICK c : c = Min(at)
    OBVIOUS
  <2>5. c \in at
    BY <2>3, <2>4, LeastIs
  <2>6. pool' = Reset(q, s, c)
    BY <1>2, <1>5, <2>1, <2>3, <2>4 DEF ClientReset, Left
  <2>7. c \in DOMAIN pool.conns /\ s \in Has(pool.conns[c])
    BY <2>5 DEF Has
  <2> HIDE DEF at
  <2>8. /\ q \in Pool /\ Healthy(q) /\ q.conns = pool.conns /\ q.context = pool.context
        /\ q.stream[s].state = "reset" /\ q.stream[s].left
        /\ \A t \in Streams : t # s => q.stream[t] = pool.stream[t]
    BY <1>1, <1>3, <2>2 DEF IsLeft, IsOutcome
  <2>9. ASSUME NEW d \in DOMAIN pool.conns, d # c
        PROVE  s \notin Elems(pool.conns[d].waiting) /\ s \notin Has(pool.conns[d])
    BY <1>1, <1>5, <2>7, <2>9 DEF Apart, ConnOK, StatesOK
  <2>10. PICK k : k = pool.conns[c]
    OBVIOUS
  <2>11. /\ Elems(k.waiting) \subseteq Streams /\ Elems(k.queue) \subseteq Streams
         /\ k.busy \subseteq Streams /\ ConnOK(pool.stream, k) /\ Settled(pool.stream, k)
         /\ s \in Has(k)
    BY <1>1, <2>7, <2>10, ConnectionFields DEF Elems
  <2>12. s \notin Elems(k.waiting)
    BY <1>5, <2>11 DEF ConnOK, StatesOK
  <2>13. ConnOK(q.stream, k)
    BY <2>8, <2>11, <2>12 DEF ConnOK, StatesOK
  <2>14. PlacedOne(q, {}, s) /\ (Active(q, s) => Active(pool, s))
    BY <1>5, <2>8 DEF PlacedOne, Active
  <2>15. Changed(pool, q, {c}, {s}, {}, {}, {}, {c})
    BY <1>1, <2>8, <2>9, <2>10, <2>13, <2>14 DEF Changed
  <2>16. PoolOK(q, {}, {} \cup {c})
    <3>1. {} \cup {c} = {c}
      OBVIOUS
    <3>. QED  BY <1>1, <2>15, <3>1, Change
  <2>17. ~Pending(k)
    BY <2>11 DEF ConnOK, ListsOK, Has, Elems
  <2>18. k.status = "closed" => c \in {} \/ Settled(q.stream, k)
    BY <2>11 DEF Settled
  <2>19. k.status = "open" => \A t \in k.busy : t # s => q.stream[t].state = "sent"
    BY <2>8, <2>11 DEF Settled
  <2>20. k.alpn = "h1" => k.busy \subseteq {s}
    BY <2>11 DEF ConnOK, ListsOK, Has, Elems
  <2>21. Serves(q, Reset(q, s, c), c, {}, {})
    BY <2>7, <2>8, <2>10, <2>16, <2>17, <2>18, <2>19, <2>20, ResetOK
  <2>. QED  BY <2>6, <2>8, <2>21, NoneNew DEF Serves
<1>. QED  BY <1>4, <1>5 DEF ClientReset

LEMMA ContextEventOK ==
    ASSUME IInv, ContextEvent
    PROVE  StepOK
<1>1. /\ PoolOK(pool, {}, {}) /\ pool \in Pool /\ Healthy(pool)
      /\ ~pool.context.known /\ pool.context.status = "open" /\ ContextOK(pool)
      /\ pool.context \in Context
  BY Facts, PoolFields DEF ContextEvent, PoolOK
<1>2. CASE pool' = [pool EXCEPT !.context.status = "closed"]
  <2> DEFINE v == [pool.context EXCEPT !.status = "closed"]
  <2>1. v \in Context /\ v.status = "closed"
    BY <1>1 DEF Context, Status
  <2>2. pool' = [pool EXCEPT !.context = v]
    BY <1>2
  <2> HIDE DEF v
  <2>3. /\ pool' \in Pool /\ Healthy(pool') /\ pool'.conns = pool.conns
        /\ pool'.stream = pool.stream /\ pool'.context = v
    BY <1>1, <2>1, <2>2 DEF Pool, Healthy
  <2>4. PICK p : p = pool'
    OBVIOUS
  <2>5. ContextOK(p) /\ Solo(p) /\ Placed(p, {})
    BY <1>1, <2>1, <2>3, <2>4 DEF PoolOK, ContextOK, Solo, Placed, PlacedOne, Active
  <2>6. PoolOK(p, {}, {})
    BY <1>1, <2>3, <2>4, <2>5 DEF PoolOK
  <2>. QED  BY <2>3, <2>4, <2>6, NoneNew
<1>3. PICK p : p = Adopt(pool)
  OBVIOUS
<1>4. PICK n : n = Len(pool.conns) + 1
  OBVIOUS
<1>5. PoolOK(p, {}, {}) /\ IsAdoption(pool, p)
  <2>1. {} \subseteq DOMAIN pool.conns
    OBVIOUS
  <2>. QED  BY <1>1, <1>3, <2>1, AdoptOK
<1>6. /\ DOMAIN p.conns = DOMAIN pool.conns \cup {n} /\ n \notin DOMAIN pool.conns
      /\ p.conns[n] = ContextEntry(pool)
  BY <1>4, <1>5 DEF IsAdoption
<1>7. p.conns[n].stage = "done" /\ p.conns[n].addr = pool.context.addr
  <2>1. /\ pool.context.addr \in Addrs \cup {NoAddr} /\ pool.context.status \in Status
        /\ pool.context.alpn \in Protocols /\ <<>> \in Seq(Streams)
    BY <1>1 DEF Context
  <2>2. IsEntry(ContextEntry(pool), pool.context.addr, pool.context.status,
                pool.context.alpn, <<>>)
    BY <2>1, EntryIs DEF ContextEntry
  <2>. QED  BY <1>6, <2>2 DEF IsEntry
<1>8. ASSUME PoolOK(pool', {}, {}), DOMAIN pool'.conns = DOMAIN p.conns,
             pool'.conns[n].addr = p.conns[n].addr
      PROVE  StepOK
  <2>1. NoneTried
    BY <1>1, <1>6, <1>7, <1>8 DEF NoneTried, ContextOK
  <2>. QED  BY <1>8, <2>1 DEF StepOK
<1>9. CASE pool' = p
  BY <1>5, <1>8, <1>9
<1>10. CASE pool' = Closed(p, Len(p.conns))
  <2>1. Len(p.conns) = n
    <3>1. p \in Pool
      BY <1>5 DEF PoolOK
    <3>2. /\ DOMAIN p.conns = 1 .. Len(p.conns) /\ Len(p.conns) \in Nat
          /\ DOMAIN pool.conns = 1 .. Len(pool.conns) /\ Len(pool.conns) \in Nat
      BY <1>1, <3>1, PoolFields
    <3>3. 1 .. Len(p.conns) = (1 .. Len(pool.conns)) \cup {Len(pool.conns) + 1}
      BY <1>4, <1>6, <3>2
    <3>4. PICK m \in Nat, l \in Nat : m = Len(p.conns) /\ l = Len(pool.conns)
      BY <3>2
    <3>5. l + 1 \in 1 .. m /\ (m = 0 \/ m \in (1 .. l) \cup {l + 1})
      BY <3>3, <3>4
    <3>. QED  BY <1>4, <3>4, <3>5
  <2>2. PoolOK(p, {}, {n}) /\ ~Pending(p.conns[n]) /\ n \in DOMAIN p.conns
    BY <1>5, <1>6, <1>7, PoolWeaker DEF Pending
  <2>3. /\ PoolOK(Closed(p, n), {}, {}) /\ DOMAIN Closed(p, n).conns = DOMAIN p.conns
        /\ \A d \in DOMAIN p.conns : Closed(p, n).conns[d].addr = p.conns[d].addr
    BY <2>2, ClosedOK
  <2>. QED  BY <1>8, <1>10, <2>1, <2>2, <2>3
<1>. QED  BY <1>2, <1>3, <1>9, <1>10 DEF ContextEvent

LEMMA InitOK ==
    ASSUME Init
    PROVE  IInv
<1>1. PICK context \in Contexts :
        pool = [conns |-> <<>>, context |-> context, crashed |-> FALSE,
                stream |-> [s \in Streams |->
                              [state |-> "new", addr |-> NoAddr, left |-> FALSE]]]
  BY DEF Init
<1>2. context \in Context /\ (context.status = "open" => ~context.error)
  <2>2. ASSUME NEW a \in Addrs, NEW protocol \in Protocols,
               context = [addr |-> a, status |-> "open", error |-> FALSE,
                          alpn |-> protocol, known |-> FALSE]
        PROVE  context \in Context /\ (context.status = "open" => ~context.error)
    BY <2>2 DEF Context, Status, Protocols
  <2>3. ASSUME NEW a \in Addrs, NEW error \in BOOLEAN,
               context = [addr |-> a, status |-> "closed", error |-> error,
                          alpn |-> "h1", known |-> FALSE]
        PROVE  context \in Context /\ (context.status = "open" => ~context.error)
    BY <2>3 DEF Context, Status, Protocols
  <2>4. ASSUME context = [addr |-> NoAddr, status |-> "closed", error |-> FALSE,
                          alpn |-> "h1", known |-> FALSE]
        PROVE  context \in Context /\ (context.status = "open" => ~context.error)
    BY <2>4 DEF Context, Status, Protocols
  <2>. QED  BY <2>2, <2>3, <2>4 DEF Contexts
<1>3. <<>> \in Seq(Connection) /\ DOMAIN <<>> = {}
  OBVIOUS
<1>4. [s \in Streams |-> [state |-> "new", addr |-> NoAddr, left |-> FALSE]]
        \in [Streams -> Stream]
  BY DEF Stream
<1>5. /\ pool \in Pool /\ Healthy(pool) /\ pool.conns = <<>> /\ pool.context = context
      /\ \A s \in Streams : pool.stream[s].state = "new"
  BY <1>1, <1>2, <1>3, <1>4 DEF Pool, Healthy
<1>6. Apart(pool.conns) /\ Placed(pool, {}) /\ Solo(pool) /\ ContextOK(pool)
  BY <1>2, <1>3, <1>5 DEF Apart, Placed, PlacedOne, Solo, Active, ContextOK
<1>7. PoolOK(pool, {}, {})
  BY <1>3, <1>5, <1>6 DEF PoolOK
<1>. QED  BY <1>5, <1>7 DEF IInv, TypeOK, Init

------------------------------------------------------------------------------
(* The theorems.                                                                         *)

LEMMA StepsOK ==
    ASSUME IInv, Next
    PROVE  StepOK
<1>1. ASSUME NEW s \in Streams, ClientReset(s) PROVE StepOK
  BY <1>1, ClientResetOK
<1>2. ASSUME NEW s \in Streams, NEW a \in Addrs, Request(s, a) PROVE StepOK
  BY <1>2, RequestOK
<1>3. CASE ContextEvent
  BY <1>3, ContextEventOK
<1>4. ASSUME NEW c \in DOMAIN pool.conns,
             \/ TransportOpens(c) \/ AttemptFails(c) \/ Connected(c) \/ ServerCloses(c)
             \/ HandshakeStarts(c) \/ \E protocol \in Protocols : HandshakeCompletes(c, protocol)
             \/ HandshakeFails(c) \/ TunnelCloses(c) \/ HandshakeFinished(c)
             \/ \E s \in Streams : Respond(c, s) \/ ServerReset(c, s)
             \/ \E limit \in Limits : Settings(c, limit)
      PROVE  StepOK
  <2>1. CASE TransportOpens(c)
    BY <2>1, TransportOpensOK
  <2>2. CASE AttemptFails(c)
    BY <2>2, AttemptFailsOK
  <2>3. CASE Connected(c)
    BY <2>3, ConnectedOK
  <2>4. CASE ServerCloses(c)
    BY <2>4, ServerClosesOK
  <2>5. CASE HandshakeStarts(c)
    BY <2>5, HandshakeStartsOK
  <2>6. CASE HandshakeFails(c)
    BY <2>6, HandshakeFailsOK
  <2>7. CASE TunnelCloses(c)
    BY <2>7, TunnelClosesOK
  <2>8. CASE HandshakeFinished(c)
    BY <2>8, HandshakeFinishedOK
  <2>9. ASSUME NEW protocol \in Protocols, HandshakeCompletes(c, protocol) PROVE StepOK
    BY <2>9, HandshakeCompletesOK
  <2>10. ASSUME NEW s \in Streams, Respond(c, s) PROVE StepOK
    BY <2>10, RespondOK
  <2>11. ASSUME NEW s \in Streams, ServerReset(c, s) PROVE StepOK
    BY <2>11, ServerResetOK
  <2>12. ASSUME NEW limit \in Limits, Settings(c, limit) PROVE StepOK
    BY <2>12, SettingsOK
  <2>. QED
    BY <1>4, <2>1, <2>2, <2>3, <2>4, <2>5, <2>6, <2>7, <2>8, <2>9, <2>10, <2>11, <2>12
<1>. QED  BY <1>1, <1>2, <1>3, <1>4 DEF Next

\* What the client speaks and how a server is reached stays as it is.
LEMMA Unchanged ==
    ASSUME Next
    PROVE  UNCHANGED <<alpn, secure>>
BY Zenon DEF Next, ClientReset, Request, ContextEvent, TransportOpens, AttemptFails, Connected,
             ServerCloses, HandshakeStarts, HandshakeCompletes, HandshakeFails, TunnelCloses,
             HandshakeFinished, Respond, ServerReset, Settings

\* Between two events every connection of the pool has lists that fit its stage and its
\* state, no stream is in two of them, every stream that waits for the reply to its
\* GetHttpConnection is in one, every stream that has it is in flight or queued somewhere,
\* and context.server is not in the pool while it can still be adopted.
THEOREM PoolInvariance == Spec => []IInv
<1>1. Init => IInv
  BY InitOK
<1>2. IInv /\ [Next]_vars => IInv'
  <2> SUFFICES ASSUME IInv, [Next]_vars PROVE IInv'
    OBVIOUS
  <2>1. CASE Next
    <3>1. PoolOK(pool', {}, {}) /\ alpn' = alpn /\ secure' = secure
      BY <2>1, StepsOK, Unchanged DEF StepOK
    <3>2. PoolOK(pool, {}, {})'
      BY <3>1 DEF PoolOK, Solo, ConnOK, StageOK, ListsOK, StatesOK, Settled, Apart, Placed,
                  PlacedOne, ContextOK, Healthy, Active
    <3>3. pool' \in Pool
      BY <3>1 DEF PoolOK
    <3>. QED  BY <3>1, <3>2, <3>3 DEF IInv, TypeOK
  <2>2. CASE UNCHANGED vars
    BY <2>2 DEF IInv, TypeOK, vars, PoolOK, Solo
  <2>. QED  BY <2>1, <2>2
<1>. QED  BY <1>1, <1>2, PTL DEF Spec

\* The pool, its connections and its streams keep their types.
THEOREM PoolTypeCorrect == Spec => []TypeOK
<1>1. IInv => TypeOK
  BY DEF IInv
<1>. QED  BY <1>1, PoolInvariance, PTL

\* An HTTP/1 connection carries one exchange at a time, and no GetHttpConnection is
\* answered twice: the assertion in Http1Client.send cannot fail.
THEOREM ExchangesSeparateHolds == Spec => []ExchangesSeparate
<1>1. IInv => ExchangesSeparate
  <2> SUFFICES ASSUME IInv, NEW c \in DOMAIN pool.conns, pool.conns[c].alpn = "h1"
               PROVE  /\ Cardinality(pool.conns[c].busy) <= 1
                      /\ pool.conns[c].queue = <<>>
    BY Facts DEF ExchangesSeparate, Healthy
  <2>1. /\ pool.conns[c].queue = <<>> /\ IsFiniteSet(pool.conns[c].busy)
        /\ \A s, t \in pool.conns[c].busy : s = t
    BY Facts DEF ConnOK, ListsOK
  <2>2. CASE pool.conns[c].busy = {}
    BY <2>1, <2>2, FS_EmptySet
  <2>3. ASSUME NEW s \in pool.conns[c].busy PROVE Cardinality(pool.conns[c].busy) <= 1
    <3>1. pool.conns[c].busy = {s}
      BY <2>1
    <3>2. Cardinality({s}) = 1
      BY FS_Singleton
    <3>. QED  BY <3>1, <3>2
  <2>. QED  BY <2>1, <2>2, <2>3
<1>. QED  BY <1>1, PoolInvariance, PTL

\* No stream is forgotten between its request for a connection and its answer: it waits
\* for one connection that is being made, once, or it is in flight on an open one, or it is
\* queued where the limit is used up.
THEOREM NobodyForgottenHolds == Spec => []NobodyForgotten
<1>1. ASSUME IInv, NEW s \in Streams, pool.stream[s].state = "waiting" PROVE Waits(s)
  <2>1. PICK c \in DOMAIN pool.conns : s \in Elems(pool.conns[c].waiting)
    BY <1>1, Facts DEF PlacedOne
  <2>2. ListsOK(pool.conns[c]) /\ Apart(pool.conns)
    BY <1>1, Facts DEF ConnOK, PoolOK
  <2>3. Pending(pool.conns[c])
    BY <2>1, <2>2 DEF ListsOK, Elems
  <2>. QED  BY <2>1, <2>2, <2>3 DEF Waits, ListsOK, Apart
<1>2. ASSUME IInv, NEW s \in Streams, pool.stream[s].state = "sent" PROVE Underway(s)
  <2>1. PICK c \in DOMAIN pool.conns : s \in Has(pool.conns[c])
    BY <1>2, Facts DEF PlacedOne
  <2>2. PICK k : k = pool.conns[c]
    OBVIOUS
  <2>3. /\ k \in Connection /\ k.status \in Status /\ k.limit \in Nat
        /\ Settled(pool.stream, k) /\ ListsOK(k) /\ s \in Has(k)
    BY <1>2, <2>1, <2>2, Facts, ConnectionFields DEF ConnOK
  <2>4. CASE s \in k.busy
    BY <2>2, <2>3, <2>4 DEF Settled, Underway, Status
  <2>5. CASE s \in Elems(k.queue)
    <3>1. k.queue # <<>>
      BY <2>5 DEF Elems
    <3>2. Cardinality(k.busy) \in Nat
      BY <2>3, FS_CardinalityType DEF ListsOK
    <3>3. k.status = "open" => Cardinality(k.busy) >= k.limit
      BY <2>3, <3>1, <3>2 DEF Settled, HasFree
    <3>. QED  BY <2>2, <2>5, <3>3 DEF Underway
  <2>. QED  BY <2>3, <2>4, <2>5 DEF Has
<1>3. IInv => NobodyForgotten
  BY <1>1, <1>2 DEF NobodyForgotten
<1>. QED  BY <1>3, PoolInvariance, PTL

\* Once an attempt to reach a server has failed, get_connection opens no other connection
\* there, except for the streams that register_connection sends away.
THEOREM NoAttemptAfterErrorHolds == Spec => NoAttemptAfterError
<1>1. IInv /\ [Next]_vars => [NoneTried]_vars
  BY StepsOK DEF StepOK
<1>2. NoneTried => \A c \in DOMAIN pool'.conns \ DOMAIN pool.conns, d \in DOMAIN pool.conns :
          pool.conns[d].error => pool'.conns[c].addr # pool.conns[d].addr \/ SentAway
  BY DEF NoneTried
<1>. QED  BY <1>1, <1>2, PoolInvariance, PTL DEF Spec, NoAttemptAfterError

=============================================================================
