---------------------------- MODULE ClientTlsProofs ----------------------------
(***************************************************************************)
(* Proofs about NextLayer.tla and ClientTls.tla, for any events and         *)
(* commands.  First NextLayer alone, here the instance Inner: whatever      *)
(* order events, the next_layer hook and the chosen layer's own pauses come *)
(* in, the chosen layer gets what NextLayer was fed, once and in order, and *)
(* is a Layer as if it had been alone; where its exceptions end that, what  *)
(* is lost or repeated is what they left behind.  Then the TLS layer in     *)
(* front of it: the same from the client's connection on, across the        *)
(* handshake.                                                               *)
(***************************************************************************)
EXTENDS ClientTls, SequenceLemmas, TLAPS

\* The three places an event can be in beside the chosen layer, and when they are empty.
\* HandedOverInOrder is not inductive by itself: an event that goes straight to the chosen
\* layer must find nothing kept and nothing queued, and one that is kept must find nothing
\* queued.
Places ==
    /\ rebound => ~asking /\ events = <<>> /\ chosen
    /\ pc = "replaying" => chosen /\ ~rebound /\ ~asking
    /\ pc = "draining" => ~asking /\ (chosen => rebound)
    /\ pc = "idle" /\ stranded = {} => (askingQueue # <<>> => asking) /\ (chosen => rebound)
    /\ pc = "idle" /\ ~asking => Entries(askingQueue) \subseteq stranded
    /\ pc # "replaying" => replayed = 0
    /\ mode # "idle" => rebound \/ pc = "replaying"
    /\ asking \/ pc = "replaying" => events # <<>>
    /\ chosen => fed # <<>>

\* As long as no exception has left anything behind, the places hold what was fed in order;
InOrder == stranded = {} => arrived \o Inner!Kept \o askingQueue = fed

\* and always, nothing is missing, and what is given to the chosen layer a second time was
\* left behind before.
Whereabouts ==
    /\ Entries(arrived) \cup Entries(events) \cup Entries(askingQueue) = Entries(fed)
    /\ Distinct(events) /\ Distinct(askingQueue)
    /\ Entries(events) \cap Entries(askingQueue) = {}
    /\ \A i \in DOMAIN events :
         IF i <= replayed THEN events[i] \in Entries(arrived)
         ELSE events[i] \in Entries(arrived) => events[i] \in stranded
    /\ Entries(askingQueue) \cap Entries(arrived) \subseteq stranded
    /\ \A i, j \in DOMAIN arrived : arrived[i] = arrived[j] => i = j \/ arrived[i] \in stranded

NextLayerInv == Inner!TypeOK /\ Places /\ InOrder /\ Whereabouts /\ Distinct(fed)

------------------------------------------------------------------------------

LEMMA EventsAssociative == \A a, b, c \in Seq(Events) : (a \o b) \o c = a \o (b \o c)
BY Associative

LEMMA ElemsIs ==
    \A s : Elems(s) = Entries(s) /\ Inner!Elems(s) = Entries(s) /\ Inner!Child!Elems(s) = Entries(s)
BY DEF Elems, Inner!Elems, Inner!Child!Elems, Entries

LEMMA InitNextLayer == Inner!Init => NextLayerInv
<1> SUFFICES ASSUME Inner!Init PROVE NextLayerInv
  OBVIOUS
<1>1. Inner!TypeOK
  <2>1. Inner!Child!TypeOK
    BY EmptySeq DEF Inner!Init, Inner!Child!Init, Inner!Child!TypeOK, Inner!Child!Modes
  <2>2. replayed \in 0 .. Len(events)
    BY EmptySeq DEF Inner!Init
  <2>3. askingQueue \in Seq(Events) /\ events \in Seq(Events) /\ fed \in Seq(Events)
    BY EmptySeq DEF Inner!Init
  <2>. QED  BY <2>1, <2>2, <2>3 DEF Inner!Init, Inner!TypeOK
<1>2. Places
  BY EntriesSmall DEF Inner!Init, Inner!Child!Init, Places
<1>3. InOrder
  BY EmptySeq, ConcatEmptySeq DEF Inner!Init, Inner!Child!Init, InOrder, Inner!Kept
<1>4. Distinct(fed) /\ Whereabouts
  BY EntriesSmall DEF Inner!Init, Inner!Child!Init, Distinct, Whereabouts
<1>. QED  BY <1>1, <1>2, <1>3, <1>4 DEF NextLayerInv

\* What every step of the chosen layer does to the history, and whether it runs then.
LEMMA ChildStep ==
    ASSUME Inner!Child!TypeOK
    PROVE  /\ \A e \in Events : Inner!GiveToChild(e) =>
                 Inner!Child!TypeOK' /\ arrived' = Append(arrived, e)
           /\ \A c \in Commands : Inner!Child!Continue(c) \/ Inner!Child!YieldBlocking(c) =>
                 Inner!Child!TypeOK' /\ arrived' = arrived
           /\ \A c \in Commands : Inner!Child!YieldBlocking(c) => mode # "idle"
           /\ Inner!Child!Finish => Inner!Child!TypeOK' /\ arrived' = arrived /\ mode # "idle"
           /\ Inner!Child!Raise =>
                 Inner!Child!TypeOK' /\ arrived' = arrived /\ mode # "idle" /\ mode' = "idle"
           /\ UNCHANGED Inner!childVars =>
                 Inner!Child!TypeOK' /\ arrived' = arrived /\ mode' = mode
<1> USE DEF Inner!Child!TypeOK, Inner!Child!Modes
<1>1. ASSUME NEW e \in Events, Inner!GiveToChild(e)
      PROVE  Inner!Child!TypeOK' /\ arrived' = Append(arrived, e)
  <2>1. Append(arrived, e) \in Seq(Events) /\ Append(begun, e) \in Seq(Events)
        /\ Append(queue, e) \in Seq(Events)
    OBVIOUS
  <2>2. CASE Inner!Child!HandleEvent(e)
    BY <2>1, <2>2 DEF Inner!Child!HandleEvent
  <2>3. CASE Inner!Child!QueueEvent(e)
    BY <2>1, <2>3 DEF Inner!Child!QueueEvent
  <2>. QED  BY <1>1, <2>2, <2>3 DEF Inner!GiveToChild
<1>2. ASSUME NEW c \in Commands, Inner!Child!Continue(c) \/ Inner!Child!YieldBlocking(c)
      PROVE  Inner!Child!TypeOK' /\ arrived' = arrived /\ (Inner!Child!YieldBlocking(c) => mode # "idle")
  BY <1>2 DEF Inner!Child!Continue, Inner!Child!YieldBlocking
<1>3. ASSUME Inner!Child!Finish PROVE Inner!Child!TypeOK' /\ arrived' = arrived /\ mode # "idle"
  <2>1. CASE Inner!Child!FinishHandling \/ Inner!Child!FinishContinuing
    BY <2>1 DEF Inner!Child!FinishHandling, Inner!Child!FinishContinuing
  <2>2. CASE Inner!Child!ReplayQueued
    <3>1. Head(queue) \in Events /\ Tail(queue) \in Seq(Events)
      BY <2>2, HeadTailProperties DEF Inner!Child!ReplayQueued
    <3>. QED  BY <2>2, <3>1 DEF Inner!Child!ReplayQueued
  <2>. QED  BY <1>3, <2>1, <2>2 DEF Inner!Child!Finish
<1>4. ASSUME UNCHANGED Inner!childVars
      PROVE  Inner!Child!TypeOK' /\ arrived' = arrived /\ mode' = mode
  BY <1>4 DEF Inner!childVars
<1>5. ASSUME Inner!Child!Raise
      PROVE  Inner!Child!TypeOK' /\ arrived' = arrived /\ mode # "idle" /\ mode' = "idle"
  BY <1>5 DEF Inner!Child!Raise
<1>. QED  BY <1>1, <1>2, <1>3, <1>4, <1>5

\* An event joins what the chosen layer has been given.
LEMMA Given ==
    ASSUME NEW a \in Seq(Events), NEW e \in Events, NEW x,
           \A i, j \in DOMAIN a : a[i] = a[j] => i = j \/ a[i] \in x,
           e \in Entries(a) => e \in x
    PROVE  /\ Entries(Append(a, e)) = Entries(a) \cup {e}
           /\ \A i, j \in DOMAIN Append(a, e) :
                Append(a, e)[i] = Append(a, e)[j] => i = j \/ Append(a, e)[i] \in x
<1> DEFINE b == Append(a, e)
<1>1. /\ Len(a) \in Nat /\ DOMAIN a = 1 .. Len(a) /\ DOMAIN b = 1 .. Len(a) + 1
      /\ \A i \in 1 .. Len(a) : b[i] = a[i]
      /\ b[Len(a) + 1] = e
  OBVIOUS
<1> HIDE DEF b
<1>2. ASSUME NEW i \in DOMAIN b, NEW j \in DOMAIN b, b[i] = b[j], i # j PROVE b[i] \in x
  <2>1. CASE i \in 1 .. Len(a) /\ j \in 1 .. Len(a)
    BY <1>1, <1>2, <2>1
  <2>2. CASE i = Len(a) + 1 \/ j = Len(a) + 1
    <3>1. \E k \in DOMAIN a : a[k] = e
      BY <1>1, <1>2, <2>2
    <3>2. e \in Entries(a) /\ b[i] = e
      BY <1>1, <1>2, <2>2, <3>1 DEF Entries
    <3>. QED  BY <3>2
  <2>. QED  BY <1>1, <2>1, <2>2
<1>. QED  BY <1>2, AppendNew DEF b

\* The front of a queue of distinct events, and the rest.
LEMMA TakeFirst ==
    ASSUME NEW s \in Seq(Events), s # <<>>, Distinct(s)
    PROVE  /\ Head(s) \in Events /\ Tail(s) \in Seq(Events) /\ Distinct(Tail(s))
           /\ Entries(s) = {Head(s)} \cup Entries(Tail(s)) /\ Head(s) \notin Entries(Tail(s))
<1> DEFINE t == Tail(s)
<1>1. /\ t \in Seq(Events) /\ Len(s) \in Nat \ {0} /\ DOMAIN s = 1 .. Len(s)
      /\ DOMAIN t = 1 .. Len(s) - 1
      /\ \A i \in 1 .. Len(s) - 1 : t[i] = s[i + 1]
      /\ Head(s) = s[1] /\ Head(s) \in Events
  OBVIOUS
<1> HIDE DEF t
<1>2. \A i \in DOMAIN t : i + 1 \in DOMAIN s /\ i + 1 # 1
  BY <1>1
<1>3. \A i \in DOMAIN s : i = 1 \/ (i - 1 \in DOMAIN t /\ t[i - 1] = s[i])
  BY <1>1
<1>4. Distinct(t)
  BY <1>1, <1>2 DEF Distinct
<1>5. Entries(s) = {Head(s)} \cup Entries(t)
  <2>1. ASSUME NEW x \in Entries(s) PROVE x \in {Head(s)} \cup Entries(t)
    BY <1>1, <1>3, <2>1 DEF Entries
  <2>2. ASSUME NEW x \in {Head(s)} \cup Entries(t) PROVE x \in Entries(s)
    BY <1>1, <1>2, <2>2 DEF Entries
  <2>. QED  BY <2>1, <2>2
<1>6. Head(s) \notin Entries(t)
  BY <1>1, <1>2 DEF Entries, Distinct
<1>7. Head(s) \in Events /\ t \in Seq(Events)
  BY <1>1
<1>. QED  BY <1>4, <1>5, <1>6, <1>7 DEF t

\* An event joins what NextLayer keeps, or what waits for its hook.
LEMMA KeptMore ==
    ASSUME NEW s \in Seq(Events), NEW e \in Events
    PROVE  /\ Append(s, e) \in Seq(Events) /\ Len(Append(s, e)) = Len(s) + 1
           /\ DOMAIN Append(s, e) = 1 .. Len(s) + 1 /\ DOMAIN s = 1 .. Len(s) /\ Len(s) \in Nat
           /\ \A i \in 1 .. Len(s) : Append(s, e)[i] = s[i]
           /\ Append(s, e)[Len(s) + 1] = e
           /\ Entries(Append(s, e)) = Entries(s) \cup {e}
           /\ Distinct(s) /\ e \notin Entries(s) => Distinct(Append(s, e))
<1>1. /\ Append(s, e) \in Seq(Events) /\ Len(Append(s, e)) = Len(s) + 1
      /\ DOMAIN Append(s, e) = 1 .. Len(s) + 1 /\ DOMAIN s = 1 .. Len(s) /\ Len(s) \in Nat
      /\ \A i \in 1 .. Len(s) : Append(s, e)[i] = s[i]
      /\ Append(s, e)[Len(s) + 1] = e
  OBVIOUS
<1>. QED  BY <1>1, AppendNew

\* Keep at the end of events, of an event that has not been given to the chosen layer, or
\* was left behind.
LEMMA KeepsAccounts ==
    ASSUME Whereabouts, events \in Seq(Events), NEW e \in Events, Inner!Keep(e),
           replayed = 0, stranded' = stranded, arrived' = arrived,
           e \notin Entries(events), e \in Entries(arrived) => e \in stranded,
           Distinct(askingQueue'), Entries(askingQueue') \subseteq Entries(askingQueue) \ {e},
           Entries(arrived) \cup Entries(events) \cup {e} \cup Entries(askingQueue')
               = Entries(fed')
    PROVE  Whereabouts'
<1> DEFINE n == Append(events, e)
<1>1. /\ events' = n /\ replayed' = 0
  BY DEF Inner!Keep
<1>2. /\ n \in Seq(Events) /\ DOMAIN n = 1 .. Len(events) + 1 /\ DOMAIN events = 1 .. Len(events)
      /\ Len(events) \in Nat
      /\ \A i \in 1 .. Len(events) : n[i] = events[i]
      /\ n[Len(events) + 1] = e
      /\ Entries(n) = Entries(events) \cup {e} /\ Distinct(n)
  BY KeptMore DEF Whereabouts
<1> HIDE DEF n
<1>3. ASSUME NEW i \in DOMAIN n
      PROVE  IF i <= 0 THEN n[i] \in Entries(arrived)
             ELSE n[i] \in Entries(arrived) => n[i] \in stranded
  <2>1. CASE i = Len(events) + 1
    BY <1>2, <2>1
  <2>2. CASE i \in 1 .. Len(events)
    BY <1>2, <2>2 DEF Whereabouts
  <2>. QED  BY <1>2, <2>1, <2>2
<1>. QED  BY <1>1, <1>2, <1>3 DEF Whereabouts

\* An event that is fed goes to the end of what was handed over, is kept or is queued.
LEMMA FeedIInv ==
    ASSUME NextLayerInv, NEW e \in Events, Inner!Feed(e)
    PROVE  NextLayerInv'
<1> USE DEF NextLayerInv
<1>1. /\ arrived \in Seq(Events) /\ Inner!Child!TypeOK /\ events \in Seq(Events)
      /\ askingQueue \in Seq(Events) /\ fed \in Seq(Events)
  BY DEF Inner!TypeOK, Inner!Child!TypeOK
<1>2. /\ fed' = Append(fed, e) /\ fed' \in Seq(Events) /\ Distinct(fed')
      /\ Entries(fed') = Entries(fed) \cup {e} /\ fed' # <<>>
      /\ e \notin Entries(fed) /\ stranded' = stranded
  <2>1. fed' = Append(fed, e) /\ e \notin Entries(fed) /\ stranded' = stranded
    BY ElemsIs DEF Inner!Feed, Inner!FeedKeep, Inner!FeedPaused, Inner!FeedChild
  <2>2. Entries(fed') = Entries(fed) \cup {e} /\ fed' # <<>> /\ fed' \in Seq(Events)
    BY <1>1, <2>1, AppendNew
  <2>. QED  BY <1>1, <2>1, <2>2, AppendNew
<1>3. e \notin Entries(arrived) /\ e \notin Entries(events) /\ e \notin Entries(askingQueue)
  BY <1>2 DEF Whereabouts
<1>4. CASE Inner!FeedKeep(e)
  <2>1. Inner!Child!TypeOK' /\ arrived' = arrived /\ mode' = mode
    BY <1>1, <1>4, ChildStep DEF Inner!FeedKeep
  <2>2. /\ askingQueue' = askingQueue /\ replayed = 0 /\ replayed' = 0
        /\ ~rebound /\ ~asking /\ pc' = pc /\ pc = "idle" /\ mode = "idle"
        /\ chosen' = chosen /\ rebound' = rebound /\ asking' = Inner!Asks(e)
        /\ events' = Append(events, e) /\ Inner!Keep(e)
    BY <1>4 DEF Inner!FeedKeep, Inner!Keep, Inner!Idle, Places
  <2>3. Inner!TypeOK'
    BY <1>2, <1>4, <2>1, <2>2 DEF Inner!FeedKeep, Inner!Keep, Inner!TypeOK, Inner!Asks
  <2>4. Places'
    <3>1. events' # <<>>
      BY <1>1, <2>2
    <3>. QED  BY <1>2, <2>1, <2>2, <3>1 DEF Places
  <2>5. Whereabouts'
    <3>1. /\ Distinct(askingQueue') /\ Entries(askingQueue') \subseteq Entries(askingQueue) \ {e}
          /\ Entries(arrived) \cup Entries(events) \cup {e} \cup Entries(askingQueue')
               = Entries(fed')
      BY <1>2, <1>3, <2>2 DEF Whereabouts
    <3>. QED  BY <1>1, <1>2, <1>3, <2>1, <2>2, <3>1, KeepsAccounts
  <2>6. ASSUME stranded = {} PROVE arrived' \o Inner!Kept' \o askingQueue' = fed'
    <3>1. Inner!Kept \in Seq(Events) /\ Inner!Kept' = Append(Inner!Kept, e)
      BY <1>1, <2>2, RestAppend DEF Inner!Kept
    <3>2. arrived \o Append(Inner!Kept, e) = Append(arrived \o Inner!Kept, e)
      BY <1>1, <3>1, ConcatAppend
    <3>3. arrived \o Inner!Kept \in Seq(Events) /\ Append(arrived \o Inner!Kept, e) \in Seq(Events)
      BY <1>1, <3>1
    <3>4. askingQueue = <<>>
      BY <2>2, <2>6 DEF Places
    <3>5. arrived \o Inner!Kept = fed
      BY <2>6, <3>3, <3>4, ConcatEmptySeq DEF InOrder
    <3>. QED  BY <1>2, <2>1, <2>2, <3>1, <3>2, <3>3, <3>4, <3>5, ConcatEmptySeq
  <2>. QED  BY <1>2, <2>3, <2>4, <2>5, <2>6 DEF InOrder
<1>5. CASE Inner!FeedPaused(e)
  <2>1. Inner!Child!TypeOK' /\ arrived' = arrived /\ mode' = mode /\ mode = "idle"
    BY <1>1, <1>5, ChildStep DEF Inner!FeedPaused, Inner!Idle
  <2>2. /\ asking /\ ~rebound /\ pc = "idle" /\ askingQueue' = Append(askingQueue, e)
        /\ UNCHANGED <<asking, events, chosen, replayed, rebound, pc>>
    BY <1>5 DEF Inner!FeedPaused, Inner!Idle
  <2>3. Inner!TypeOK'
    BY <1>2, <1>5, <2>1 DEF Inner!FeedPaused, Inner!TypeOK
  <2>4. Places'
    BY <1>2, <2>1, <2>2 DEF Places
  <2>5. Whereabouts'
    <3>1. Distinct(askingQueue') /\ Entries(askingQueue') = Entries(askingQueue) \cup {e}
      BY <1>1, <1>3, <2>2, KeptMore DEF Whereabouts
    <3>. QED  BY <1>2, <1>3, <2>1, <2>2, <3>1 DEF Whereabouts
  <2>6. ASSUME stranded = {} PROVE arrived' \o Inner!Kept' \o askingQueue' = fed'
    <3>1. Inner!Kept' = Inner!Kept /\ askingQueue' = Append(askingQueue, e)
      BY <2>2 DEF Inner!Kept
    <3>2. Inner!Kept \in Seq(Events) /\ askingQueue \in Seq(Events)
      BY RestAppend DEF Inner!Kept, Inner!TypeOK
    <3>3. arrived \o Inner!Kept \in Seq(Events)
      BY <1>1, <3>2
    <3>4. (arrived \o Inner!Kept) \o Append(askingQueue, e) = Append((arrived \o Inner!Kept) \o askingQueue, e)
      BY <3>2, <3>3, ConcatAppend
    <3>. QED  BY <1>2, <2>1, <2>6, <3>1, <3>4 DEF InOrder
  <2>. QED  BY <1>2, <2>3, <2>4, <2>5, <2>6 DEF InOrder
<1>6. CASE Inner!FeedChild(e)
  <2>1. Inner!Child!TypeOK' /\ arrived' = Append(arrived, e)
    BY <1>1, <1>6, ChildStep DEF Inner!FeedChild
  <2>2. /\ rebound /\ pc = "idle" /\ events = <<>> /\ ~asking /\ chosen
        /\ UNCHANGED <<asking, askingQueue, events, chosen, replayed, rebound, pc>>
    BY <1>6 DEF Inner!FeedChild, Inner!Idle, Places
  <2>3. Inner!TypeOK'
    BY <1>2, <1>6, <2>1 DEF Inner!FeedChild, Inner!TypeOK
  <2>4. Places'
    BY <1>2, <2>2 DEF Places
  <2>5. Whereabouts'
    <3>1. /\ Entries(arrived') = Entries(arrived) \cup {e}
          /\ \A i, j \in DOMAIN arrived' : arrived'[i] = arrived'[j] => i = j \/ arrived'[i] \in stranded
      BY <1>1, <1>3, <2>1, Given DEF Whereabouts
    <3>2. events' = <<>> /\ DOMAIN events' = {}
      BY <2>2
    <3>. QED  BY <1>2, <1>3, <2>2, <3>1, <3>2 DEF Whereabouts
  <2>6. ASSUME stranded = {} PROVE arrived' \o Inner!Kept' \o askingQueue' = fed'
    <3>1. askingQueue = <<>> /\ Inner!Kept' = Inner!Kept /\ askingQueue' = <<>>
      BY <2>2, <2>6 DEF Places, Inner!Kept
    <3>2. Inner!Kept = <<>>
      BY <2>2 DEF Inner!Kept
    <3>3. (arrived \o <<>>) \o <<>> = arrived
      BY <1>1, ConcatEmptySeq
    <3>4. (Append(arrived, e) \o <<>>) \o <<>> = Append(arrived, e)
      BY <1>1, ConcatEmptySeq
    <3>. QED  BY <1>2, <2>1, <2>6, <3>1, <3>2, <3>3, <3>4 DEF InOrder
  <2>. QED  BY <1>2, <2>3, <2>4, <2>5, <2>6 DEF InOrder
<1>. QED  BY <1>4, <1>5, <1>6 DEF Inner!Feed

\* A turn of the replay: the next of the kept events is given to the chosen layer.
LEMMA ReplayKeptIInv ==
    ASSUME NextLayerInv, Inner!ReplayKept
    PROVE  NextLayerInv'
<1> USE DEF NextLayerInv
<1> DEFINE e == events[replayed + 1]
<1>1. /\ arrived \in Seq(Events) /\ Inner!Child!TypeOK /\ events \in Seq(Events)
      /\ replayed \in 0 .. Len(events) /\ askingQueue \in Seq(Events)
  BY DEF Inner!TypeOK, Inner!Child!TypeOK
<1>2. /\ replayed + 1 \in DOMAIN events /\ replayed < Len(events) /\ e \in Events
      /\ Inner!GiveToChild(e) /\ replayed' = replayed + 1 /\ pc = "replaying"
      /\ UNCHANGED <<asking, askingQueue, events, chosen, rebound, pc, closing, asksOnStart,
                     fed, stranded>>
  BY <1>1 DEF Inner!ReplayKept
<1>3. Inner!Child!TypeOK' /\ arrived' = Append(arrived, e)
  BY <1>1, <1>2, ChildStep
<1>4. Inner!TypeOK'
  BY <1>1, <1>2, <1>3 DEF Inner!TypeOK
<1>5. Places'
  BY <1>2 DEF Places
<1>6. Whereabouts'
  <2>1. e \in Entries(arrived) => e \in stranded
    BY <1>1, <1>2 DEF Whereabouts
  <2>2. e \in Entries(events)
    BY <1>2 DEF Entries
  <2> HIDE DEF e
  <2>3. /\ Entries(arrived') = Entries(arrived) \cup {e}
        /\ \A i, j \in DOMAIN arrived' : arrived'[i] = arrived'[j] => i = j \/ arrived'[i] \in stranded
    BY <1>1, <1>2, <1>3, <2>1, Given DEF Whereabouts
  <2>4. ASSUME NEW i \in DOMAIN events
        PROVE  IF i <= replayed + 1 THEN events[i] \in Entries(arrived')
               ELSE events[i] \in Entries(arrived') => events[i] \in stranded
    <3>1. i \in Nat /\ replayed \in Nat
      BY <1>1
    <3>2. CASE i <= replayed
      BY <1>1, <2>3, <3>1, <3>2 DEF Whereabouts
    <3>3. CASE i = replayed + 1
      BY <2>3, <3>1, <3>3 DEF e
    <3>4. CASE i > replayed + 1
      <4>1. events[i] # e /\ ~(i <= replayed)
        BY <1>2, <3>1, <3>4 DEF Whereabouts, Distinct, e
      <4>. QED  BY <2>3, <3>1, <3>4, <4>1 DEF Whereabouts
    <3>. QED  BY <3>1, <3>2, <3>3, <3>4
  <2>5. e \notin Entries(askingQueue)
    BY <2>2 DEF Whereabouts
  <2>. QED  BY <1>2, <2>2, <2>3, <2>4, <2>5 DEF Whereabouts
<1>7. arrived' \o Inner!Kept' = arrived \o Inner!Kept
  <2>1. Inner!Kept' = SubSeq(events, replayed + 2, Len(events))
    BY <1>1, <1>2 DEF Inner!Kept
  <2>. QED  BY <1>1, <1>2, <1>3, <2>1, RestMoves DEF Inner!Kept
<1>. QED  BY <1>2, <1>4, <1>5, <1>6, <1>7 DEF InOrder

\* A turn of the drain: the chosen layer gets the oldest of the queue, or it is kept.
LEMMA DrainQueuedIInv ==
    ASSUME NextLayerInv, Inner!DrainQueued
    PROVE  NextLayerInv'
<1> USE DEF NextLayerInv
<1> DEFINE e == Head(askingQueue)
           rest == Tail(askingQueue)
<1>1. /\ arrived \in Seq(Events) /\ Inner!Child!TypeOK /\ events \in Seq(Events)
      /\ replayed \in 0 .. Len(events) /\ askingQueue \in Seq(Events)
  BY DEF Inner!TypeOK, Inner!Child!TypeOK
<1>2. /\ pc = "draining" /\ mode = "idle" /\ askingQueue # <<>> /\ fed' = fed
      /\ stranded' = stranded /\ askingQueue' = rest
  BY <1>1 DEF Inner!DrainQueued
<1>3. /\ e \in Events /\ rest \in Seq(Events) /\ Distinct(rest)
      /\ Entries(askingQueue) = {e} \cup Entries(rest) /\ e \notin Entries(rest)
  BY <1>1, <1>2, TakeFirst DEF Whereabouts
<1>4. /\ e \notin Entries(events) /\ (e \in Entries(arrived) => e \in stranded)
      /\ Entries(arrived) \cup Entries(events) \cup {e} \cup Entries(rest) = Entries(fed)
      /\ Entries(rest) \cap Entries(arrived) \subseteq stranded
      /\ Entries(events) \cap Entries(rest) = {}
      /\ fed # <<>>
  <2>1. Entries(fed) # {}
    BY <1>3 DEF Whereabouts
  <2>. QED  BY <1>3, <2>1, EntriesSmall DEF Whereabouts
<1>5. \A s \in Seq(Events) : Append(s, e) \o rest = s \o askingQueue
  BY <1>1, <1>2, <1>3, MoveHead
<1> HIDE DEF e, rest
<1>6. CASE rebound
  <2>1. /\ Inner!GiveToChild(e)
        /\ UNCHANGED <<asking, events, chosen, replayed, rebound, closing, asksOnStart, pc>>
    BY <1>6 DEF Inner!DrainQueued, e
  <2>2. Inner!Child!TypeOK' /\ arrived' = Append(arrived, e)
    BY <1>1, <1>3, <2>1, ChildStep
  <2>3. Inner!TypeOK'
    BY <1>2, <1>3, <2>1, <2>2 DEF Inner!TypeOK
  <2>4. Places' /\ events = <<>>
    BY <1>2, <1>6, <2>1 DEF Places
  <2>5. Whereabouts'
    <3>1. /\ Entries(arrived') = Entries(arrived) \cup {e}
          /\ \A i, j \in DOMAIN arrived' : arrived'[i] = arrived'[j] => i = j \/ arrived'[i] \in stranded
      BY <1>1, <1>3, <1>4, <2>2, Given DEF Whereabouts
    <3>2. events' = <<>> /\ DOMAIN events' = {} /\ Distinct(events')
      BY <2>1, <2>4 DEF Distinct
    <3>. QED  BY <1>2, <1>3, <1>4, <2>1, <3>1, <3>2 DEF Whereabouts
  <2>6. ASSUME stranded = {} PROVE arrived' \o Inner!Kept' \o askingQueue' = fed'
    <3>1. Inner!Kept = <<>> /\ Inner!Kept' = <<>>
      BY <2>1, <2>4 DEF Inner!Kept
    <3>2. arrived \o <<>> = arrived /\ Append(arrived, e) \o <<>> = Append(arrived, e)
      BY <1>1, <1>3, ConcatEmptySeq
    <3>3. Append(arrived, e) \o rest = arrived \o askingQueue
      BY <1>1, <1>5
    <3>. QED  BY <1>2, <2>2, <2>6, <3>1, <3>2, <3>3 DEF InOrder
  <2>. QED  BY <1>2, <2>3, <2>4, <2>5, <2>6 DEF InOrder
<1>7. CASE ~rebound
  <2>1. /\ Inner!Keep(e) /\ UNCHANGED Inner!childVars
        /\ pc' = IF Inner!Asks(e) THEN "idle" ELSE "draining"
    BY <1>7 DEF Inner!DrainQueued, e
  <2>2. Inner!Child!TypeOK' /\ arrived' = arrived /\ mode' = "idle"
    BY <1>1, <1>2, <2>1, ChildStep
  <2>3. /\ events' = Append(events, e) /\ replayed' = 0 /\ replayed = 0
        /\ asking' = Inner!Asks(e) /\ chosen' = chosen /\ ~chosen /\ rebound' = rebound
    BY <1>2, <1>7, <2>1 DEF Inner!Keep, Places
  <2>4. Inner!TypeOK'
    BY <1>1, <1>2, <1>3, <2>1, <2>2, <2>3 DEF Inner!TypeOK, Inner!Keep, Inner!Asks
  <2>5. Places'
    <3>1. events' # <<>> /\ Inner!Asks(e) \in BOOLEAN
      BY <1>1, <1>3, <2>3 DEF Inner!Asks, Inner!TypeOK
    <3>. QED  BY <1>2, <1>7, <2>1, <2>2, <2>3, <3>1 DEF Places
  <2>6. Whereabouts'
    <3>1. /\ Distinct(askingQueue') /\ Entries(askingQueue') \subseteq Entries(askingQueue) \ {e}
          /\ Entries(arrived) \cup Entries(events) \cup {e} \cup Entries(askingQueue')
               = Entries(fed')
      BY <1>2, <1>3, <1>4
    <3>. QED  BY <1>1, <1>2, <1>3, <1>4, <2>1, <2>2, <2>3, <3>1, KeepsAccounts
  <2>7. ASSUME stranded = {} PROVE arrived' \o Inner!Kept' \o askingQueue' = fed'
    <3>1. Inner!Kept \in Seq(Events) /\ Inner!Kept' = Append(Inner!Kept, e)
      BY <1>1, <1>3, <2>3, RestAppend DEF Inner!Kept
    <3>2. arrived \o Append(Inner!Kept, e) = Append(arrived \o Inner!Kept, e)
      BY <1>1, <1>3, <3>1, ConcatAppend
    <3>3. Append(arrived \o Inner!Kept, e) \o rest = (arrived \o Inner!Kept) \o askingQueue
      <4>1. arrived \o Inner!Kept \in Seq(Events)
        BY <1>1, <3>1
      <4>. QED  BY <1>5, <4>1
    <3>. QED  BY <1>2, <2>2, <2>7, <3>1, <3>2, <3>3 DEF InOrder
  <2>. QED  BY <1>2, <2>4, <2>5, <2>6, <2>7 DEF InOrder
<1>. QED  BY <1>6, <1>7

LEMMA NonEmpty == ASSUME NEW s \in Seq(Events), s # <<>> PROVE Entries(s) # {}
<1>1. 1 \in DOMAIN s
  OBVIOUS
<1>. QED  BY <1>1 DEF Entries

\* An exception moves nothing.  What it leaves behind is in stranded from then on, so that
\* a state with nothing stranded is as if the chosen layer had come to its end.
LEMMA RaiseIInv ==
    ASSUME NextLayerInv, NEW above \in SUBSET Events, Inner!ChildRaises(above)
    PROVE  NextLayerInv'
<1> USE DEF NextLayerInv
<1>1. /\ arrived \in Seq(Events) /\ Inner!Child!TypeOK /\ events \in Seq(Events)
      /\ replayed \in 0 .. Len(events) /\ askingQueue \in Seq(Events) /\ stranded \subseteq Events
  BY DEF Inner!TypeOK, Inner!Child!TypeOK
<1>2. /\ Inner!Child!Raise /\ pc' = "idle" /\ replayed' = 0
      /\ stranded' = stranded \cup Inner!LeftBehind \cup above
      /\ UNCHANGED <<asking, askingQueue, events, chosen, rebound, closing, asksOnStart, fed>>
  BY DEF Inner!ChildRaises
<1>3. Inner!Child!TypeOK' /\ arrived' = arrived /\ mode # "idle" /\ mode' = "idle"
  BY <1>1, <1>2, ChildStep
<1>4. Inner!LeftBehind = (IF pc = "replaying" THEN Entries(events) ELSE {})
                             \cup (IF pc = "idle" THEN {} ELSE Entries(askingQueue))
  BY ElemsIs DEF Inner!LeftBehind
<1>5. Entries(events) \subseteq Events /\ Entries(askingQueue) \subseteq Events
  BY <1>1 DEF Entries
<1>6. Inner!TypeOK'
  BY <1>1, <1>2, <1>3, <1>4, <1>5 DEF Inner!TypeOK
<1>7. pc = "replaying" => Entries(events) # {}
  BY <1>1, NonEmpty DEF Places
<1>8. askingQueue # <<>> => Entries(askingQueue) # {}
  BY <1>1, NonEmpty
<1>9. Places'
  BY <1>1, <1>2, <1>3, <1>4, <1>7, <1>8 DEF Places, Inner!TypeOK
<1>10. Whereabouts'
  <2>1. CASE pc = "replaying"
    <3>1. \A i \in DOMAIN events : events[i] \in stranded' /\ ~(i <= 0)
      BY <1>1, <1>2, <1>4, <2>1 DEF Entries
    <3>. QED  BY <1>2, <1>3, <3>1 DEF Whereabouts
  <2>2. CASE pc # "replaying"
    <3>1. replayed = 0
      BY <2>2 DEF Places
    <3>. QED  BY <1>2, <1>3, <3>1 DEF Whereabouts
  <2>. QED  BY <2>1, <2>2
<1>11. ASSUME stranded' = {} PROVE arrived' \o Inner!Kept' \o askingQueue' = fed'
  <2>1. stranded = {} /\ replayed = 0
    BY <1>2, <1>4, <1>7, <1>11 DEF Places
  <2>. QED  BY <1>2, <1>3, <2>1 DEF InOrder, Inner!Kept
<1>. QED  BY <1>2, <1>6, <1>9, <1>10, <1>11 DEF InOrder

\* The hook's reply, the replay, the handover, the drain and exceptions only move events on.
LEMMA WorksIInv ==
    ASSUME NextLayerInv, Inner!Works
    PROVE  NextLayerInv'
<1> USE DEF NextLayerInv
<1>1. /\ arrived \in Seq(Events) /\ Inner!Child!TypeOK /\ events \in Seq(Events)
      /\ replayed \in 0 .. Len(events) /\ askingQueue \in Seq(Events)
  BY DEF Inner!TypeOK, Inner!Child!TypeOK
<1>2. CASE Inner!HookCompleted
  <2>1. Inner!Child!TypeOK' /\ arrived' = arrived /\ mode' = mode /\ mode = "idle"
    BY <1>1, <1>2, ChildStep DEF Inner!HookCompleted, Inner!Idle
  <2>2. /\ Inner!Kept' = Inner!Kept
        /\ UNCHANGED <<askingQueue, events, replayed, rebound, fed, stranded>>
    BY <1>2 DEF Inner!HookCompleted, Inner!Kept
  <2>3. Inner!TypeOK'
    BY <1>2, <2>1 DEF Inner!HookCompleted, Inner!TypeOK
  <2>4. Places'
    <3>1. /\ asking /\ ~asking' /\ pc = "idle" /\ pc' = IF chosen' THEN "replaying" ELSE "draining"
          /\ events # <<>> /\ ~rebound /\ chosen' \in BOOLEAN
      BY <1>2 DEF Inner!HookCompleted, Inner!Idle, Places, Inner!TypeOK
    <3>2. fed # <<>>
      <4>1. Entries(events) # {}
        BY <1>1, <3>1, NonEmpty
      <4>. QED  BY <4>1, EntriesSmall DEF Whereabouts
    <3>. QED  BY <2>1, <2>2, <3>1, <3>2 DEF Places
  <2>5. Whereabouts'
    BY <2>1, <2>2 DEF Whereabouts
  <2>. QED  BY <2>1, <2>2, <2>3, <2>4, <2>5 DEF InOrder
<1>3. CASE Inner!ReplayKept
  BY <1>3, ReplayKeptIInv
<1>4. CASE Inner!HandOver
  <2>1. Inner!Child!TypeOK' /\ arrived' = arrived /\ mode' = mode /\ mode = "idle"
    BY <1>1, <1>4, ChildStep DEF Inner!HandOver
  <2>2. /\ Inner!Kept = <<>> /\ Inner!Kept' = <<>> /\ events' = <<>> /\ replayed' = 0
        /\ replayed = Len(events)
        /\ UNCHANGED <<askingQueue, fed, stranded>>
    BY <1>1, <1>4 DEF Inner!HandOver, Inner!Kept
  <2>3. Inner!TypeOK'
    BY <1>4, <2>1, EmptySeq DEF Inner!HandOver, Inner!TypeOK
  <2>4. Places'
    BY <1>4, <2>1 DEF Inner!HandOver, Places
  <2>5. Whereabouts'
    <3>1. Entries(events) \subseteq Entries(arrived)
      <4>1. \A i \in DOMAIN events : i <= replayed
        BY <1>1, <2>2
      <4>. QED  BY <4>1 DEF Whereabouts, Entries
    <3>2. DOMAIN events' = {} /\ Distinct(events') /\ Entries(events') = {}
      BY <2>2, EntriesSmall DEF Distinct
    <3>. QED  BY <2>1, <2>2, <3>1, <3>2 DEF Whereabouts
  <2>. QED  BY <2>1, <2>2, <2>3, <2>4, <2>5, <1>4 DEF Inner!HandOver, InOrder
<1>5. CASE Inner!DrainQueued
  BY <1>5, DrainQueuedIInv
<1>6. CASE Inner!Drained
  <2>1. Inner!Child!TypeOK' /\ arrived' = arrived /\ mode' = mode
    BY <1>1, <1>6, ChildStep DEF Inner!Drained
  <2>2. /\ Inner!Kept' = Inner!Kept
        /\ UNCHANGED <<askingQueue, events, replayed, fed, stranded>>
    BY <1>6 DEF Inner!Drained, Inner!Kept
  <2>3. Inner!TypeOK' /\ Places'
    BY <1>6, <2>1, EntriesSmall DEF Inner!Drained, Inner!TypeOK, Places
  <2>4. Whereabouts'
    BY <2>1, <2>2 DEF Whereabouts
  <2>. QED  BY <2>1, <2>2, <2>3, <2>4 DEF InOrder
<1>7. ASSUME Inner!ChildRuns \/ Inner!ChildCompleted PROVE NextLayerInv'
  <2>1. /\ UNCHANGED Inner!ownVars /\ Inner!Child!TypeOK' /\ arrived' = arrived
        /\ mode # "idle" \/ rebound
    <3>1. CASE Inner!ChildRuns
      BY <1>1, <3>1, ChildStep DEF Inner!ChildRuns
    <3>2. CASE Inner!ChildCompleted
      BY <1>1, <3>2, ChildStep DEF Inner!ChildCompleted
    <3>. QED  BY <1>7, <3>1, <3>2
  <2>2. Inner!TypeOK'
    BY <2>1 DEF Inner!ownVars, Inner!TypeOK
  <2>3. Places'
    BY <2>1 DEF Inner!ownVars, Places
  <2>4. Whereabouts'
    BY <2>1 DEF Inner!ownVars, Whereabouts
  <2>. QED  BY <2>1, <2>2, <2>3, <2>4 DEF Inner!ownVars, InOrder, Inner!Kept
<1>8. ASSUME NEW above \in SUBSET Events, Inner!ChildRaises(above) PROVE NextLayerInv'
  BY <1>8, RaiseIInv
<1>. QED  BY <1>2, <1>3, <1>4, <1>5, <1>6, <1>7, <1>8 DEF Inner!Works, Inner!Steps

LEMMA NextNextLayer == NextLayerInv /\ [Inner!Next]_(Inner!vars) => NextLayerInv'
<1> SUFFICES ASSUME NextLayerInv, [Inner!Next]_(Inner!vars) PROVE NextLayerInv'
  OBVIOUS
<1>1. CASE UNCHANGED Inner!vars
  <2>1. UNCHANGED <<Inner!ownVars, Inner!childVars>>
    BY <1>1 DEF Inner!vars
  <2>2. Inner!TypeOK'
    BY <2>1 DEF Inner!ownVars, Inner!childVars, NextLayerInv, Inner!TypeOK, Inner!Child!TypeOK
  <2>. QED
    BY <2>1, <2>2 DEF Inner!ownVars, Inner!childVars, NextLayerInv, Places, InOrder, Inner!Kept,
                 Whereabouts
<1>. QED  BY <1>1, FeedIInv, WorksIInv DEF Inner!Next

\* What every reachable state of NextLayer satisfies: its types, where its events are, that
\* they are in order, and what exceptions have left of that.
THEOREM NextLayerInvariance == Inner!Spec => []NextLayerInv
BY InitNextLayer, NextNextLayer, PTL DEF Inner!Spec

\* Types of NextLayer and of the layer it has chosen.
THEOREM NextLayerTypeCorrect == Inner!Spec => []Inner!TypeOK
<1>1. NextLayerInv => Inner!TypeOK
  BY DEF NextLayerInv
<1>. QED  BY <1>1, NextLayerInvariance, PTL

LEMMA HandedOverIs == NextLayerInv => Inner!HandedOver
<1> SUFFICES ASSUME NextLayerInv PROVE Inner!HandedOver
  OBVIOUS
<1>1. Inner!NothingHeldBack
  BY ElemsIs DEF NextLayerInv, Places, Inner!NothingHeldBack, Inner!Idle, Inner!TypeOK
<1>2. Inner!HandedOverInOrder
  BY ElemsIs DEF NextLayerInv, InOrder, Whereabouts, Inner!HandedOverInOrder
<1>. QED  BY <1>1, <1>2 DEF Inner!HandedOver

\* The chosen layer gets every event once and in order, and nothing is held back that
\* has already come: the kept events until a layer is chosen, the queued ones while
\* the hook runs.  An exception of the chosen layer may end the order; even then no event
\* is lost altogether, and none is handed over twice but those it left behind.
THEOREM HandedOverHolds == Inner!Spec => []Inner!HandedOver
BY HandedOverIs, NextLayerInvariance, PTL

------------------------------------------------------------------------------

\* An event that is given to the chosen layer is new to it, or was left behind.
LEMMA GivenIsNew ==
    ASSUME Inner!Child!TypeOK, NEW e \in Events, Inner!GiveToChild(e),
           e \in Entries(arrived) => e \in stranded
    PROVE  Inner!Child!Next \/ Inner!HandsOverAgain
<1>1. CASE e \in Entries(arrived)
  BY <1>1, ElemsIs DEF Inner!HandsOverAgain
<1>2. CASE e \notin Entries(arrived)
  BY <1>2, ElemsIs DEF Inner!GiveToChild, Inner!Child!Arrive, Inner!Child!Next
<1>. QED  BY <1>1, <1>2

LEMMA ChosenStep ==
    ASSUME NextLayerInv, [Inner!Next]_(Inner!vars)
    PROVE  [Inner!Child!Next \/ Inner!HandsOverAgain]_(Inner!childVars)
<1>1. /\ events \in Seq(Events) /\ replayed \in 0 .. Len(events)
      /\ askingQueue \in Seq(Events) /\ Inner!Child!TypeOK
  BY DEF NextLayerInv, Inner!TypeOK
<1>2. ASSUME NEW e \in Events, Inner!Feed(e)
      PROVE  [Inner!Child!Next \/ Inner!HandsOverAgain]_(Inner!childVars)
  <2>1. CASE Inner!FeedChild(e)
    <3>1. e \notin Entries(fed)
      BY <1>2, ElemsIs DEF Inner!Feed
    <3>2. e \notin Entries(arrived) /\ Inner!GiveToChild(e)
      BY <2>1, <3>1 DEF NextLayerInv, Whereabouts, Inner!FeedChild
    <3>. QED  BY <1>1, <3>2, GivenIsNew
  <2>2. CASE Inner!FeedKeep(e) \/ Inner!FeedPaused(e)
    BY <2>2 DEF Inner!FeedKeep, Inner!FeedPaused
  <2>. QED  BY <1>2, <2>1, <2>2 DEF Inner!Feed
<1>3. CASE Inner!ReplayKept
  <2> DEFINE e == events[replayed + 1]
  <2>1. replayed + 1 \in DOMAIN events /\ ~(replayed + 1 <= replayed) /\ e \in Events
        /\ Inner!GiveToChild(e)
    BY <1>1, <1>3 DEF Inner!ReplayKept
  <2>2. e \in Entries(arrived) => e \in stranded
    BY <2>1 DEF NextLayerInv, Whereabouts
  <2> HIDE DEF e
  <2>. QED  BY <1>1, <2>1, <2>2, GivenIsNew
<1>4. CASE Inner!DrainQueued
  <2> DEFINE e == Head(askingQueue)
  <2>1. CASE rebound
    <3>1. Inner!GiveToChild(e) /\ askingQueue # <<>>
      BY <1>4, <2>1 DEF Inner!DrainQueued
    <3>2. e \in Events /\ e \in Entries(askingQueue)
      BY <1>1, <3>1, TakeFirst DEF NextLayerInv, Whereabouts
    <3>3. e \in Entries(arrived) => e \in stranded
      BY <3>2 DEF NextLayerInv, Whereabouts
    <3> HIDE DEF e
    <3>. QED  BY <1>1, <3>1, <3>2, <3>3, GivenIsNew
  <2>2. CASE ~rebound
    BY <1>4, <2>2 DEF Inner!DrainQueued
  <2>. QED  BY <2>1, <2>2
<1>5. CASE Inner!HookCompleted \/ Inner!HandOver \/ Inner!Drained
  BY <1>5 DEF Inner!HookCompleted, Inner!HandOver, Inner!Drained
<1>6. CASE Inner!ChildRuns \/ Inner!ChildCompleted \/ \E above \in SUBSET Events : Inner!ChildRaises(above)
  BY <1>6 DEF Inner!ChildRuns, Inner!ChildCompleted, Inner!ChildRaises, Inner!Child!Next
<1>7. CASE UNCHANGED Inner!vars
  BY <1>7 DEF Inner!vars
<1>. QED  BY <1>2, <1>3, <1>4, <1>5, <1>6, <1>7 DEF Inner!Next, Inner!Works, Inner!Steps

\* To the chosen layer a NextLayer in front makes no difference: it gets events that are
\* new to it, one at a time, and its replies, and it may raise, so that what is proved of
\* Layer holds, as long as it is not given anything again.  That happens only to events
\* which an exception of its own left behind.
THEOREM ChosenIsALayer == Inner!Spec => Inner!ChosenIsLayer
<1>1. Inner!Init => Inner!Child!Init
  BY DEF Inner!Init
<1>2. NextLayerInv /\ [Inner!Next]_(Inner!vars)
        => [Inner!Child!Next \/ Inner!HandsOverAgain]_(Inner!childVars)
  BY ChosenStep
<1>. QED  BY <1>1, <1>2, NextLayerInvariance, PTL DEF Inner!Spec, Inner!ChosenIsLayer

\* A kept close has closed the client's connection.
KeptCloses == \A i \in DOMAIN events : events[i] \in Closed => closing

LEMMA KeptClosesStep ==
    ASSUME NextLayerInv, KeptCloses, [Inner!Next]_(Inner!vars)
    PROVE  KeptCloses'
<1>1. events \in Seq(Events)
  BY DEF NextLayerInv, Inner!TypeOK
<1>2. CASE UNCHANGED <<events, closing>>
  BY <1>2 DEF KeptCloses
<1>3. ASSUME NEW e \in Events, Inner!Keep(e) PROVE KeptCloses'
  <2>1. /\ events' = Append(events, e) /\ closing' = (closing \/ e \in Closed)
        /\ Len(events) \in Nat /\ DOMAIN events = 1 .. Len(events)
        /\ DOMAIN events' = 1 .. Len(events) + 1
        /\ \A i \in 1 .. Len(events) : events'[i] = events[i]
        /\ events'[Len(events) + 1] = e
    BY <1>1, <1>3 DEF Inner!Keep
  <2>2. closing \in BOOLEAN
    BY DEF NextLayerInv, Inner!TypeOK
  <2>3. ASSUME NEW i \in DOMAIN events', events'[i] \in Closed PROVE closing'
    <3>1. CASE i = Len(events) + 1
      BY <2>1, <2>3, <3>1
    <3>2. CASE i \in 1 .. Len(events)
      BY <2>1, <2>2, <2>3, <3>2 DEF KeptCloses
    <3>. QED  BY <2>1, <3>1, <3>2
  <2>. QED  BY <2>3 DEF KeptCloses
<1>4. ASSUME NEW e \in Events, Inner!Feed(e) PROVE KeptCloses'
  <2>1. CASE Inner!FeedKeep(e)
    BY <1>3, <2>1 DEF Inner!FeedKeep
  <2>2. CASE Inner!FeedPaused(e) \/ Inner!FeedChild(e)
    BY <1>2, <2>2 DEF Inner!FeedPaused, Inner!FeedChild
  <2>. QED  BY <1>4, <2>1, <2>2 DEF Inner!Feed
<1>5. CASE Inner!HandOver
  <2>1. events' = <<>>
    BY <1>5 DEF Inner!HandOver
  <2>. QED  BY <2>1 DEF KeptCloses
<1>6. CASE Inner!DrainQueued
  <2>1. CASE rebound
    BY <1>2, <1>6, <2>1 DEF Inner!DrainQueued
  <2>2. CASE ~rebound
    <3>1. Inner!Keep(Head(askingQueue)) /\ Head(askingQueue) \in Events
      BY <1>6, <2>2 DEF Inner!DrainQueued, NextLayerInv, Inner!TypeOK
    <3>. QED  BY <1>3, <3>1
  <2>. QED  BY <2>1, <2>2
<1>7. CASE Inner!HookCompleted \/ Inner!ReplayKept \/ Inner!Drained
  BY <1>2, <1>7 DEF Inner!HookCompleted, Inner!ReplayKept, Inner!Drained
<1>8. CASE Inner!ChildRuns \/ Inner!ChildCompleted \/ UNCHANGED Inner!vars
  BY <1>2, <1>8 DEF Inner!ChildRuns, Inner!ChildCompleted, Inner!ownVars, Inner!vars
<1>9. ASSUME NEW above, Inner!ChildRaises(above) PROVE KeptCloses'
  BY <1>2, <1>9 DEF Inner!ChildRaises
<1>. QED  BY <1>4, <1>5, <1>6, <1>7, <1>8, <1>9 DEF Inner!Next, Inner!Works, Inner!Steps

------------------------------------------------------------------------------
(* The invariant of the TLS layer: t is its state, f what its child has been fed and w    *)
(* what waits for it; x is what exceptions have left behind.                              *)

Close == CHOOSE e \in Closed : TRUE

\* What holds of everything that has arrived.
History(t) ==
    /\ Distinct(t.sent)
    /\ t.seen = {} => t.sent = <<>>
    /\ "closed" \in t.seen => Close \in Entries(t.sent)
    /\ "record" \in t.seen => "finish" \in t.seen

\* What waits knows about the client's close: a close that says nothing new finds it
\* said, and nothing that follows says it again.
Loaded(r) ==
    /\ r.kind \in {"hello", "junk"} => r.load = <<>>
    /\ r.kind = "closed" => r.load \in {<<>>, <<Close>>}
    /\ r.kind = "other" => Close \notin Entries(r.load)

Queued(t, w) ==
    /\ \A i \in DOMAIN w :
         /\ w[i].kind # "start" /\ Loaded(w[i])
         /\ w[i].kind = "closed" => "closed" \in t.seen
    /\ \A i, j \in DOMAIN w :
         i < j /\ w[i].kind = "closed" => w[j].kind = "other"

\* Before Start,
Unstarted(t, f) ==
    /\ ~t.late /\ ~t.errored /\ t.seen = {} /\ t.tunnel = "inactive" /\ t.at = "none"
    /\ f = <<>> /\ t.give = <<>> /\ t.kept = <<>> /\ t.early = <<>> /\ t.waiting = <<>>
    /\ ~t.notified /\ ~t.parsed

\* during the handshake, where nothing is passed on,
Shaking(t, f, w) ==
    /\ ~t.late /\ ~t.errored /\ t.tunnel = "establishing" /\ t.seen # {}
    /\ f = <<>> /\ t.give = <<>>
    /\ ~t.notified /\ Close \notin Entries(t.kept)
    /\ t.at # "tls_established" => t.early = <<>>
    /\ t.at = "tls_established" \/ (t.at = "none" /\ t.parsed) => t.engine
    /\ t.at # "tls_failed" => (t.kept \o t.early) \o Contents(w) = t.sent
    /\ Queued(t, w)

\* after it, where everything is,
Opened(t, f, w) ==
    /\ ~t.late /\ ~t.errored /\ t.tunnel \in {"open", "closed"} /\ t.seen # {}
    /\ t.engine /\ t.at = "none" /\ t.kept = <<>> /\ t.early = <<>>
    /\ (f \o t.give) \o Contents(w) = t.sent
    /\ Close \in Entries(f \o t.give) <=> t.notified \/ t.tunnel = "closed"
    /\ Queued(t, w)

\* after a failed one,
Over(t, f) ==
    /\ ~t.late /\ t.errored /\ t.hung /\ t.tunnel = "closed" /\ t.at = "none"
    /\ f = <<>> /\ t.give = <<>> /\ t.kept = <<>> /\ t.seen # {}
    /\ \A i \in DOMAIN t.waiting : t.waiting[i].kind # "start"

\* and with a client that was gone from the beginning.
Absent(t, f) ==
    /\ t.late /\ ~t.errored /\ t.tunnel \in {"inactive", "closed"} /\ t.at = "none"
    /\ ~t.engine /\ "finish" \notin t.seen
    /\ t.kept = <<>> /\ t.early = <<>> /\ t.waiting = <<>>
    /\ f \o t.give = WithoutClose(t.sent)

\* The queue is looked at again.
Drains(t) == t.waiting # <<>> => t.at # "none" \/ t.draining \/ t.errored

TlsInv(t, f) ==
    /\ History(t) /\ Drains(t)
    /\ \/ Unstarted(t, f) \/ Shaking(t, f, t.waiting) \/ Opened(t, f, t.waiting)
       \/ Over(t, f) \/ Absent(t, f)

\* Once an exception of the chosen layer has left something behind, nothing waits or is kept
\* any more; what was sent has been passed on, is about to be, or was left behind.
Torn(t, f, x) ==
    /\ History(t) /\ t.seen # {}
    /\ ~t.errored /\ t.at = "none" /\ ~t.draining
    /\ t.kept = <<>> /\ t.early = <<>> /\ t.waiting = <<>>
    /\ IF t.late THEN ~t.engine /\ t.tunnel \in {"inactive", "closed"}
       ELSE /\ t.engine /\ t.tunnel \in {"open", "closed"}
            /\ Entries(t.sent) \subseteq Entries(f) \cup Entries(t.give) \cup x
            /\ t.notified \/ t.tunnel = "closed" =>
                 Close \in Entries(f) \cup Entries(t.give) \cup x

\* In a stack without the layer nothing happens to its state.
Unused(t) == t.give = <<>> /\ t.at = "none" /\ ~t.draining

StackInv ==
    /\ tls \in TlsRec
    /\ IF tls.used THEN /\ stranded = {} => TlsInv(tls, fed)
                        /\ stranded # {} => Torn(tls, fed, stranded)
       ELSE Unused(tls)
    /\ tls.draining => ~chosen      \* the queue is empty before the child goes on

\* An event that is still to be handed over has not been.
LEMMA NotYet ==
    ASSUME NEW S, NEW a \in Seq(S), NEW b \in Seq(S), Distinct(a \o b),
           NEW i \in DOMAIN b
    PROVE  b[i] \notin Entries(a)
<1> DEFINE u == a \o b
<1>1. /\ Len(a) \in Nat /\ Len(b) \in Nat /\ DOMAIN a = 1 .. Len(a) /\ DOMAIN b = 1 .. Len(b)
      /\ DOMAIN u = 1 .. Len(a) + Len(b)
      /\ \A j \in 1 .. Len(a) : u[j] = a[j]
      /\ \A j \in 1 .. Len(b) : u[Len(a) + j] = b[j]
  OBVIOUS
<1> HIDE DEF u
<1>2. ASSUME NEW j \in DOMAIN a, a[j] = b[i] PROVE FALSE
  <2>1. u[j] = u[Len(a) + i] /\ j \in DOMAIN u /\ Len(a) + i \in DOMAIN u /\ j # Len(a) + i
    BY <1>1, <1>2
  <2>. QED  BY <2>1 DEF Distinct, u
<1>. QED  BY <1>2 DEF Entries

LEMMA CloseIs == Close \in Events /\ Closed = {Close} /\ Close # StartEvent /\ Close \notin Data
<1>1. PICK c \in Events : Closed = {c}
  BY CloseAssumption
<1>2. Close = c
  BY <1>1 DEF Close
<1>. QED  BY <1>1, <1>2, KindAssumption

LEMMA RawLoad ==
    /\ \A r \in Raws : r.kind \in Kinds /\ r.load \in Seq(Events)
    /\ \A w \in Seq(Raws) : \A i \in DOMAIN w : w[i] \in Raws
<1>1. \A r \in Raws : r.kind \in Kinds /\ r.load \in Seq(Events)
  BY DEF Raws
<1>2. \A w \in Seq(Raws) : \A i \in DOMAIN w : w[i] \in Raws
  OBVIOUS
<1>. QED  BY <1>1, <1>2

LEMMA ContentsEmpty == Contents(<<>>) = <<>>
<1>1. [i \in DOMAIN <<>> |-> <<>>[i].load] = <<>>
  OBVIOUS
<1>. QED  BY <1>1, FlattenEmpty DEF Contents

LEMMA ContentsAppend ==
    ASSUME NEW w \in Seq(Raws), NEW r \in Raws
    PROVE  /\ Contents(w) \in Seq(Events)
           /\ Contents(Append(w, r)) = Contents(w) \o r.load
<1> DEFINE ls == [i \in DOMAIN w |-> w[i].load]
           as == [i \in DOMAIN Append(w, r) |-> Append(w, r)[i].load]
<1>1. ls \in Seq(Seq(Events)) /\ r.load \in Seq(Events)
  <2>1. r.load \in Seq(Events) /\ \A i \in DOMAIN w : w[i].load \in Seq(Events)
    BY RawLoad
  <2>. QED  BY <2>1
<1>2. as = Append(ls, r.load)
  <2>1. /\ Len(w) \in Nat /\ DOMAIN w = 1 .. Len(w) /\ DOMAIN Append(w, r) = 1 .. Len(w) + 1
        /\ \A i \in 1 .. Len(w) : Append(w, r)[i] = w[i]
        /\ Append(w, r)[Len(w) + 1] = r
    OBVIOUS
  <2>2. Len(ls) = Len(w) /\ Len(Append(ls, r.load)) = Len(w) + 1
    BY <1>1
  <2>. QED  BY <1>1, <2>1, <2>2
<1> HIDE DEF ls, as
<1>. QED  BY <1>1, <1>2, FlattenAppend DEF Contents, ls, as

LEMMA ContentsTail ==
    ASSUME NEW w \in Seq(Raws), w # <<>>
    PROVE  /\ Contents(Tail(w)) \in Seq(Events)
           /\ Contents(w) = Head(w).load \o Contents(Tail(w))
<1> DEFINE ls == [i \in DOMAIN w |-> w[i].load]
           ts == [i \in DOMAIN Tail(w) |-> Tail(w)[i].load]
<1>1. /\ Len(w) \in Nat \ {0} /\ DOMAIN w = 1 .. Len(w) /\ DOMAIN Tail(w) = 1 .. Len(w) - 1
      /\ \A i \in 1 .. Len(w) - 1 : Tail(w)[i] = w[i + 1]
      /\ Head(w) = w[1]
      /\ \A i \in 1 .. Len(w) : w[i].load \in Seq(Events)
  <2>1. \A i \in DOMAIN w : w[i].load \in Seq(Events)
    BY RawLoad
  <2>. QED  BY <2>1
<1>2. /\ ls \in Seq(Seq(Events)) /\ ls # <<>> /\ Len(ls) = Len(w)
      /\ \A i \in 1 .. Len(w) : ls[i] = w[i].load
  <2>1. ls = [i \in 1 .. Len(w) |-> w[i].load]
    BY <1>1
  <2>2. ls \in Seq(Seq(Events)) /\ Len(ls) = Len(w)
    BY <1>1, <2>1
  <2>. QED  BY <1>1, <2>1, <2>2
<1>3. ts = [i \in 1 .. Len(w) - 1 |-> w[i + 1].load]
  BY <1>1
<1> HIDE DEF ls, ts
<1>4. ts = Tail(ls) /\ Head(ls) = Head(w).load
  <2>1. /\ Tail(ls) \in Seq(Seq(Events)) /\ Len(Tail(ls)) = Len(w) - 1
        /\ \A i \in 1 .. Len(w) - 1 : Tail(ls)[i] = ls[i + 1]
    BY <1>2, HeadTailProperties
  <2>2. \A i \in 1 .. Len(w) - 1 : i + 1 \in 1 .. Len(w)
    BY <1>1
  <2>3. ts \in Seq(Seq(Events)) /\ Len(ts) = Len(w) - 1
    BY <1>1, <1>3, <2>2
  <2>4. \A i \in 1 .. Len(w) - 1 : Tail(ls)[i] = ts[i]
    BY <1>2, <1>3, <2>1, <2>2, Zenon
  <2>5. Tail(ls) = ts
    BY <2>1, <2>3, <2>4, SeqEqual
  <2>6. Head(ls) = ls[1] /\ 1 \in 1 .. Len(w)
    BY <1>1, <1>2
  <2>. QED  BY <1>1, <1>2, <2>5, <2>6, Zenon
<1>5. FlattenSeq(Tail(ls)) \in Seq(Events) /\ FlattenSeq(ls) = Head(ls) \o FlattenSeq(Tail(ls))
  BY <1>2, FlattenTail
<1>. QED  BY <1>4, <1>5 DEF Contents, ls, ts

LEMMA ContentsAvoid ==
    ASSUME NEW c, NEW w \in Seq(Raws), \A i \in DOMAIN w : c \notin Entries(w[i].load)
    PROVE  c \notin Entries(Contents(w))
<1> DEFINE ls == [i \in DOMAIN w |-> w[i].load]
           T == Events \ {c}
<1>1. ASSUME NEW i \in DOMAIN w PROVE w[i].load \in Seq(T)
  <2>1. w[i].load \in Seq(Events) /\ c \notin Entries(w[i].load)
    BY RawLoad
  <2>2. \A j \in DOMAIN w[i].load : w[i].load[j] \in T
    BY <2>1 DEF Entries
  <2>. QED  BY <2>1, <2>2
<1>2. ls \in Seq(Seq(T)) /\ <<>> \in Seq(T)
  BY <1>1
<1> HIDE DEF ls, T
<1>3. FlattenSeq(ls) \in Seq(T)
  BY <1>2, FlattenAppend
<1>. QED  BY <1>3 DEF Contents, ls, Entries, T

LEMMA WithoutCloseAppend ==
    ASSUME NEW s \in Seq(Events), NEW e \in Events
    PROVE  /\ WithoutClose(s) \in Seq(Events)
           /\ WithoutClose(s \o <<e>>)
                = IF e = Close THEN WithoutClose(s) ELSE Append(WithoutClose(s), e)
<1> DEFINE part(x) == IF x \in Closed THEN <<>> ELSE <<x>>
           ls == [i \in DOMAIN s |-> part(s[i])]
           as == [i \in DOMAIN (s \o <<e>>) |-> part((s \o <<e>>)[i])]
<1>1. \A x \in Events : part(x) \in Seq(Events)
  OBVIOUS
<1>2. /\ Len(s) \in Nat /\ DOMAIN s = 1 .. Len(s) /\ DOMAIN (s \o <<e>>) = 1 .. Len(s) + 1
      /\ \A i \in 1 .. Len(s) : (s \o <<e>>)[i] = s[i] /\ s[i] \in Events
      /\ (s \o <<e>>)[Len(s) + 1] = e
  OBVIOUS
<1> HIDE DEF part
<1>3. ls \in Seq(Seq(Events)) /\ Len(ls) = Len(s)
  <2>1. ls = [i \in 1 .. Len(s) |-> part(s[i])]
    BY <1>2
  <2>. QED  BY <1>1, <1>2, <2>1
<1>4. as = Append(ls, part(e))
  <2>1. Len(Append(ls, part(e))) = Len(s) + 1
    BY <1>1, <1>3
  <2>. QED  BY <1>1, <1>2, <1>3, <2>1
<1>5. WithoutClose(s) = FlattenSeq(ls) /\ WithoutClose(s \o <<e>>) = FlattenSeq(as)
  BY DEF WithoutClose, part
<1> HIDE DEF ls, as
<1>6. /\ FlattenSeq(ls) \in Seq(Events)
      /\ FlattenSeq(as) = FlattenSeq(ls) \o part(e)
  BY <1>1, <1>3, <1>4, FlattenAppend
<1>7. CASE e = Close
  <2>1. part(e) = <<>>
    BY <1>7, CloseIs DEF part
  <2>. QED  BY <1>5, <1>6, <1>7, <2>1, ConcatEmptySeq
<1>8. CASE e # Close
  <2>1. part(e) = <<e>>
    BY <1>8, CloseIs DEF part
  <2>2. FlattenSeq(ls) \o <<e>> = Append(FlattenSeq(ls), e)
    BY <1>6
  <2>. QED  BY <1>5, <1>6, <1>8, <2>1, <2>2
<1>. QED  BY <1>7, <1>8

\* What an operator of the model leaves alone: all but the queues and flags of the tunnel.
SameHistory(u, t) ==
    /\ u.used = t.used /\ u.late = t.late /\ u.seen = t.seen /\ u.sent = t.sent
    /\ u.waiting = t.waiting

SameTunnel(u, t) ==
    /\ u.connected = t.connected /\ u.tunnel = t.tunnel /\ u.parsed = t.parsed
    /\ u.engine = t.engine /\ u.at = t.at /\ u.early = t.early
    /\ u.draining = t.draining /\ u.errored = t.errored /\ u.hung = t.hung

LEMMA ToChildIs ==
    ASSUME NEW t \in TlsRec, NEW s \in Seq(Events)
    PROVE  LET u == ToChild(t, s) IN
           /\ u \in TlsRec /\ SameHistory(u, t) /\ SameTunnel(u, t)
           /\ u.notified = t.notified
           /\ u.give = IF t.errored \/ t.tunnel = "establishing" THEN t.give ELSE t.give \o s
           /\ u.kept = IF ~t.errored /\ t.tunnel = "establishing" THEN t.kept \o s ELSE t.kept
<1>1. t.give \o s \in Seq(Events) /\ t.kept \o s \in Seq(Events)
  BY DEF TlsRec
<1>2. CASE t.errored
  BY <1>2 DEF ToChild, SameHistory, SameTunnel
<1>3. CASE ~t.errored /\ t.tunnel = "establishing"
  BY <1>1, <1>3 DEF ToChild, SameHistory, SameTunnel, TlsRec
<1>4. CASE ~t.errored /\ t.tunnel # "establishing"
  BY <1>1, <1>4 DEF ToChild, SameHistory, SameTunnel, TlsRec
<1>. QED  BY <1>2, <1>3, <1>4

LEMMA DecryptIs ==
    ASSUME NEW t \in TlsRec, NEW s \in Seq(Events)
    PROVE  LET u == Decrypt(t, s) IN
           /\ u \in TlsRec /\ SameHistory(u, t) /\ SameTunnel(u, t)
           /\ u.notified = (t.notified \/ Close \in Entries(s))
           /\ u.give = IF t.errored \/ t.tunnel = "establishing" THEN t.give ELSE t.give \o s
           /\ u.kept = IF ~t.errored /\ t.tunnel = "establishing" THEN t.kept \o s ELSE t.kept
<1> DEFINE c == ToChild(t, s)
           n == c.notified \/ Elems(s) \cap Closed # {}
<1>1. Decrypt(t, s) = [c EXCEPT !.notified = n]
  BY DEF Decrypt
<1>2. c.notified = t.notified /\ t.notified \in BOOLEAN
  BY ToChildIs DEF TlsRec
<1>3. n = (t.notified \/ Close \in Entries(s))
  BY <1>2, CloseIs DEF Elems, Entries
<1> HIDE DEF c, n
<1>4. n \in BOOLEAN
  BY <1>3
<1>5. c \in TlsRec
  BY ToChildIs DEF c
<1>6. [c EXCEPT !.notified = n] \in TlsRec
  BY <1>4, <1>5 DEF TlsRec
<1>7. LET u == Decrypt(t, s) IN
      /\ SameHistory(u, c) /\ SameTunnel(u, c) /\ u.notified = n
      /\ u.give = c.give /\ u.kept = c.kept
  BY <1>1, <1>5 DEF TlsRec, SameHistory, SameTunnel
<1>. QED  BY <1>1, <1>3, <1>6, <1>7, ToChildIs DEF SameHistory, SameTunnel, c

LEMMA PauseIs ==
    ASSUME NEW t \in TlsRec,
           NEW c \in {"clienthello", "server", "tls_start", "tls_established", "tls_failed"}
    PROVE  LET u == Pause(t, c) IN
           /\ u \in TlsRec /\ SameHistory(u, t)
           /\ u.connected = t.connected /\ u.tunnel = t.tunnel /\ u.parsed = t.parsed
           /\ u.engine = t.engine /\ u.at = c /\ u.early = t.early
           /\ u.draining = t.draining /\ u.errored = t.errored /\ u.hung = t.hung
           /\ u.notified = t.notified /\ u.give = t.give /\ u.kept = t.kept
BY DEF Pause, TlsRec, SameHistory

LEMMA QueuedTail ==
    ASSUME NEW t, NEW w \in Seq(Raws), w # <<>>, Queued(t, w)
    PROVE  /\ Queued(t, Tail(w))
           /\ Head(w) \in Raws /\ Tail(w) \in Seq(Raws) /\ Loaded(Head(w))
           /\ Head(w).kind # "start"
           /\ Head(w).kind = "closed" =>
                "closed" \in t.seen /\ \A i \in DOMAIN Tail(w) : Tail(w)[i].kind = "other"
<1>1. /\ Len(w) \in Nat \ {0} /\ DOMAIN w = 1 .. Len(w) /\ DOMAIN Tail(w) = 1 .. Len(w) - 1
      /\ \A i \in 1 .. Len(w) - 1 : Tail(w)[i] = w[i + 1]
      /\ Head(w) = w[1] /\ Head(w) \in Raws /\ Tail(w) \in Seq(Raws)
  OBVIOUS
<1>2. 1 \in DOMAIN w /\ \A i \in DOMAIN Tail(w) : i + 1 \in DOMAIN w /\ 1 < i + 1
  BY <1>1
<1>3. ASSUME NEW i \in DOMAIN Tail(w), NEW j \in DOMAIN Tail(w), i < j
      PROVE  i + 1 < j + 1
  BY <1>1, <1>3
<1>. QED  BY <1>1, <1>2, <1>3 DEF Queued

LEMMA HandleShaking ==
    ASSUME NEW t \in TlsRec, NEW f, NEW w \in Seq(Raws), w # <<>>,
           Shaking(t, f, w), t.at = "none", NEW u \in Handle(t, Head(w))
    PROVE  /\ u \in TlsRec /\ SameHistory(u, t) /\ u.draining = t.draining
           /\ Shaking(u, f, Tail(w))
<1> DEFINE r == Head(w)
           C == Contents(Tail(w))
<1>1. /\ Queued(t, Tail(w)) /\ r \in Raws /\ Loaded(r) /\ r.kind # "start"
      /\ r.load \in Seq(Events) /\ r.kind \in Kinds
  BY QueuedTail, RawLoad DEF Shaking
<1>2. C \in Seq(Events) /\ Contents(w) = r.load \o C
  BY ContentsTail
<1>3. /\ t.kept \in Seq(Events) /\ t.early = <<>> /\ t.tunnel = "establishing" /\ ~t.errored
      /\ (t.kept \o t.early) \o Contents(w) = t.sent
  BY DEF Shaking, TlsRec
<1> HIDE DEF r, C
<1>4. /\ t.kept \o r.load \in Seq(Events)
      /\ (t.kept \o <<>>) \o (r.load \o C) = (t.kept \o r.load) \o C
      /\ (t.kept \o r.load) \o <<>> = t.kept \o r.load
  <2>1. t.kept \in Seq(Events) /\ r.load \in Seq(Events) /\ C \in Seq(Events)
    BY <1>1, <1>2, <1>3
  <2>2. \A a, b, c \in Seq(Events) :
           /\ a \o b \in Seq(Events)
           /\ (a \o <<>>) \o (b \o c) = (a \o b) \o c
           /\ (a \o b) \o <<>> = a \o b
    BY Joined
  <2>. QED  BY <2>1, <2>2, Zenon
<1>5. (t.kept \o r.load) \o C = t.sent /\ ((t.kept \o r.load) \o <<>>) \o C = t.sent
  BY <1>2, <1>3, <1>4, Zenon
<1>6. ASSUME u = Fail(t)
      PROVE  u \in TlsRec /\ SameHistory(u, t) /\ u.draining = t.draining /\ Shaking(u, f, Tail(w))
  <2>1. u = Pause(t, "tls_failed")
    BY <1>6 DEF Fail
  <2>. QED  BY <1>1, <1>3, <2>1, PauseIs DEF Shaking, Queued, SameHistory
<1>7. CASE r.kind = "closed"
  <2>1. u = Fail(t)
    BY <1>3, <1>7 DEF Handle, ReceiveClose, r
  <2>. QED  BY <1>6, <2>1
<1>8. CASE r.kind = "other"
  <2>1. u = ToChild(t, r.load)
    BY <1>3, <1>8 DEF Handle, r
  <2>2. /\ u \in TlsRec /\ SameHistory(u, t) /\ SameTunnel(u, t) /\ u.notified = t.notified
        /\ u.give = t.give /\ u.kept = t.kept \o r.load
    BY <1>1, <1>3, <2>1, ToChildIs
  <2>3. Close \notin Entries(u.kept)
    BY <1>1, <1>3, <1>8, <2>2, EntriesConcat DEF Shaking, Loaded
  <2>4. (u.kept \o <<>>) \o C = u.sent
    BY <1>5, <2>2, Zenon DEF SameHistory
  <2>5. Queued(u, Tail(w))
    BY <1>1, <2>2 DEF Queued, SameHistory
  <2>. QED  BY <1>3, <2>2, <2>3, <2>4, <2>5 DEF Shaking, SameHistory, SameTunnel, C
<1>9. CASE r.kind \in Bytes
  <2>1. u \in ReceiveHandshake(t, r)
    BY <1>1, <1>3, <1>9 DEF Handle, Bytes, r
  <2>2. CASE ~t.parsed /\ r.kind = "hello" /\ u = Pause([t EXCEPT !.parsed = TRUE], "clienthello")
    <3> DEFINE p == [t EXCEPT !.parsed = TRUE]
    <3>1. /\ p \in TlsRec /\ SameHistory(p, t) /\ p.draining = t.draining
          /\ p.tunnel = t.tunnel /\ p.early = t.early /\ p.engine = t.engine
          /\ p.errored = t.errored /\ p.notified = t.notified
          /\ p.give = t.give /\ p.kept = t.kept
      BY DEF TlsRec, SameHistory
    <3> HIDE DEF p
    <3>2. /\ u \in TlsRec /\ SameHistory(u, t) /\ u.draining = t.draining
          /\ u.tunnel = t.tunnel /\ u.at = "clienthello" /\ u.early = t.early
          /\ u.errored = t.errored /\ u.notified = t.notified
          /\ u.give = t.give /\ u.kept = t.kept
      <4>1. u = Pause(p, "clienthello")
        BY <2>2 DEF p
      <4>. QED  BY <3>1, <4>1, PauseIs DEF SameHistory
    <3>3. r.load = <<>>
      BY <1>1, <2>2 DEF Loaded
    <3>4. (u.kept \o u.early) \o C = u.sent
      <4>1. t.kept \o <<>> = t.kept
        BY <1>3, ConcatEmptySeq
      <4>. QED  BY <1>3, <1>5, <3>2, <3>3, <4>1 DEF SameHistory
    <3>5. Queued(u, Tail(w))
      BY <1>1, <3>2 DEF Queued, SameHistory
    <3>. QED  BY <1>3, <3>2, <3>4, <3>5 DEF Shaking, SameHistory, C
  <2>3. CASE t.parsed /\ r.kind = "finish" /\ u = Pause([t EXCEPT !.early = r.load], "tls_established")
    <3> DEFINE p == [t EXCEPT !.early = r.load]
    <3>1. /\ p \in TlsRec /\ SameHistory(p, t) /\ p.draining = t.draining
          /\ p.tunnel = t.tunnel /\ p.early = r.load /\ p.engine = t.engine
          /\ p.errored = t.errored /\ p.notified = t.notified
          /\ p.give = t.give /\ p.kept = t.kept
      BY <1>1 DEF TlsRec, SameHistory
    <3> HIDE DEF p
    <3>2. /\ u \in TlsRec /\ SameHistory(u, t) /\ u.draining = t.draining
          /\ u.tunnel = t.tunnel /\ u.at = "tls_established" /\ u.early = r.load
          /\ u.engine = t.engine
          /\ u.errored = t.errored /\ u.notified = t.notified
          /\ u.give = t.give /\ u.kept = t.kept
      <4>1. u = Pause(p, "tls_established")
        BY <2>3 DEF p
      <4>. QED  BY <3>1, <4>1, PauseIs DEF SameHistory
    <3>4. (u.kept \o u.early) \o C = u.sent
      BY <1>5, <3>2, Zenon DEF SameHistory
    <3>5. Queued(u, Tail(w))
      BY <1>1, <3>2 DEF Queued, SameHistory
    <3>6. u.engine
      BY <2>3, <3>2 DEF Shaking
    <3>. QED  BY <1>3, <3>2, <3>4, <3>5, <3>6 DEF Shaking, SameHistory, C
  <2>4. CASE u = Fail(t)
    BY <1>6, <2>4
  <2>. QED  BY <2>1, <2>2, <2>3, <2>4 DEF ReceiveHandshake
<1>. QED  BY <1>1, <1>7, <1>8, <1>9 DEF Kinds, Bytes

LEMMA HandleOpened ==
    ASSUME NEW t \in TlsRec, NEW f \in Seq(Events), NEW w \in Seq(Raws), w # <<>>,
           History(t), Opened(t, f, w), NEW u \in Handle(t, Head(w))
    PROVE  /\ u \in TlsRec /\ SameHistory(u, t) /\ u.draining = t.draining
           /\ Opened(u, f, Tail(w))
<1> DEFINE r == Head(w)
           C == Contents(Tail(w))
           P == f \o t.give
<1>1. /\ Queued(t, Tail(w)) /\ r \in Raws /\ Loaded(r) /\ r.kind # "start"
      /\ r.load \in Seq(Events) /\ r.kind \in Kinds /\ Tail(w) \in Seq(Raws)
      /\ r.kind = "closed" =>
           "closed" \in t.seen /\ \A i \in DOMAIN Tail(w) : Tail(w)[i].kind = "other"
  BY QueuedTail, RawLoad DEF Opened
<1>2. C \in Seq(Events) /\ Contents(w) = r.load \o C
  BY ContentsTail
<1>3. /\ t.give \in Seq(Events) /\ t.tunnel \in {"open", "closed"} /\ ~t.errored /\ t.engine
      /\ P \o Contents(w) = t.sent
      /\ Close \in Entries(P) <=> t.notified \/ t.tunnel = "closed"
      /\ t.notified \in BOOLEAN /\ t.sent \in Seq(Events)
  BY DEF Opened, TlsRec
<1>4. P \in Seq(Events)
  BY <1>3
<1> HIDE DEF r, C
<1>5. \A l \in Seq(Events) :
        /\ t.give \o l \in Seq(Events) /\ f \o (t.give \o l) = P \o l
        /\ P \o (l \o C) = (f \o (t.give \o l)) \o C
        /\ Entries(f \o (t.give \o l)) = Entries(P) \cup Entries(l)
  <2>1. \A l \in Seq(Events) :
          /\ t.give \o l \in Seq(Events) /\ f \o (t.give \o l) = P \o l
          /\ P \o (l \o C) = (f \o (t.give \o l)) \o C
    <3>1. t.give \in Seq(Events) /\ C \in Seq(Events)
      BY <1>2, <1>3
    <3> DEFINE g == t.give
    <3> HIDE DEF g
    <3>2. g \in Seq(Events)
      BY <3>1 DEF g
    <3>3. ASSUME NEW l \in Seq(Events)
          PROVE  /\ g \o l \in Seq(Events) /\ f \o (g \o l) = (f \o g) \o l
                 /\ (f \o g) \o (l \o C) = (f \o (g \o l)) \o C
      <4>1. f \o g \in Seq(Events) /\ g \o l \in Seq(Events)
        BY <3>2
      <4>2. (f \o g) \o l = f \o (g \o l)
        BY <3>2, EventsAssociative, Zenon
      <4>3. ((f \o g) \o l) \o C = (f \o g) \o (l \o C)
        <5> DEFINE h == f \o g
        <5>1. h \in Seq(Events) /\ C \in Seq(Events)
          BY <3>1, <4>1
        <5> HIDE DEF h
        <5>2. (h \o l) \o C = h \o (l \o C)
          BY <5>1, EventsAssociative, Zenon
        <5>. QED  BY <5>2 DEF h
      <4>. QED  BY <4>1, <4>2, <4>3, Zenon
    <3>. QED  BY <3>3, Zenon DEF P, g
  <2>2. \A l \in Seq(Events) : Entries(P \o l) = Entries(P) \cup Entries(l)
    BY <1>4, EntriesConcat
  <2>. QED  BY <2>1, <2>2, Zenon
<1> HIDE DEF P
<1>6. ASSUME u \in TlsRec, SameHistory(u, t), SameTunnel(u, t), u.kept = t.kept,
             u.give = t.give \o r.load,
             u.notified <=> t.notified \/ Close \in Entries(r.load)
      PROVE  u.draining = t.draining /\ Opened(u, f, Tail(w))
  <2>1. (f \o u.give) \o C = u.sent
    BY <1>1, <1>2, <1>3, <1>5, <1>6, Zenon DEF SameHistory
  <2>2. Close \in Entries(f \o u.give) <=> u.notified \/ u.tunnel = "closed"
    <3>1. Entries(f \o u.give) = Entries(P) \cup Entries(r.load)
      BY <1>1, <1>5, <1>6
    <3>2. u.tunnel = t.tunnel
      BY <1>6 DEF SameTunnel
    <3>. QED  BY <1>3, <1>6, <3>1, <3>2
  <2>3. Queued(u, Tail(w))
    BY <1>1, <1>6 DEF Queued, SameHistory
  <2>. QED  BY <1>6, <2>1, <2>2, <2>3 DEF Opened, SameHistory, SameTunnel, C
<1>7. CASE r.kind = "other"
  <2>1. u = ToChild(t, r.load)
    BY <1>7 DEF Handle, r
  <2>2. Close \notin Entries(r.load)
    BY <1>1, <1>7 DEF Loaded
  <2>. QED  BY <1>1, <1>3, <1>6, <2>1, <2>2, ToChildIs DEF SameHistory
<1>8. CASE r.kind \in Bytes
  <2>1. u = Decrypt(t, r.load)
    BY <1>1, <1>3, <1>8 DEF Handle, Receive, Bytes, r
  <2>2. /\ u \in TlsRec /\ SameHistory(u, t) /\ SameTunnel(u, t)
        /\ u.notified = (t.notified \/ Close \in Entries(r.load))
        /\ u.give = t.give \o r.load /\ u.kept = t.kept
    BY <1>1, <1>3, <2>1, DecryptIs
  <2>. QED  BY <1>6, <2>2
<1>9. CASE r.kind = "closed"
  <2> DEFINE told == IF t.tunnel = "open" /\ ~t.notified THEN ToChild(t, <<Close>>) ELSE t
  <2>1. u = [told EXCEPT !.tunnel = "closed"]
    BY <1>3, <1>9 DEF Handle, ReceiveClose, Close, r
  <2>2. <<Close>> \in Seq(Events) /\ <<>> \in Seq(Events) /\ Entries(<<Close>>) = {Close}
        /\ Entries(<<>>) = {} /\ r.load \in {<<>>, <<Close>>}
    BY <1>1, <1>9, CloseIs, EntriesSmall DEF Loaded
  <2>3. /\ told \in TlsRec /\ SameHistory(told, t) /\ SameTunnel(told, t)
        /\ told.kept = t.kept /\ told.notified = t.notified
        /\ told.give = IF t.tunnel = "open" /\ ~t.notified THEN t.give \o <<Close>> ELSE t.give
    <3>1. CASE t.tunnel = "open" /\ ~t.notified
      <4> DEFINE one == <<Close>>
      <4>1. told = ToChild(t, one) /\ one \in Seq(Events)
        BY <2>2, <3>1
      <4> HIDE DEF told, one
      <4>2. /\ told \in TlsRec /\ SameHistory(told, t) /\ SameTunnel(told, t)
            /\ told.kept = t.kept /\ told.notified = t.notified
            /\ told.give = t.give \o one
        BY <1>3, <3>1, <4>1, ToChildIs
      <4>. QED  BY <3>1, <4>2 DEF one
    <3>2. CASE ~(t.tunnel = "open" /\ ~t.notified)
      BY <3>2 DEF SameHistory, SameTunnel
    <3>. QED  BY <3>1, <3>2
  <2> HIDE DEF told
  <2>4. /\ u \in TlsRec /\ SameHistory(u, told) /\ u.tunnel = "closed"
        /\ u.kept = told.kept /\ u.notified = told.notified /\ u.give = told.give
        /\ u.draining = told.draining /\ u.errored = told.errored /\ u.engine = told.engine
        /\ u.at = told.at /\ u.early = told.early
    BY <2>1, <2>3 DEF TlsRec, SameHistory
  \* The close is told exactly when nobody has told it yet.
  <2>5. r.load = IF t.tunnel = "open" /\ ~t.notified THEN <<Close>> ELSE <<>>
    <3>1. ASSUME t.tunnel = "open", ~t.notified, r.load = <<>> PROVE FALSE
      <4>1. P \o C = t.sent
        BY <1>2, <1>3, <3>1, ConcatEmptySeq
      <4>2. Close \in Entries(P) \cup Entries(C)
        <5>1. Entries(P \o C) = Entries(P) \cup Entries(C)
          BY <1>2, <1>4, EntriesConcat
        <5>2. Close \in Entries(t.sent)
          BY <1>1, <1>9 DEF History
        <5>. QED  BY <4>1, <5>1, <5>2
      <4>3. \A i \in DOMAIN Tail(w) : Close \notin Entries(Tail(w)[i].load)
        BY <1>1, <1>9 DEF Queued, Loaded
      <4>4. Close \notin Entries(C)
        BY <1>1, <4>3, ContentsAvoid DEF C
      <4>. QED  BY <1>3, <3>1, <4>2, <4>4
    <3>2. ASSUME ~(t.tunnel = "open" /\ ~t.notified), r.load = <<Close>> PROVE FALSE
      <4>1. Close \in Entries(P)
        BY <1>3, <3>2
      <4>2. P \o (<<Close>> \o C) = t.sent
        BY <1>2, <1>3, <3>2
      <4>3. <<Close>> \o C \in Seq(Events) /\ 1 \in DOMAIN (<<Close>> \o C) /\ (<<Close>> \o C)[1] = Close
        BY <1>2, <2>2
      <4>. QED  BY <1>4, <4>1, <4>2, <4>3, NotYet DEF History
    <3>. QED  BY <2>2, <3>1, <3>2
  <2>6. u.give = t.give \o r.load
    <3>1. t.give \o <<>> = t.give
      BY <1>3, ConcatEmptySeq
    <3>. QED  BY <2>3, <2>4, <2>5, <3>1
  <2>7. (f \o u.give) \o C = u.sent
    BY <1>1, <1>2, <1>3, <1>5, <2>3, <2>4, <2>6, Zenon DEF SameHistory
  <2>8. Close \in Entries(f \o u.give)
    <3>1. Entries(f \o u.give) = Entries(P) \cup Entries(r.load)
      BY <1>1, <1>5, <2>6
    <3>. QED  BY <1>3, <2>2, <2>5, <3>1
  <2>9. Queued(u, Tail(w)) /\ SameHistory(u, t)
    BY <1>1, <2>3, <2>4 DEF Queued, SameHistory
  <2>. QED  BY <2>3, <2>4, <2>7, <2>8, <2>9 DEF Opened, SameHistory, SameTunnel, C
<1>. QED  BY <1>1, <1>7, <1>8, <1>9 DEF Kinds, Bytes

\* After a failed handshake everything is swallowed.
LEMMA HandleOver ==
    ASSUME NEW t \in TlsRec, NEW f, NEW r \in Raws, r.kind # "start", Over(t, f),
           NEW u \in Handle(t, r)
    PROVE  u \in TlsRec /\ SameHistory(u, t) /\ Over(u, f)
<1>1. r.load \in Seq(Events) /\ r.kind \in Kinds /\ t.errored /\ t.tunnel = "closed"
  BY RawLoad DEF Over
<1>2. CASE r.kind = "closed"
  <2>1. u = [t EXCEPT !.tunnel = "closed"]
    BY <1>1, <1>2 DEF Handle, ReceiveClose
  <2>. QED  BY <2>1 DEF TlsRec, SameHistory, Over
<1>3. CASE r.kind = "other"
  <2>1. u = ToChild(t, r.load)
    BY <1>3 DEF Handle
  <2>. QED  BY <1>1, <2>1, ToChildIs DEF SameHistory, SameTunnel, Over
<1>4. CASE r.kind \in Bytes /\ t.engine
  <2>1. u = Decrypt(t, r.load)
    BY <1>1, <1>4 DEF Handle, Receive, Bytes
  <2>. QED  BY <1>1, <2>1, DecryptIs DEF SameHistory, SameTunnel, Over
<1>5. CASE r.kind \in Bytes /\ ~t.engine
  <2>1. u = [t EXCEPT !.draining = FALSE]
    BY <1>1, <1>5 DEF Handle, Receive, Raised, Bytes
  <2>. QED  BY <2>1 DEF TlsRec, SameHistory, Over
<1>. QED  BY <1>1, <1>2, <1>3, <1>4, <1>5 DEF Kinds, Bytes

LEMMA OneMore ==
    ASSUME NEW s \in Seq(Events), NEW e \in Events
    PROVE  /\ <<e>> \in Seq(Events) /\ s \o <<e>> = Append(s, e) /\ s \o <<e>> \in Seq(Events)
           /\ Entries(s \o <<e>>) = Entries(s) \cup {e}
           /\ Distinct(s) /\ e \notin Entries(s) => Distinct(s \o <<e>>)
<1>1. <<e>> \in Seq(Events) /\ s \o <<e>> = Append(s, e) /\ s \o <<e>> \in Seq(Events)
  OBVIOUS
<1>2. /\ Entries(Append(s, e)) = Entries(s) \cup {e}
      /\ Distinct(s) /\ e \notin Entries(s) => Distinct(Append(s, e))
  BY AppendNew
<1>. QED  BY <1>1, <1>2, Zenon

\* A record or a last flight says nothing that was said.
LEMMA LoadsAreNew ==
    ASSUME tls.sent \in Seq(Events), Distinct(tls.sent), NEW load \in Loads
    PROVE  load \in Seq(Events) /\ Distinct(tls.sent \o load)
<1>1. PICK d \in {<<>>} \cup {<<e>> : e \in New(Data)},
           c \in {<<>>} \cup {<<e>> : e \in New(Closed)} : load = d \o c
  BY DEF Loads
<1> DEFINE s == tls.sent
<1>2. s \in Seq(Events) /\ Distinct(s)
  OBVIOUS
<1>3. /\ \A e \in New(Data) : e \in Events /\ e \notin Entries(s) /\ e # Close
      /\ \A e \in New(Closed) : e \in Events /\ e \notin Entries(s) /\ e = Close
  BY CloseIs, KindAssumption, ElemsIs DEF New
<1> HIDE DEF s
<1>4. d \in Seq(Events) /\ s \o d \in Seq(Events) /\ Distinct(s \o d)
      /\ (Close \in Entries(s \o d) => Close \in Entries(s))
  <2>1. CASE d = <<>>
    <3>1. s \o d = s
      BY <1>2, <2>1, ConcatEmptySeq
    <3>. QED  BY <1>2, <2>1, <3>1, EmptySeq
  <2>2. ASSUME NEW e \in New(Data), d = <<e>>
        PROVE  d \in Seq(Events) /\ s \o d \in Seq(Events) /\ Distinct(s \o d)
               /\ (Close \in Entries(s \o d) => Close \in Entries(s))
    BY <1>2, <1>3, <2>2, OneMore
  <2>. QED  BY <2>1, <2>2
<1>5. c \in Seq(Events) /\ Distinct((s \o d) \o c)
  <2>1. CASE c = <<>>
    <3>1. (s \o d) \o c = s \o d
      BY <1>4, <2>1, ConcatEmptySeq
    <3>. QED  BY <1>4, <2>1, <3>1, EmptySeq
  <2>2. ASSUME NEW e \in New(Closed), c = <<e>>
        PROVE  c \in Seq(Events) /\ Distinct((s \o d) \o c)
    <3>1. e \in Events /\ e \notin Entries(s \o d)
      BY <1>3, <1>4
    <3> DEFINE z == s \o d
    <3>2. z \in Seq(Events) /\ Distinct(z) /\ e \notin Entries(z)
      BY <1>4, <3>1
    <3> HIDE DEF z
    <3>3. Distinct(z \o <<e>>) /\ <<e>> \in Seq(Events)
      BY <3>1, <3>2, OneMore
    <3>. QED  BY <2>2, <3>3 DEF z
  <2>. QED  BY <2>1, <2>2
<1>6. (s \o d) \o c = s \o (d \o c)
  BY <1>2, <1>4, <1>5, Associative
<1>7. d \o c \in Seq(Events)
  BY <1>4, <1>5
<1>. QED  BY <1>1, <1>5, <1>6, <1>7 DEF s

\* What arrives, and what has arrived with it.
LEMMA Arrival ==
    ASSUME tls \in TlsRec, History(tls), NEW kind \in Kinds, MaySend(kind),
           NEW load \in LoadsOf(kind)
    PROVE  LET r == [kind |-> kind, load |-> load]
               t == [tls EXCEPT !.seen = @ \cup {kind}, !.sent = @ \o load,
                                !.connected = @ /\ kind # "closed"]
           IN  /\ r \in Raws /\ Loaded(r)
               /\ kind = "start" => load = <<StartEvent>>
               /\ kind = "other" => \E e \in Events \ {Close} : load = <<e>>
               /\ t \in TlsRec /\ History(t)
<1> DEFINE r == [kind |-> kind, load |-> load]
           t == [tls EXCEPT !.seen = @ \cup {kind}, !.sent = @ \o load,
                            !.connected = @ /\ kind # "closed"]
<1>1. tls.sent \in Seq(Events) /\ Distinct(tls.sent) /\ tls.seen \in SUBSET Kinds
  BY DEF TlsRec, History
<1>2. <<>> \in Seq(Events) /\ tls.sent \o <<>> = tls.sent /\ Entries(<<>>) = {}
  BY <1>1, ConcatEmptySeq, EmptySeq, EntriesSmall
<1>3. /\ load \in Seq(Events) /\ Distinct(tls.sent \o load)
      /\ Loaded(r) /\ (kind = "start" => load = <<StartEvent>>)
      /\ kind = "other" => \E e \in Events \ {Close} : load = <<e>>
      /\ kind = "closed" => Close \in Entries(tls.sent \o load)
  <2>1. CASE kind = "start"
    <3>1. load = <<StartEvent>> /\ tls.sent = <<>> /\ StartEvent \in Events
      BY <2>1, KindAssumption DEF LoadsOf, MaySend, History
    <3>2. Distinct(tls.sent \o load) /\ load \in Seq(Events)
      BY <1>1, <1>2, <3>1, OneMore
    <3>. QED  BY <2>1, <3>1, <3>2 DEF Loaded
  <2>2. CASE kind \in {"finish", "record"}
    <3>1. load \in Loads
      BY <2>2 DEF LoadsOf
    <3>. QED  BY <1>1, <2>2, <3>1, LoadsAreNew DEF Loaded
  <2>3. CASE kind = "closed"
    <3>1. CASE New(Closed) = {}
      <4>1. load = <<>> /\ Close \in Entries(tls.sent)
        BY <2>3, <3>1, CloseIs, ElemsIs DEF LoadsOf, New
      <4>. QED  BY <1>1, <1>2, <2>3, <4>1 DEF Loaded
    <3>2. CASE New(Closed) # {}
      <4>1. load = <<Close>> /\ Close \notin Entries(tls.sent) /\ Close \in Events
        BY <2>3, <3>2, CloseIs, ElemsIs DEF LoadsOf, New, Close
      <4>2. load \in Seq(Events) /\ Distinct(tls.sent \o load) /\ Close \in Entries(tls.sent \o load)
        BY <1>1, <4>1, OneMore
      <4>. QED  BY <2>3, <4>1, <4>2 DEF Loaded
    <3>. QED  BY <3>1, <3>2
  <2>4. CASE kind = "other"
    <3>1. PICK e \in New(Events \ (Data \cup Closed \cup {StartEvent})) : load = <<e>>
      BY <2>4 DEF LoadsOf
    <3>2. e \in Events /\ e # Close /\ e \notin Entries(tls.sent)
      BY CloseIs, ElemsIs DEF New
    <3>3. Distinct(tls.sent \o load) /\ load \in Seq(Events) /\ Close \notin Entries(load)
      BY <1>1, <3>1, <3>2, OneMore, EntriesSmall
    <3>. QED  BY <2>4, <3>1, <3>2, <3>3 DEF Loaded
  <2>5. CASE kind \in {"hello", "junk"}
    <3>1. load = <<>>
      BY <2>5 DEF LoadsOf
    <3>. QED  BY <1>1, <1>2, <2>5, <3>1 DEF Loaded
  <2>. QED  BY <2>1, <2>2, <2>3, <2>4, <2>5 DEF Kinds
<1>4. r \in Raws
  BY <1>3 DEF Raws
<1>5. tls.sent \o load \in Seq(Events) /\ tls.seen \cup {kind} \in SUBSET Kinds
  BY <1>1, <1>3
<1>6. t \in TlsRec /\ t.sent = tls.sent \o load /\ t.seen = tls.seen \cup {kind}
  BY <1>5 DEF TlsRec
<1>7. History(t)
  <2>1. "closed" \in tls.seen => Close \in Entries(tls.sent \o load)
    <3>1. Entries(tls.sent \o load) = Entries(tls.sent) \cup Entries(load)
      BY <1>1, <1>3, EntriesConcat
    <3>. QED  BY <3>1 DEF History
  <2>. QED  BY <1>3, <1>6, <2>1 DEF History, MaySend
<1>. QED  BY <1>3, <1>4, <1>6, <1>7

\* What is put at the end of the queue.
LEMMA QueuedAppend ==
    ASSUME NEW t, NEW u, NEW w \in Seq(Raws), NEW r \in Raws, Queued(t, w), Loaded(r),
           t.seen \subseteq u.seen, r.kind \in u.seen, r.kind # "start",
           "closed" \in t.seen => r.kind = "other"
    PROVE  Queued(u, Append(w, r))
<1> DEFINE v == Append(w, r)
<1>1. /\ Len(w) \in Nat /\ DOMAIN w = 1 .. Len(w) /\ DOMAIN v = 1 .. Len(w) + 1
      /\ \A i \in 1 .. Len(w) : v[i] = w[i]
      /\ v[Len(w) + 1] = r
  OBVIOUS
<1> HIDE DEF v
<1>2. ASSUME NEW i \in DOMAIN v
      PROVE  /\ v[i].kind # "start" /\ Loaded(v[i])
             /\ v[i].kind = "closed" => "closed" \in u.seen
  <2>1. CASE i = Len(w) + 1
    BY <1>1, <2>1
  <2>2. CASE i \in 1 .. Len(w)
    BY <1>1, <2>2 DEF Queued
  <2>. QED  BY <1>1, <2>1, <2>2
<1>3. ASSUME NEW i \in DOMAIN v, NEW j \in DOMAIN v, i < j, v[i].kind = "closed"
      PROVE  v[j].kind = "other"
  <2>1. i \in DOMAIN w /\ w[i].kind = "closed"
    BY <1>1, <1>3
  <2>2. CASE j = Len(w) + 1
    BY <1>1, <2>1, <2>2 DEF Queued
  <2>3. CASE j \in 1 .. Len(w)
    BY <1>1, <1>3, <2>1, <2>3 DEF Queued
  <2>. QED  BY <1>1, <2>2, <2>3
<1>. QED  BY <1>2, <1>3 DEF Queued, v

\* The start event opens the handshake, or meets a client that is gone.
LEMMA StartStep ==
    ASSUME tls \in TlsRec, fed \in Seq(Events), TlsInv(tls, fed), Arrive("start")
    PROVE  tls' \in TlsRec /\ tls'.used = tls.used /\ TlsInv(tls', fed)
<1>1. PICK load \in LoadsOf("start") :
        Deliver([kind |-> "start", load |-> load],
                [tls EXCEPT !.seen = @ \cup {"start"}, !.sent = @ \o load,
                            !.connected = @ /\ "start" # "closed"])
  BY DEF Arrive
<1>2. MaySend("start") /\ History(tls) /\ "start" \in Kinds
  BY DEF Arrive, TlsInv, Kinds
<1>3. tls.seen = {} /\ tls.sent = <<>> /\ load = <<StartEvent>> /\ StartEvent \in Events
      /\ StartEvent # Close
  BY <1>2, KindAssumption, CloseIs DEF MaySend, History, LoadsOf
<1> DEFINE r == [kind |-> "start", load |-> load]
           t == [tls EXCEPT !.seen = @ \cup {"start"}, !.sent = @ \o load,
                            !.connected = @ /\ "start" # "closed"]
<1>4. t \in TlsRec /\ History(t)
  BY <1>2, Arrival
<1>5. Unstarted(tls, fed) \/ Absent(tls, fed)
  BY <1>3 DEF TlsInv, Shaking, Opened, Over
<1>6. /\ t.used = tls.used /\ t.late = tls.late /\ t.seen = {"start"} /\ t.sent = <<StartEvent>>
      /\ t.waiting = tls.waiting /\ t.errored = tls.errored /\ t.tunnel = tls.tunnel
      /\ t.at = tls.at /\ t.give = tls.give /\ t.kept = tls.kept /\ t.early = tls.early
      /\ t.notified = tls.notified /\ t.parsed = tls.parsed /\ t.engine = tls.engine
  <2>1. tls.sent \o load = <<StartEvent>>
    BY <1>3
  <2>. QED  BY <1>3, <2>1 DEF TlsRec
<1>7. tls.at = "none"
  BY <1>5 DEF Unstarted, Absent
<1>8. tls' = Start(t)
  <2>1. tls' \in Handle(t, r)
    BY <1>1, <1>6, <1>7 DEF Deliver
  <2>. QED  BY <2>1 DEF Handle
<1> HIDE DEF t, r
<1> DEFINE one == <<StartEvent>>
<1>9. one \in Seq(Events) /\ <<>> \o one = one /\ one \o <<>> = one /\ Entries(one) = {StartEvent}
  BY <1>3, ConcatEmptySeq, EntriesSmall
<1>10. CASE Unstarted(tls, fed)
  <2> DEFINE p == [t EXCEPT !.tunnel = "establishing"]
  <2>1. /\ p \in TlsRec /\ SameHistory(p, t) /\ p.tunnel = "establishing" /\ p.at = t.at
        /\ p.errored = t.errored /\ p.early = t.early /\ p.notified = t.notified
        /\ p.parsed = t.parsed /\ p.give = t.give /\ p.kept = t.kept
    BY <1>4 DEF TlsRec, SameHistory
  <2>2. tls' = ToChild(p, one)
    BY <1>6, <1>8, <1>10 DEF Start, Unstarted
  <2> HIDE DEF p
  <2>3. /\ ~t.late /\ ~t.errored /\ t.at = "none" /\ t.give = <<>> /\ t.kept = <<>>
        /\ t.early = <<>> /\ t.waiting = <<>> /\ ~t.notified /\ ~t.parsed /\ fed = <<>>
    BY <1>6, <1>10 DEF Unstarted
  <2>4. /\ tls' \in TlsRec /\ SameHistory(tls', t) /\ SameTunnel(tls', p)
        /\ tls'.notified = t.notified /\ tls'.give = <<>> /\ tls'.kept = one
    <3> HIDE DEF one
    <3>1. /\ p.give = <<>> /\ p.kept = <<>> /\ p.notified = t.notified /\ ~p.errored
          /\ p.tunnel = "establishing"
      BY <2>1, <2>3
    <3>2. /\ tls' \in TlsRec /\ SameHistory(tls', p) /\ SameTunnel(tls', p)
          /\ tls'.notified = p.notified /\ tls'.give = p.give /\ tls'.kept = p.kept \o one
      BY <1>9, <2>1, <2>2, <3>1, ToChildIs
    <3>. QED  BY <1>9, <2>1, <3>1, <3>2 DEF SameHistory
  <2>5. Shaking(tls', fed, tls'.waiting)
    <3>1. (one \o <<>>) \o Contents(<<>>) = one
      BY <1>9, ContentsEmpty
    <3>2. Queued(tls', <<>>)
      BY DEF Queued
    <3> HIDE DEF one
    <3>3. one = tls'.sent
      BY <1>6, <2>4 DEF SameHistory, one
    <3>. QED
      BY <1>3, <1>6, <1>9, <2>1, <2>3, <2>4, <3>1, <3>2, <3>3 DEF Shaking, SameHistory, SameTunnel
  <2>6. Drains(tls') /\ History(tls')
    BY <1>4, <2>3, <2>4 DEF Drains, History, SameHistory
  <2>. QED  BY <1>6, <2>4, <2>5, <2>6 DEF TlsInv, SameHistory
<1>11. CASE Absent(tls, fed)
  <2>1. tls' = ToChild(t, one)
    BY <1>6, <1>8, <1>11 DEF Start, Absent
  <2>2. /\ t.late /\ ~t.errored /\ t.tunnel \in {"inactive", "closed"} /\ t.at = "none"
        /\ ~t.engine /\ t.kept = <<>> /\ t.early = <<>> /\ t.waiting = <<>>
        /\ fed \o t.give = WithoutClose(<<>>) /\ t.give \in Seq(Events)
    BY <1>3, <1>4, <1>6, <1>11 DEF Absent, TlsRec
  <2>3. /\ tls' \in TlsRec /\ SameHistory(tls', t) /\ SameTunnel(tls', t)
        /\ tls'.give = t.give \o one /\ tls'.kept = <<>>
    <3> HIDE DEF one
    <3>. QED  BY <1>4, <1>9, <2>1, <2>2, ToChildIs
  <2>4. fed \o (t.give \o one) = WithoutClose(one)
    <3>1. t.give \o one = Append(t.give, StartEvent)
      BY <1>3, <2>2
    <3>2. fed \o Append(t.give, StartEvent) = Append(fed \o t.give, StartEvent)
      <4> DEFINE g == t.give
      <4>1. g \in Seq(Events)
        BY <2>2
      <4> HIDE DEF g
      <4>2. fed \o Append(g, StartEvent) = Append(fed \o g, StartEvent)
        BY <1>3, <4>1, ConcatAppend
      <4>. QED  BY <4>2 DEF g
    <3>3. WithoutClose(<<>> \o <<StartEvent>>) = Append(WithoutClose(<<>>), StartEvent)
      BY <1>3, EmptySeq, WithoutCloseAppend
    <3>. QED  BY <1>9, <2>2, <3>1, <3>2, <3>3
  <2>5. Absent(tls', fed)
    <3> HIDE DEF one
    <3>1. one = tls'.sent
      BY <1>6, <2>3 DEF SameHistory, one
    <3>. QED  BY <1>6, <2>2, <2>3, <2>4, <3>1 DEF Absent, SameHistory, SameTunnel
  <2>6. Drains(tls') /\ History(tls')
    BY <1>4, <2>2, <2>3 DEF Drains, History, SameHistory
  <2>. QED  BY <1>6, <2>3, <2>5, <2>6 DEF TlsInv, SameHistory
<1>. QED  BY <1>5, <1>10, <1>11

\* What the layer gets while the client is not there: nothing but a close that it ignores
\* and events from elsewhere.
LEMMA HandleAbsent ==
    ASSUME NEW t \in TlsRec, NEW f \in Seq(Events), NEW r \in Raws, NEW s \in Seq(Events),
           Absent([t EXCEPT !.sent = s], f), t.sent = s \o r.load, Loaded(r),
           r.kind \in {"hello", "junk", "closed", "other"},
           r.kind = "other" => \E e \in Events \ {Close} : r.load = <<e>>,
           NEW u \in Handle(t, r)
    PROVE  u \in TlsRec /\ SameHistory(u, t) /\ Absent(u, f)
<1>1. /\ t.late /\ ~t.errored /\ t.tunnel \in {"inactive", "closed"} /\ t.at = "none"
      /\ ~t.engine /\ "finish" \notin t.seen
      /\ t.kept = <<>> /\ t.early = <<>> /\ t.waiting = <<>>
      /\ f \o t.give = WithoutClose(s) /\ t.give \in Seq(Events)
  BY DEF Absent, TlsRec
<1>2. s \o <<>> = s
  BY ConcatEmptySeq
<1>3. CASE r.kind \in {"hello", "junk"}
  <2>1. u = [t EXCEPT !.draining = FALSE]
    BY <1>1, <1>3 DEF Handle, Receive, Raised
  <2>2. t.sent = s
    BY <1>2, <1>3 DEF Loaded
  <2>. QED  BY <1>1, <2>1, <2>2 DEF Absent, TlsRec, SameHistory
<1>4. CASE r.kind = "closed"
  <2>1. u = [t EXCEPT !.tunnel = "closed"]
    BY <1>1, <1>4 DEF Handle, ReceiveClose
  <2>2. WithoutClose(t.sent) = WithoutClose(s)
    <3>1. WithoutClose(s \o <<Close>>) = WithoutClose(s)
      BY CloseIs, WithoutCloseAppend
    <3>. QED  BY <1>2, <1>4, <3>1 DEF Loaded
  <2>. QED  BY <1>1, <2>1, <2>2 DEF Absent, TlsRec, SameHistory
<1>5. CASE r.kind = "other"
  <2>1. PICK e \in Events \ {Close} : r.load = <<e>>
    BY <1>5
  <2>2. u = ToChild(t, r.load) /\ r.load \in Seq(Events)
    BY <1>5, RawLoad DEF Handle
  <2>3. /\ u \in TlsRec /\ SameHistory(u, t) /\ SameTunnel(u, t)
        /\ u.give = t.give \o r.load /\ u.kept = t.kept
    BY <1>1, <2>2, ToChildIs
  <2>4. f \o u.give = WithoutClose(u.sent)
    <3> DEFINE g == t.give
    <3>1. g \in Seq(Events) /\ f \o g = WithoutClose(s)
      BY <1>1
    <3>2. u.give = g \o <<e>> /\ u.sent = s \o <<e>>
      BY <2>1, <2>3 DEF SameHistory
    <3> HIDE DEF g
    <3>3. g \o <<e>> = Append(g, e) /\ f \o Append(g, e) = Append(f \o g, e)
      BY <3>1, ConcatAppend
    <3>4. WithoutClose(s \o <<e>>) = Append(WithoutClose(s), e)
      BY WithoutCloseAppend
    <3>. QED  BY <3>1, <3>2, <3>3, <3>4
  <2>. QED  BY <1>1, <2>3, <2>4 DEF Absent, SameHistory, SameTunnel
<1>. QED  BY <1>3, <1>4, <1>5

\* An event that arrives is handled, or waits behind those that do.
LEMMA ArriveStep ==
    ASSUME tls \in TlsRec, fed \in Seq(Events), TlsInv(tls, fed),
           NEW kind \in Kinds, kind # "start", Arrive(kind)
    PROVE  tls' \in TlsRec /\ tls'.used = tls.used /\ TlsInv(tls', fed)
<1>1. PICK load \in LoadsOf(kind) :
        Deliver([kind |-> kind, load |-> load],
                [tls EXCEPT !.seen = @ \cup {kind}, !.sent = @ \o load,
                            !.connected = @ /\ kind # "closed"])
  BY DEF Arrive
<1>2. MaySend(kind) /\ History(tls) /\ Drains(tls) /\ tls.give = <<>> /\ ~tls.draining
  BY DEF Arrive, TlsInv, Quiet
<1> DEFINE r == [kind |-> kind, load |-> load]
           t == [tls EXCEPT !.seen = @ \cup {kind}, !.sent = @ \o load,
                            !.connected = @ /\ kind # "closed"]
           w == Append(tls.waiting, r)
<1>3. /\ r \in Raws /\ Loaded(r) /\ t \in TlsRec /\ History(t) /\ r.kind = kind /\ r.load = load
      /\ kind = "other" => \E e \in Events \ {Close} : load = <<e>>
  BY <1>2, Arrival
<1>4. /\ t.used = tls.used /\ t.late = tls.late /\ t.seen = tls.seen \cup {kind}
      /\ t.sent = tls.sent \o load
      /\ t.waiting = tls.waiting /\ t.errored = tls.errored /\ t.tunnel = tls.tunnel
      /\ t.at = tls.at /\ t.give = tls.give /\ t.kept = tls.kept /\ t.early = tls.early
      /\ t.notified = tls.notified /\ t.parsed = tls.parsed /\ t.engine = tls.engine
      /\ t.hung = tls.hung /\ t.draining = tls.draining
      /\ tls = [t EXCEPT !.seen = tls.seen, !.sent = tls.sent, !.connected = tls.connected]
  BY DEF TlsRec
<1>5. /\ tls.sent \in Seq(Events) /\ tls.waiting \in Seq(Raws) /\ tls.kept \in Seq(Events)
      /\ tls.early \in Seq(Events) /\ tls.seen # {} /\ load \in Seq(Events)
  <2>1. load \in Seq(Events)
    BY <1>3, RawLoad
  <2>. QED  BY <1>2, <2>1 DEF TlsRec, MaySend
<1>6. IF tls.at = "none" THEN tls' \in Handle(t, r) ELSE tls' = [t EXCEPT !.waiting = w]
  BY <1>1, <1>4 DEF Deliver
<1> HIDE DEF t, r
\* The queue as it is with the new event at its end.
<1>7. /\ w \in Seq(Raws) /\ Contents(tls.waiting) \in Seq(Events)
      /\ Contents(w) = Contents(tls.waiting) \o load
  <2> DEFINE q == tls.waiting
  <2>1. q \in Seq(Raws)
    BY <1>5
  <2> HIDE DEF q
  <2>2. /\ Append(q, r) \in Seq(Raws) /\ Contents(q) \in Seq(Events)
        /\ Contents(Append(q, r)) = Contents(q) \o r.load
    BY <1>3, <2>1, ContentsAppend
  <2>. QED  BY <1>3, <2>2 DEF q
<1>8. Queued(tls, tls.waiting) => Queued(t, w)
  <2>1. tls.seen \subseteq t.seen /\ r.kind \in t.seen /\ r.kind # "start"
    BY <1>3, <1>4
  <2>2. "closed" \in tls.seen => r.kind = "other"
    BY <1>2, <1>3 DEF MaySend, Kinds, Bytes
  <2>. QED  BY <1>3, <1>5, <2>1, <2>2, QueuedAppend
<1>9. \A x \in Seq(Events) : x \o Contents(tls.waiting) = tls.sent => x \o Contents(w) = t.sent
  <2> SUFFICES ASSUME NEW x \in Seq(Events), x \o Contents(tls.waiting) = tls.sent
               PROVE  x \o Contents(w) = t.sent
    OBVIOUS
  <2> DEFINE y == Contents(tls.waiting)
  <2>0. load \in Seq(Events)
    BY <1>5
  <2>1. y \in Seq(Events) /\ x \o y = tls.sent /\ Contents(w) = y \o load
    BY <1>7
  <2> HIDE DEF y, w
  <2>2. (x \o y) \o load = x \o (y \o load)
    <3>1. y \in Seq(Events)
      BY <2>1
    <3>. QED  BY <2>0, <3>1, Associative
  <2>. QED  BY <1>4, <2>1, <2>2, Zenon
<1> HIDE DEF w
<1>10. Shaking(tls, fed, tls.waiting) => Shaking(t, fed, w)
  <2> SUFFICES ASSUME Shaking(tls, fed, tls.waiting) PROVE Shaking(t, fed, w)
    OBVIOUS
  <2>1. tls.kept \o tls.early \in Seq(Events)
    BY <1>5
  <2>2. tls.at # "tls_failed" => (tls.kept \o tls.early) \o Contents(w) = t.sent
    BY <1>9, <2>1 DEF Shaking
  <2>. QED  BY <1>4, <1>8, <2>2 DEF Shaking
<1>11. Opened(tls, fed, tls.waiting) => Opened(t, fed, w)
  <2> SUFFICES ASSUME Opened(tls, fed, tls.waiting) PROVE Opened(t, fed, w)
    OBVIOUS
  <2>1. fed \o tls.give \in Seq(Events)
    BY <1>2, EmptySeq
  <2>2. (fed \o tls.give) \o Contents(w) = t.sent
    BY <1>9, <2>1 DEF Opened
  <2>. QED  BY <1>4, <1>8, <2>2 DEF Opened
\* The layer waits for one of its own commands.
<1>12. CASE tls.at # "none"
  <2>1. tls' = [t EXCEPT !.waiting = w]
    BY <1>6, <1>12
  <2>2. Shaking(t, fed, w)
    BY <1>10, <1>12 DEF TlsInv, Unstarted, Opened, Over, Absent
  <2>3. Shaking(tls', fed, w) /\ tls'.waiting = w /\ tls' \in TlsRec /\ tls'.at = t.at
        /\ tls'.used = t.used /\ History(tls')
    BY <1>3, <1>7, <2>1, <2>2 DEF TlsRec, Shaking, Queued, History
  <2>. QED  BY <1>4, <1>12, <2>3 DEF TlsInv, Drains
<1>13. CASE tls.at = "none" /\ ~tls.errored /\ ~tls.late
  <2>1. tls.waiting = <<>> /\ tls' \in Handle(t, r)
    BY <1>2, <1>6, <1>13 DEF Drains
  <2>2. w # <<>> /\ Head(w) = r /\ Tail(w) = <<>>
    BY <1>3, <2>1 DEF w
  <2>3. Shaking(t, fed, w) \/ Opened(t, fed, w)
    BY <1>5, <1>10, <1>11, <1>13 DEF TlsInv, Unstarted, Over, Absent
  <2>4. /\ tls' \in TlsRec /\ SameHistory(tls', t)
        /\ Shaking(tls', fed, <<>>) \/ Opened(tls', fed, <<>>)
    <3>1. CASE Shaking(t, fed, w)
      <4>1. t.at = "none" /\ tls' \in Handle(t, Head(w)) /\ w \in Seq(Raws) /\ t \in TlsRec
        BY <1>3, <1>4, <1>7, <1>13, <2>1, <2>2
      <4>2. tls' \in TlsRec /\ SameHistory(tls', t) /\ Shaking(tls', fed, Tail(w))
        BY <2>2, <3>1, <4>1, HandleShaking
      <4>. QED  BY <2>2, <4>2
    <3>2. CASE Opened(t, fed, w)
      <4>1. History(t) /\ tls' \in Handle(t, Head(w)) /\ w \in Seq(Raws) /\ t \in TlsRec
        BY <1>3, <1>7, <2>1, <2>2
      <4>2. tls' \in TlsRec /\ SameHistory(tls', t) /\ Opened(tls', fed, Tail(w))
        BY <2>2, <3>2, <4>1, HandleOpened
      <4>. QED  BY <2>2, <4>2
    <3>. QED  BY <2>3, <3>1, <3>2
  <2>. QED  BY <1>3, <1>4, <2>1, <2>4 DEF TlsInv, Drains, History, SameHistory
<1>14. CASE tls.at = "none" /\ tls.errored
  <2>1. Over(t, fed)
    BY <1>4, <1>14 DEF TlsInv, Unstarted, Shaking, Opened, Absent, Over
  <2>2. tls' \in TlsRec /\ SameHistory(tls', t) /\ Over(tls', fed)
    BY <1>3, <1>6, <1>14, <2>1, HandleOver
  <2>. QED  BY <1>3, <1>4, <2>2 DEF TlsInv, Drains, Over, History, SameHistory
<1>15. CASE tls.at = "none" /\ ~tls.errored /\ tls.late
  <2>1. Absent(tls, fed)
    BY <1>15 DEF TlsInv, Unstarted, Shaking, Opened, Over
  <2>2. Absent([t EXCEPT !.sent = tls.sent], fed) /\ kind \in {"hello", "junk", "closed", "other"}
    <3>1. kind \notin {"finish", "record"}
      BY <1>2, <2>1 DEF MaySend, Absent
    <3>2. kind \in {"hello", "junk", "closed", "other"}
      BY <3>1 DEF Kinds
    <3>3. "finish" \notin t.seen
      BY <1>4, <2>1, <3>1 DEF Absent
    <3>. QED  BY <1>3, <1>4, <2>1, <3>2, <3>3 DEF Absent, TlsRec
  <2>3. tls' \in TlsRec /\ SameHistory(tls', t) /\ Absent(tls', fed)
    BY <1>3, <1>4, <1>5, <1>6, <1>15, <2>2, HandleAbsent
  <2>. QED  BY <1>3, <1>4, <2>3 DEF TlsInv, Drains, Absent, History, SameHistory
<1>. QED  BY <1>12, <1>13, <1>14, <1>15 DEF TlsRec

\* A command of the layer is answered.
LEMMA ResumeShaking ==
    ASSUME NEW t \in TlsRec, NEW f, NEW w, w = t.waiting, Shaking(t, f, w), t.at # "none",
           NEW u \in Resume(t)
    PROVE  /\ u \in TlsRec /\ SameHistory(u, t)
           /\ Shaking(u, f, w) \/ Opened(u, f, w) \/ Over(u, f)
<1> DEFINE r == [t EXCEPT !.at = "none"]
<1>1. /\ r \in TlsRec /\ SameHistory(r, t) /\ r.at = "none"
      /\ r.connected = t.connected /\ r.tunnel = t.tunnel /\ r.parsed = t.parsed
      /\ r.engine = t.engine /\ r.early = t.early /\ r.draining = t.draining
      /\ r.errored = t.errored /\ r.hung = t.hung
      /\ r.notified = t.notified /\ r.give = t.give /\ r.kept = t.kept
  BY DEF TlsRec, SameHistory
<1>2. /\ t.tunnel = "establishing" /\ ~t.errored /\ ~t.late /\ ~t.notified /\ t.seen # {}
      /\ f = <<>> /\ t.give = <<>> /\ Queued(t, w) /\ Close \notin Entries(t.kept)
      /\ t.at # "tls_established" => t.early = <<>>
      /\ t.at = "tls_established" => t.engine
      /\ t.at # "tls_failed" => (t.kept \o t.early) \o Contents(w) = t.sent
      /\ t.kept \in Seq(Events) /\ t.early \in Seq(Events)
      /\ t.at \in {"clienthello", "server", "tls_start", "tls_established", "tls_failed"}
  BY DEF Shaking, TlsRec
<1>3. /\ t.at = "clienthello" => u = Pause(r, "tls_start") \/ u = Pause(r, "server")
      /\ t.at = "server" => u = Pause(r, "tls_start")
      /\ t.at = "tls_start" => u \in TlsStarted(r)
      /\ t.at = "tls_established" => u \in Established(r)
      /\ t.at = "tls_failed" => u \in Failed(r)
  BY <1>2 DEF Resume, StartTls
<1> HIDE DEF r
\* It goes on with the handshake, or has to give it up.
<1>4. ASSUME NEW p \in TlsRec, SameHistory(p, t), p.tunnel = t.tunnel,
             p.early = t.early, p.errored = t.errored, p.notified = t.notified,
             p.give = t.give, p.kept = t.kept, t.at \notin {"tls_established", "tls_failed"},
             \/ u = Pause(p, "tls_start") \/ u = Pause(p, "server") \/ u = Pause(p, "tls_failed")
             \/ u = p /\ p.at = "none" /\ p.engine
      PROVE  u \in TlsRec /\ SameHistory(u, t) /\ Shaking(u, f, w)
  <2>1. /\ u \in TlsRec /\ SameHistory(u, p) /\ u.tunnel = p.tunnel /\ u.early = p.early
        /\ u.errored = p.errored /\ u.notified = p.notified
        /\ u.give = p.give /\ u.kept = p.kept
        /\ u.at \in {"tls_start", "server", "tls_failed"} \/ (u.at = "none" /\ u.engine)
    <3>1. CASE u = p /\ p.at = "none" /\ p.engine
      BY <3>1 DEF SameHistory
    <3>2. CASE u = Pause(p, "tls_start")
      BY <3>2, PauseIs
    <3>3. CASE u = Pause(p, "server")
      BY <3>3, PauseIs
    <3>4. CASE u = Pause(p, "tls_failed")
      BY <3>4, PauseIs
    <3>. QED  BY <1>4, <3>1, <3>2, <3>3, <3>4
  <2>2. Queued(u, w)
    BY <1>2, <1>4, <2>1 DEF Queued, SameHistory
  <2>. QED  BY <1>2, <1>4, <2>1, <2>2 DEF Shaking, SameHistory
<1>5. CASE t.at \in {"clienthello", "server"}
  <2>1. u = Pause(r, "tls_start") \/ u = Pause(r, "server")
    BY <1>3, <1>5
  <2>. QED  BY <1>1, <1>4, <1>5, <2>1
<1>6. CASE t.at = "tls_start"
  <2> DEFINE ready == [r EXCEPT !.engine = TRUE]
             refused == [r EXCEPT !.connected = FALSE, !.hung = TRUE]
  <2>1. /\ ready \in TlsRec /\ SameHistory(ready, r) /\ ready.tunnel = r.tunnel
        /\ ready.early = r.early /\ ready.errored = r.errored /\ ready.notified = r.notified
        /\ ready.give = r.give /\ ready.kept = r.kept /\ ready.at = r.at /\ ready.engine
    BY <1>1 DEF TlsRec, SameHistory
  <2>2. /\ refused \in TlsRec /\ SameHistory(refused, r) /\ refused.tunnel = r.tunnel
        /\ refused.early = r.early /\ refused.errored = r.errored
        /\ refused.notified = r.notified
        /\ refused.give = r.give /\ refused.kept = r.kept
    BY <1>1 DEF TlsRec, SameHistory
  <2>3. u = Pause(refused, "tls_failed") \/ u = Pause(ready, "tls_failed") \/ u = ready
    BY <1>3, <1>6 DEF TlsStarted, Handshake, Fail
  <2> HIDE DEF ready, refused
  <2>4. CASE u = Pause(refused, "tls_failed")
    BY <1>1, <1>4, <1>6, <2>2, <2>4 DEF SameHistory
  <2>5. CASE u = Pause(ready, "tls_failed") \/ u = ready
    BY <1>1, <1>4, <1>6, <2>1, <2>5 DEF SameHistory
  <2>. QED  BY <2>3, <2>4, <2>5
\* The tunnel is open: what was kept and what came with the handshake is passed on.
<1>7. CASE t.at = "tls_established"
  <2> DEFINE full == Decrypt(r, r.early)
  <2>1. u = [full EXCEPT !.tunnel = "open", !.give = full.kept, !.kept = <<>>, !.early = <<>>]
    BY <1>3, <1>7 DEF Established
  <2>2. r.early \in Seq(Events) /\ ~r.errored /\ r.tunnel = "establishing"
    BY <1>1, <1>2
  <2>3. /\ full \in TlsRec /\ SameHistory(full, r) /\ SameTunnel(full, r)
        /\ full.notified = (r.notified \/ Close \in Entries(r.early))
        /\ full.kept = r.kept \o r.early
    BY <1>1, <2>2, DecryptIs
  <2> HIDE DEF full
  <2>4. /\ u \in TlsRec /\ SameHistory(u, full) /\ u.tunnel = "open" /\ u.give = full.kept
        /\ u.kept = <<>> /\ u.early = <<>> /\ u.engine = full.engine /\ u.at = full.at
        /\ u.errored = full.errored /\ u.notified = full.notified
    <3>1. full.kept \in Seq(Events) /\ <<>> \in Seq(Events)
      BY <2>3, EmptySeq DEF TlsRec
    <3>2. u \in TlsRec
      BY <2>1, <2>3, <3>1 DEF TlsRec
    <3>3. full \in TlsRec
      BY <2>3
    <3>4. /\ u.tunnel = "open" /\ u.give = full.kept /\ u.kept = <<>> /\ u.early = <<>>
          /\ u.engine = full.engine /\ u.at = full.at
          /\ u.errored = full.errored /\ u.notified = full.notified
      BY <2>1, <3>3 DEF TlsRec
    <3>5. SameHistory(u, full)
      BY <2>1, <3>3 DEF TlsRec, SameHistory
    <3>. QED  BY <3>2, <3>4, <3>5
  <2>5. SameHistory(u, t) /\ Queued(u, w)
    BY <1>1, <1>2, <2>3, <2>4 DEF SameHistory, Queued
  <2>6. f \o u.give = t.kept \o t.early
    <3>1. u.give \in Seq(Events) /\ u.give = t.kept \o t.early
      BY <1>1, <2>3, <2>4 DEF TlsRec
    <3>2. <<>> \o u.give = u.give
      BY <3>1, ConcatEmptySeq
    <3>. QED  BY <1>2, <3>1, <3>2, Zenon
  <2>7. (f \o u.give) \o Contents(w) = u.sent
    BY <1>2, <1>7, <2>5, <2>6 DEF SameHistory
  <2>8. Close \in Entries(f \o u.give) <=> u.notified \/ u.tunnel = "closed"
    <3>1. Entries(t.kept \o t.early) = Entries(t.kept) \cup Entries(t.early)
      BY <1>2, EntriesConcat
    <3>. QED  BY <1>1, <1>2, <2>3, <2>4, <2>6, <3>1
  <2>9. u.engine /\ u.at = "none" /\ ~u.errored /\ ~u.late /\ u.seen # {}
    BY <1>1, <1>2, <1>7, <2>3, <2>4, <2>5 DEF SameHistory, SameTunnel
  <2>. QED  BY <2>4, <2>5, <2>7, <2>8, <2>9 DEF Opened
<1>8. CASE t.at = "tls_failed"
  <2>1. u = [r EXCEPT !.hung = TRUE, !.errored = TRUE, !.connected = FALSE,
                      !.tunnel = "closed", !.kept = <<>>]
    BY <1>3, <1>8 DEF Failed
  <2>2. /\ u \in TlsRec /\ SameHistory(u, r) /\ u.hung /\ u.errored /\ u.tunnel = "closed"
        /\ u.kept = <<>> /\ u.at = r.at /\ u.give = r.give
    <3>1. u \in TlsRec
      BY <1>1, <2>1, EmptySeq DEF TlsRec
    <3>. QED  BY <1>1, <2>1, <3>1 DEF TlsRec, SameHistory
  <2>3. \A i \in DOMAIN u.waiting : u.waiting[i].kind # "start"
    BY <1>1, <1>2, <2>2 DEF SameHistory, Queued
  <2>. QED  BY <1>1, <1>2, <2>2, <2>3 DEF SameHistory, Over
<1>. QED  BY <1>2, <1>5, <1>6, <1>7, <1>8

LEMMA TlsHookStep ==
    ASSUME tls \in TlsRec, TlsInv(tls, fed), TlsHookDone
    PROVE  tls' \in TlsRec /\ tls'.used = tls.used /\ TlsInv(tls', fed)
<1>1. PICK u \in Resume(tls) : tls' = [u EXCEPT !.draining = TRUE]
  BY DEF TlsHookDone
<1>2. Shaking(tls, fed, tls.waiting) /\ tls.at # "none" /\ History(tls)
  BY DEF TlsHookDone, TlsInv, Unstarted, Opened, Over, Absent
<1>3. /\ u \in TlsRec /\ SameHistory(u, tls)
      /\ Shaking(u, fed, tls.waiting) \/ Opened(u, fed, tls.waiting) \/ Over(u, fed)
  BY <1>2, ResumeShaking
<1>4. /\ tls' \in TlsRec /\ SameHistory(tls', u) /\ tls'.draining
      /\ tls'.tunnel = u.tunnel /\ tls'.engine = u.engine /\ tls'.parsed = u.parsed
      /\ tls'.at = u.at /\ tls'.early = u.early /\ tls'.errored = u.errored
      /\ tls'.hung = u.hung /\ tls'.notified = u.notified /\ tls'.give = u.give
      /\ tls'.kept = u.kept
  BY <1>1, <1>3 DEF TlsRec, SameHistory
<1>5. \A w : /\ Queued(u, w) => Queued(tls', w)
             /\ Shaking(u, fed, w) => Shaking(tls', fed, w)
             /\ Opened(u, fed, w) => Opened(tls', fed, w)
  BY <1>4 DEF Queued, Shaking, Opened, SameHistory
<1>6. Over(u, fed) => Over(tls', fed)
  BY <1>4 DEF Over, SameHistory
<1>7. History(tls') /\ Drains(tls') /\ tls'.waiting = tls.waiting /\ tls'.used = tls.used
  BY <1>2, <1>3, <1>4 DEF History, Drains, SameHistory
<1>. QED  BY <1>3, <1>4, <1>5, <1>6, <1>7 DEF TlsInv

\* The next event that waited is handled.
LEMMA DrainStep ==
    ASSUME tls \in TlsRec, fed \in Seq(Events), TlsInv(tls, fed), DrainWaiting
    PROVE  tls' \in TlsRec /\ tls'.used = tls.used /\ TlsInv(tls', fed)
<1>1. CASE tls.at = "none" /\ tls.waiting # <<>>
  <2> DEFINE t == [tls EXCEPT !.waiting = Tail(@)]
             w == tls.waiting
  <2>1. tls' \in Handle(t, Head(w)) /\ tls.draining
    BY <1>1 DEF DrainWaiting
  <2>2. w \in Seq(Raws) /\ w # <<>> /\ Tail(w) \in Seq(Raws) /\ Head(w) \in Raws
    BY <1>1 DEF TlsRec
  <2>3. /\ t \in TlsRec /\ t.used = tls.used /\ t.late = tls.late /\ t.seen = tls.seen
        /\ t.sent = tls.sent /\ t.waiting = Tail(w) /\ SameTunnel(t, tls)
        /\ t.notified = tls.notified /\ t.give = tls.give /\ t.kept = tls.kept
    BY <2>2 DEF TlsRec, SameTunnel
  <2> HIDE DEF t
  <2>4. /\ History(t)
        /\ \A v : /\ Queued(tls, v) => Queued(t, v)
                  /\ Shaking(tls, fed, v) => Shaking(t, fed, v)
                  /\ Opened(tls, fed, v) => Opened(t, fed, v)
        /\ Over(tls, fed) => Over(t, fed)
    <3>1. \A i \in DOMAIN Tail(w) : i + 1 \in DOMAIN w /\ Tail(w)[i] = w[i + 1]
      BY <2>2
    <3> HIDE DEF w
    <3>2. Over(tls, fed) => \A i \in DOMAIN Tail(w) : Tail(w)[i].kind # "start"
      BY <3>1 DEF Over, w
    <3>. QED  BY <2>3, <3>2 DEF TlsInv, History, Queued, Shaking, Opened, Over, SameTunnel
  <2>5. CASE Shaking(tls, fed, w)
    <3>1. Shaking(t, fed, w) /\ t.at = "none" /\ t.draining
      BY <1>1, <2>1, <2>3, <2>4, <2>5 DEF SameTunnel
    <3> HIDE DEF w
    <3>2. /\ tls' \in TlsRec /\ SameHistory(tls', t) /\ tls'.draining = t.draining
          /\ Shaking(tls', fed, Tail(w))
      BY <2>1, <2>2, <2>3, <3>1, HandleShaking
    <3>. QED  BY <2>3, <2>4, <3>1, <3>2 DEF TlsInv, History, Drains, SameHistory
  <2>6. CASE Opened(tls, fed, w)
    <3>1. Opened(t, fed, w) /\ t.draining /\ History(t)
      BY <2>1, <2>3, <2>4, <2>6 DEF SameTunnel
    <3> HIDE DEF w
    <3>2. /\ tls' \in TlsRec /\ SameHistory(tls', t) /\ tls'.draining = t.draining
          /\ Opened(tls', fed, Tail(w))
      BY <2>1, <2>2, <2>3, <3>1, HandleOpened
    <3>. QED  BY <2>3, <2>4, <3>1, <3>2 DEF TlsInv, History, Drains, SameHistory
  <2>7. CASE Over(tls, fed)
    <3>1. Over(t, fed)
      BY <2>4, <2>7
    <3>2. Head(w).kind # "start"
      <4>1. 1 \in DOMAIN w /\ Head(w) = w[1]
        BY <2>2
      <4>. QED  BY <2>7, <4>1 DEF Over
    <3>3. tls' \in TlsRec /\ SameHistory(tls', t) /\ Over(tls', fed)
      BY <2>1, <2>2, <2>3, <3>1, <3>2, HandleOver
    <3>. QED  BY <2>3, <2>4, <3>3 DEF TlsInv, History, Drains, SameHistory, Over
  <2>. QED  BY <1>1, <2>5, <2>6, <2>7 DEF TlsInv, Unstarted, Absent
<1>2. CASE ~(tls.at = "none" /\ tls.waiting # <<>>)
  <2>1. tls' = [tls EXCEPT !.draining = FALSE]
    BY <1>2 DEF DrainWaiting
  <2>2. /\ tls' \in TlsRec /\ SameHistory(tls', tls)
        /\ tls'.tunnel = tls.tunnel /\ tls'.engine = tls.engine /\ tls'.parsed = tls.parsed
        /\ tls'.at = tls.at /\ tls'.early = tls.early /\ tls'.errored = tls.errored
        /\ tls'.hung = tls.hung /\ tls'.notified = tls.notified /\ tls'.give = tls.give
        /\ tls'.kept = tls.kept
    BY <2>1 DEF TlsRec, SameHistory
  <2>3. /\ \A v : /\ Queued(tls, v) => Queued(tls', v)
                  /\ Shaking(tls, fed, v) => Shaking(tls', fed, v)
                  /\ Opened(tls, fed, v) => Opened(tls', fed, v)
        /\ Over(tls, fed) => Over(tls', fed)
        /\ Unstarted(tls, fed) => Unstarted(tls', fed)
        /\ Absent(tls, fed) => Absent(tls', fed)
    BY <2>2 DEF Queued, Shaking, Opened, Over, Unstarted, Absent, SameHistory
  <2>4. History(tls') /\ Drains(tls')
    BY <1>2, <2>2 DEF TlsInv, History, Drains, SameHistory
  <2>. QED  BY <2>2, <2>3, <2>4 DEF TlsInv, SameHistory
<1>. QED  BY <1>1, <1>2

\* An event that is passed on leaves the layer for its child.
LEMMA GiveStep ==
    ASSUME tls \in TlsRec, fed \in Seq(Events), TlsInv(tls, fed), GiveNext
    PROVE  tls' \in TlsRec /\ tls'.used = tls.used /\ TlsInv(tls', fed')
<1>1. /\ tls.give # <<>> /\ tls' = [tls EXCEPT !.give = Tail(@)]
      /\ fed' = Append(fed, Head(tls.give)) /\ tls.give \in Seq(Events)
  BY DEF GiveNext, Inner!Feed, Inner!FeedKeep, Inner!FeedPaused, Inner!FeedChild, TlsRec
<1>2. fed' \o Tail(tls.give) = fed \o tls.give /\ Tail(tls.give) \in Seq(Events)
  <2> DEFINE g == tls.give
  <2>1. g \in Seq(Events) /\ g # <<>>
    BY <1>1
  <2> HIDE DEF g
  <2>2. Append(fed, Head(g)) \o Tail(g) = fed \o g /\ Tail(g) \in Seq(Events)
    BY <2>1, MoveHead
  <2>. QED  BY <1>1, <2>2 DEF g
<1>3. /\ tls' \in TlsRec /\ SameHistory(tls', tls) /\ tls'.give = Tail(tls.give)
      /\ tls'.tunnel = tls.tunnel /\ tls'.engine = tls.engine /\ tls'.at = tls.at
      /\ tls'.early = tls.early /\ tls'.errored = tls.errored /\ tls'.kept = tls.kept
      /\ tls'.notified = tls.notified /\ tls'.draining = tls.draining
  <2> DEFINE tail == Tail(tls.give)
  <2>1. tls' = [tls EXCEPT !.give = tail] /\ tail \in Seq(Events)
    BY <1>1, <1>2
  <2> HIDE DEF tail
  <2>2. tls' \in TlsRec
    BY <2>1 DEF TlsRec
  <2>3. tls'.give = tail
    BY <2>1 DEF TlsRec
  <2>4. /\ SameHistory(tls', tls)
        /\ tls'.tunnel = tls.tunnel /\ tls'.engine = tls.engine /\ tls'.at = tls.at
        /\ tls'.early = tls.early /\ tls'.errored = tls.errored /\ tls'.kept = tls.kept
        /\ tls'.notified = tls.notified /\ tls'.draining = tls.draining
    BY <2>1 DEF TlsRec, SameHistory
  <2>. QED  BY <2>2, <2>3, <2>4 DEF tail
<1>4. Opened(tls, fed, tls.waiting) => Opened(tls', fed', tls'.waiting)
  <2>1. fed' \o tls'.give = fed \o tls.give
    BY <1>2, <1>3, Zenon
  <2>2. \A w : Queued(tls, w) => Queued(tls', w)
    BY <1>3 DEF Queued, SameHistory
  <2>. QED  BY <1>3, <2>1, <2>2 DEF Opened, SameHistory
<1>5. Absent(tls, fed) => Absent(tls', fed')
  BY <1>2, <1>3 DEF Absent, SameHistory
<1>6. History(tls') /\ Drains(tls')
  BY <1>3 DEF TlsInv, History, Drains, SameHistory
<1>. QED  BY <1>1, <1>3, <1>4, <1>5, <1>6 DEF TlsInv, Unstarted, Shaking, Over, SameHistory

\* An event that is given to the child leaves the accounts as they are.
LEMMA GiveMoves ==
    ASSUME NEW f \in Seq(Events), NEW g \in Seq(Events), g # <<>>
    PROVE  /\ Tail(g) \in Seq(Events)
           /\ Entries(Append(f, Head(g))) \cup Entries(Tail(g)) = Entries(f) \cup Entries(g)
<1>1. /\ Append(f, Head(g)) \o Tail(g) = f \o g /\ Tail(g) \in Seq(Events)
      /\ Head(g) \in Events /\ Append(f, Head(g)) \in Seq(Events)
  BY MoveHead
<1> DEFINE a == Append(f, Head(g))
           b == Tail(g)
<1>2. a \in Seq(Events) /\ b \in Seq(Events) /\ a \o b = f \o g
  BY <1>1
<1> HIDE DEF a, b
<1>3. Entries(a \o b) = Entries(a) \cup Entries(b)
  <2>1. \A y, z \in Seq(Events) : Entries(y \o z) = Entries(y) \cup Entries(z)
    BY EntriesConcat
  <2>. QED  BY <1>2, <2>1, Zenon
<1>4. Entries(f \o g) = Entries(f) \cup Entries(g)
  BY EntriesConcat
<1>. QED  BY <1>2, <1>3, <1>4 DEF a, b

\* Only a reply of the layer's own starts the loop over its queue.
LEMMA HandleDrains ==
    ASSUME NEW t \in TlsRec, ~t.draining, NEW r \in Raws, NEW u \in Handle(t, r)
    PROVE  ~u.draining
<1>1. r.load \in Seq(Events) /\ StartEvent \in Events /\ Close \in Events
  BY RawLoad, KindAssumption, CloseIs
<1>2. \A p \in TlsRec, s \in Seq(Events) :
        /\ ToChild(p, s) \in TlsRec /\ ToChild(p, s).draining = p.draining
        /\ Decrypt(p, s).draining = p.draining
  BY ToChildIs, DecryptIs DEF SameTunnel
<1>3. \A p \in TlsRec : ~p.draining => ~Fail(p).draining
  BY PauseIs DEF Fail
<1>4. CASE r.kind = "start"
  <2> DEFINE p == IF t.late THEN t ELSE [t EXCEPT !.tunnel = "establishing"]
             one == <<StartEvent>>
  <2>1. p \in TlsRec /\ p.draining = t.draining
    <3> HIDE DEF one
    <3>1. CASE t.late
      BY <3>1
    <3>2. CASE ~t.late
      BY <3>2 DEF TlsRec
    <3>. QED  BY <3>1, <3>2
  <2>3. one \in Seq(Events)
    BY <1>1
  <2>2. u = ToChild(p, one)
    BY <1>4 DEF Handle, Start
  <2> HIDE DEF p, one
  <2>. QED  BY <1>2, <2>1, <2>2, <2>3
<1>5. CASE r.kind = "closed"
  <2> DEFINE one == <<Close>>
             told == IF t.tunnel = "open" /\ ~t.notified THEN ToChild(t, one) ELSE t
  <2>1. u = Fail(t) \/ u = [told EXCEPT !.tunnel = "closed"]
    BY <1>5 DEF Handle, ReceiveClose, Close
  <2>2. one \in Seq(Events)
    BY <1>1
  <2> HIDE DEF one
  <2>3. told \in TlsRec /\ told.draining = t.draining
    BY <1>2, <2>2
  <2> HIDE DEF told
  <2>. QED  BY <1>3, <2>1, <2>3 DEF TlsRec
<1>6. CASE r.kind = "other"
  <2>1. u = ToChild(t, r.load)
    BY <1>6 DEF Handle
  <2>. QED  BY <1>1, <1>2, <2>1
<1>7. CASE r.kind \notin {"start", "closed", "other"} /\ t.tunnel = "establishing"
  <2>1. u \in ReceiveHandshake(t, r)
    BY <1>7 DEF Handle
  <2> DEFINE p == [t EXCEPT !.parsed = TRUE]
             q == [t EXCEPT !.early = r.load]
  <2>2. p \in TlsRec /\ q \in TlsRec /\ ~p.draining /\ ~q.draining
    BY <1>1 DEF TlsRec
  <2>3. u = Fail(t) \/ u = Pause(p, "clienthello") \/ u = Pause(q, "tls_established")
    BY <2>1 DEF ReceiveHandshake
  <2> HIDE DEF p, q
  <2>. QED  BY <1>3, <2>2, <2>3, PauseIs
<1>8. CASE r.kind \notin {"start", "closed", "other"} /\ t.tunnel # "establishing"
  <2>1. u = Decrypt(t, r.load) \/ u = [t EXCEPT !.draining = FALSE]
    BY <1>8 DEF Handle, Receive, Raised
  <2>. QED  BY <1>1, <1>2, <2>1 DEF TlsRec
<1>. QED  BY <1>4, <1>5, <1>6, <1>7, <1>8

LEMMA ArriveDrains ==
    ASSUME tls \in TlsRec, History(tls), NEW kind \in Kinds, Arrive(kind)
    PROVE  ~tls'.draining
<1>1. PICK load \in LoadsOf(kind) :
        Deliver([kind |-> kind, load |-> load],
                [tls EXCEPT !.seen = @ \cup {kind}, !.sent = @ \o load,
                            !.connected = @ /\ kind # "closed"])
  BY DEF Arrive
<1> DEFINE r == [kind |-> kind, load |-> load]
           t == [tls EXCEPT !.seen = @ \cup {kind}, !.sent = @ \o load,
                            !.connected = @ /\ kind # "closed"]
<1>2. r \in Raws /\ t \in TlsRec
  BY Arrival DEF Arrive
<1>3. ~t.draining
  BY DEF Arrive, Quiet, TlsRec
<1>4. tls' \in Handle(t, r) \/ tls' = [t EXCEPT !.waiting = Append(t.waiting, r)]
  BY <1>1 DEF Deliver
<1> HIDE DEF t, r
<1>. QED  BY <1>2, <1>3, <1>4, HandleDrains DEF TlsRec

\* After an exception the layer goes on passing on what arrives.
LEMMA TornArrive ==
    ASSUME tls \in TlsRec, fed \in Seq(Events), NEW x, Torn(tls, fed, x),
           NEW kind \in Kinds, Arrive(kind)
    PROVE  tls' \in TlsRec /\ tls'.used = tls.used /\ Torn(tls', fed, x)
<1>1. PICK load \in LoadsOf(kind) :
        Deliver([kind |-> kind, load |-> load],
                [tls EXCEPT !.seen = @ \cup {kind}, !.sent = @ \o load,
                            !.connected = @ /\ kind # "closed"])
  BY DEF Arrive
<1> DEFINE r == [kind |-> kind, load |-> load]
           t == [tls EXCEPT !.seen = @ \cup {kind}, !.sent = @ \o load,
                            !.connected = @ /\ kind # "closed"]
<1>2. MaySend(kind) /\ kind # "start"
  BY DEF Arrive, MaySend, Torn
<1>3. /\ r \in Raws /\ Loaded(r) /\ t \in TlsRec /\ History(t) /\ load \in Seq(Events)
      /\ kind = "other" => Close \notin Entries(load)
  <2>1. /\ r \in Raws /\ Loaded(r) /\ t \in TlsRec /\ History(t)
    BY <1>2, Arrival DEF Torn
  <2>. QED  BY <2>1, RawLoad DEF Loaded
<1>4. /\ t.used = tls.used /\ t.late = tls.late /\ t.seen # {} /\ t.sent = tls.sent \o load
      /\ t.waiting = <<>> /\ ~t.errored /\ t.tunnel = tls.tunnel
      /\ t.at = "none" /\ t.give = tls.give /\ t.kept = <<>> /\ t.early = <<>>
      /\ t.notified = tls.notified /\ t.engine = tls.engine /\ ~t.draining
      /\ tls.give \in Seq(Events) /\ tls.sent \in Seq(Events) /\ t.notified \in BOOLEAN
  BY DEF TlsRec, Torn
<1>5. tls' \in Handle(t, r)
  BY <1>1, <1>4 DEF Deliver
<1>6. Entries(t.sent) = Entries(tls.sent) \cup Entries(load)
  BY <1>3, <1>4, EntriesConcat
<1>7. r.kind = kind /\ r.load = load
  OBVIOUS
<1> HIDE DEF t, r
\* In every case: what the event held is passed on, or, of a close, had been before.
<1>8. ASSUME NEW u \in TlsRec, SameHistory(u, t), NEW g \in Seq(Events),
             ~u.errored, u.at = "none", ~u.draining, u.kept = <<>>, u.early = <<>>,
             u.engine = t.engine, u.give = t.give \o g,
             u.tunnel = t.tunnel \/ u.tunnel = "closed",
             ~t.late => Entries(load) \subseteq Entries(fed) \cup Entries(u.give) \cup x,
             ~t.late /\ (u.notified \/ u.tunnel = "closed") =>
               Close \in Entries(fed) \cup Entries(u.give) \cup x
      PROVE  u.used = tls.used /\ Torn(u, fed, x)
  <2>1. Entries(u.give) = Entries(t.give) \cup Entries(g)
    BY <1>4, <1>8, EntriesConcat
  <2>2. ~t.late => Entries(u.sent) \subseteq Entries(fed) \cup Entries(u.give) \cup x
    BY <1>4, <1>6, <1>8, <2>1 DEF Torn, SameHistory
  <2>3. u.used = t.used /\ u.late = t.late /\ u.seen = t.seen /\ u.sent = t.sent
        /\ u.waiting = t.waiting
    BY <1>8 DEF SameHistory
  <2>4. History(u)
    BY <1>3, <2>3 DEF History
  <2>5. t.tunnel \in (IF t.late THEN {"inactive", "closed"} ELSE {"open", "closed"})
        /\ t.engine = ~t.late
    BY <1>4 DEF Torn, TlsRec
  <2>. QED  BY <1>4, <1>8, <2>2, <2>3, <2>4, <2>5 DEF Torn
<1>9. t.tunnel # "establishing" /\ t.engine = ~t.late /\ t.late \in BOOLEAN
      /\ (~t.late => t.tunnel \in {"open", "closed"}) /\ (t.late => t.tunnel # "open")
  BY <1>3, <1>4 DEF Torn, TlsRec
<1>10. <<>> \in Seq(Events) /\ t.give \o <<>> = t.give /\ Entries(<<>>) = {}
  BY <1>4, ConcatEmptySeq, EmptySeq, EntriesSmall
<1>11. ~t.late /\ (t.notified \/ t.tunnel = "closed") =>
         Close \in Entries(fed) \cup Entries(t.give) \cup x
  BY <1>4 DEF Torn
<1>12. CASE kind = "other"
  <2>1. tls' = ToChild(t, load)
    BY <1>5, <1>7, <1>12 DEF Handle
  <2>2. /\ tls' \in TlsRec /\ SameHistory(tls', t) /\ SameTunnel(tls', t)
        /\ tls'.notified = t.notified /\ tls'.give = t.give \o load /\ tls'.kept = t.kept
    BY <1>3, <1>4, <1>9, <2>1, ToChildIs
  <2>3. Entries(tls'.give) = Entries(t.give) \cup Entries(load)
    BY <1>3, <1>4, <2>2, EntriesConcat
  <2>. QED  BY <1>3, <1>4, <1>8, <1>11, <2>2, <2>3 DEF SameTunnel
<1>13. CASE kind \in Bytes /\ t.engine
  <2>1. tls' = Decrypt(t, load)
    BY <1>5, <1>7, <1>9, <1>13 DEF Handle, Receive, Bytes
  <2>2. /\ tls' \in TlsRec /\ SameHistory(tls', t) /\ SameTunnel(tls', t)
        /\ tls'.notified = (t.notified \/ Close \in Entries(load))
        /\ tls'.give = t.give \o load /\ tls'.kept = t.kept
    BY <1>3, <1>4, <1>9, <2>1, DecryptIs
  <2>3. Entries(tls'.give) = Entries(t.give) \cup Entries(load)
    BY <1>3, <1>4, <2>2, EntriesConcat
  <2>. QED  BY <1>3, <1>4, <1>8, <1>11, <2>2, <2>3 DEF SameTunnel
<1>14. CASE kind \in Bytes /\ ~t.engine
  <2>1. tls' = [t EXCEPT !.draining = FALSE]
    BY <1>5, <1>7, <1>9, <1>14 DEF Handle, Receive, Raised, Bytes
  <2>2. tls' \in TlsRec /\ SameHistory(tls', t) /\ SameTunnel(tls', t)
        /\ tls'.give = t.give /\ tls'.kept = t.kept
    BY <1>3, <1>4, <2>1 DEF TlsRec, SameHistory, SameTunnel
  <2>. QED  BY <1>4, <1>8, <1>9, <1>10, <1>14, <2>2 DEF SameTunnel
<1>15. CASE kind = "closed"
  <2> DEFINE told == IF t.tunnel = "open" /\ ~t.notified THEN ToChild(t, <<Close>>) ELSE t
             g == IF t.tunnel = "open" /\ ~t.notified THEN <<Close>> ELSE <<>>
  <2>1. tls' = [told EXCEPT !.tunnel = "closed"]
    BY <1>5, <1>7, <1>9, <1>15 DEF Handle, ReceiveClose, Close
  <2>2. g \in Seq(Events) /\ Entries(g) = IF t.tunnel = "open" /\ ~t.notified THEN {Close} ELSE {}
    <3>1. /\ <<Close>> \in Seq(Events) /\ <<>> \in Seq(Events)
          /\ Entries(<<Close>>) = {Close} /\ Entries(<<>>) = {}
      BY CloseIs, EntriesSmall, EmptySeq
    <3>2. CASE t.tunnel = "open" /\ ~t.notified
      <4>1. g = <<Close>>
        BY <3>2
      <4> HIDE DEF g
      <4>. QED  BY <3>1, <3>2, <4>1
    <3>3. CASE ~(t.tunnel = "open" /\ ~t.notified)
      <4>1. g = <<>>
        BY <3>3
      <4> HIDE DEF g
      <4>. QED  BY <3>1, <3>3, <4>1
    <3>. QED  BY <3>2, <3>3
  <2>3. /\ told \in TlsRec /\ SameHistory(told, t) /\ SameTunnel(told, t)
        /\ told.kept = t.kept /\ told.notified = t.notified /\ told.give = t.give \o g
    <3>1. CASE t.tunnel = "open" /\ ~t.notified
      <4>1. told = ToChild(t, g)
        BY <3>1
      <4> HIDE DEF told, g
      <4>. QED  BY <1>3, <1>4, <2>2, <3>1, <4>1, ToChildIs
    <3>2. CASE ~(t.tunnel = "open" /\ ~t.notified)
      BY <1>3, <1>10, <3>2 DEF SameHistory, SameTunnel
    <3>. QED  BY <3>1, <3>2
  <2> HIDE DEF told, g
  <2>4. /\ tls' \in TlsRec /\ SameHistory(tls', t) /\ tls'.tunnel = "closed"
        /\ tls'.kept = <<>> /\ tls'.early = <<>> /\ tls'.give = t.give \o g
        /\ ~tls'.errored /\ tls'.at = "none" /\ ~tls'.draining /\ tls'.engine = t.engine
    BY <1>4, <2>1, <2>3 DEF TlsRec, SameHistory, SameTunnel
  <2>5. Entries(tls'.give) = Entries(t.give) \cup Entries(g)
    BY <1>4, <2>2, <2>4, EntriesConcat
  <2>6. ~t.late => Close \in Entries(fed) \cup Entries(tls'.give) \cup x
    BY <1>4, <1>9, <1>11, <2>2, <2>5
  <2>7. Entries(load) \subseteq {Close}
    BY <1>3, <1>7, <1>15, EntriesSmall DEF Loaded
  <2>. QED  BY <1>8, <2>2, <2>4, <2>6, <2>7
<1>. QED  BY <1>2, <1>12, <1>13, <1>14, <1>15 DEF Kinds, Bytes

LEMMA TornGive ==
    ASSUME tls \in TlsRec, fed \in Seq(Events), NEW x, Torn(tls, fed, x), GiveNext
    PROVE  tls' \in TlsRec /\ tls'.used = tls.used /\ Torn(tls', fed', x)
<1>1. /\ tls.give # <<>> /\ tls' = [tls EXCEPT !.give = Tail(@)]
      /\ fed' = Append(fed, Head(tls.give)) /\ tls.give \in Seq(Events)
  BY DEF GiveNext, Inner!Feed, Inner!FeedKeep, Inner!FeedPaused, Inner!FeedChild, TlsRec
<1> DEFINE tail == Tail(tls.give)
<1>2. /\ tail \in Seq(Events)
      /\ Entries(fed') \cup Entries(tail) = Entries(fed) \cup Entries(tls.give)
  BY <1>1, GiveMoves
<1>3. tls' = [tls EXCEPT !.give = tail]
  BY <1>1
<1> HIDE DEF tail
<1>4. /\ tls' \in TlsRec /\ SameHistory(tls', tls) /\ SameTunnel(tls', tls)
      /\ tls'.give = tail /\ tls'.kept = tls.kept /\ tls'.notified = tls.notified
  BY <1>2, <1>3 DEF TlsRec, SameHistory, SameTunnel
<1>. QED  BY <1>2, <1>4 DEF Torn, History, SameHistory, SameTunnel

\* Both layers.
StackIInv == NextLayerInv /\ KeptCloses /\ StackInv

\* While the child runs the TLS layer has opened the tunnel, or found its client gone, and
\* keeps nothing: all that an exception can leave behind here is what it is passing on.
LEMMA RaiseStack ==
    ASSUME StackIInv, ChildRaises
    PROVE  StackInv'
<1> DEFINE t == tls
<1>1. /\ Inner!Child!Raise /\ stranded' = (stranded \cup Inner!LeftBehind) \cup LeftBehind
      /\ UNCHANGED <<fed, chosen>>
      /\ tls' = [t EXCEPT !.give = <<>>, !.draining = FALSE]
  BY DEF ChildRaises, Inner!ChildRaises
<1>2. t \in TlsRec /\ NextLayerInv /\ fed \in Seq(Events) /\ t.give \in Seq(Events)
  BY DEF StackIInv, StackInv, NextLayerInv, Inner!TypeOK, TlsRec
<1>3. chosen /\ ~t.draining /\ fed # <<>>
  <2>1. mode # "idle"
    BY <1>1 DEF Inner!Child!Raise
  <2>. QED  BY <1>2, <2>1 DEF StackIInv, StackInv, NextLayerInv, Places
<1>4. LeftBehind = Entries(t.give)
  BY <1>3, ElemsIs DEF LeftBehind
<1>5. /\ tls' \in TlsRec /\ SameHistory(tls', t) /\ SameTunnel(tls', t) /\ ~tls'.draining
      /\ tls'.give = <<>> /\ tls'.kept = t.kept /\ tls'.notified = t.notified
  <2>1. <<>> \in Seq(Events) /\ t.draining = FALSE
    BY <1>2, <1>3, EmptySeq DEF TlsRec
  <2>. QED  BY <1>1, <1>2, <2>1 DEF TlsRec, SameHistory, SameTunnel
<1>6. CASE ~t.used
  BY <1>5, <1>6 DEF StackInv, StackIInv, Unused, SameHistory, SameTunnel
<1>7. CASE t.used /\ stranded' = {}
  <2>1. stranded = {} /\ t.give = <<>>
    BY <1>1, <1>2, <1>4, <1>7, NonEmpty
  <2>2. t.draining = FALSE
    BY <1>2, <1>3 DEF TlsRec
  <2>3. tls' = t
    BY <1>1, <1>2, <2>1, <2>2 DEF TlsRec
  <2>4. TlsInv(t, fed)
    BY <1>7, <2>1 DEF StackIInv, StackInv
  <2>. QED  BY <1>1, <1>2, <1>3, <1>7, <2>3, <2>4 DEF StackInv
<1>8. CASE t.used /\ stranded' # {} /\ stranded = {}
  <2>1. TlsInv(t, fed)
    BY <1>8 DEF StackIInv, StackInv
  <2>2. Opened(t, fed, t.waiting) \/ Absent(t, fed)
    BY <1>3, <2>1 DEF TlsInv, Unstarted, Shaking, Over
  <2>3. Torn(tls', fed, stranded')
    <3>1. CASE Opened(t, fed, t.waiting)
      <4>1. t.waiting = <<>>
        BY <1>3, <2>1, <3>1 DEF TlsInv, Drains, Opened
      <4>2. Entries(t.sent) = Entries(fed) \cup Entries(t.give)
            /\ Entries(fed \o t.give) = Entries(fed) \cup Entries(t.give)
        <5>1. (fed \o t.give) \o <<>> = t.sent
          BY <3>1, <4>1, ContentsEmpty DEF Opened
        <5>2. fed \o t.give \in Seq(Events)
          BY <1>2
        <5> DEFINE g == t.give
        <5>3. Entries(fed \o g) = Entries(fed) \cup Entries(g)
          <6>1. g \in Seq(Events)
            BY <1>2
          <6> HIDE DEF g
          <6>. QED  BY <1>2, <6>1, EntriesConcat
        <5>4. fed \o g = t.sent
          <6> DEFINE z == fed \o g
          <6>1. z \in Seq(Events) /\ z \o <<>> = t.sent
            BY <5>1, <5>2
          <6> HIDE DEF z
          <6>2. z \o <<>> = z
            BY <6>1, ConcatEmptySeq
          <6>. QED  BY <6>1, <6>2 DEF z
        <5>. QED  BY <5>3, <5>4
      <4>3. ~t.late /\ ~tls'.late
        BY <1>5, <3>1 DEF Opened, SameHistory
      <4>4. Entries(tls'.sent) \subseteq Entries(fed) \cup Entries(tls'.give) \cup stranded'
        BY <1>1, <1>4, <1>5, <4>2 DEF SameHistory
      <4>5. tls'.notified \/ tls'.tunnel = "closed" =>
              Close \in Entries(fed) \cup Entries(tls'.give) \cup stranded'
        BY <1>1, <1>4, <1>5, <3>1, <4>2 DEF Opened, SameTunnel
      <4>6. History(tls') /\ tls'.seen # {} /\ ~tls'.errored /\ tls'.at = "none"
            /\ tls'.kept = <<>> /\ tls'.early = <<>> /\ tls'.waiting = <<>>
            /\ tls'.engine /\ tls'.tunnel \in {"open", "closed"}
        BY <1>5, <2>1, <3>1, <4>1 DEF TlsInv, History, Opened, SameHistory, SameTunnel
      <4>. QED  BY <1>5, <4>3, <4>4, <4>5, <4>6 DEF Torn
    <3>2. CASE Absent(t, fed)
      <4>1. t.seen # {}
        <5>1. ASSUME t.sent = <<>> PROVE FALSE
          <6>1. fed \o t.give = <<>>
            BY <3>2, <5>1, FlattenEmpty DEF Absent, WithoutClose
          <6>2. Entries(fed) \cup Entries(t.give) = {}
            BY <1>2, <6>1, EntriesConcat, EntriesSmall
          <6>. QED  BY <1>2, <1>3, <6>2, NonEmpty
        <5>. QED  BY <2>1, <5>1 DEF TlsInv, History
      <4>. QED  BY <1>5, <2>1, <3>2, <4>1 DEF TlsInv, History, Absent, Torn, SameHistory, SameTunnel
    <3>. QED  BY <2>2, <3>1, <3>2
  <2>. QED  BY <1>1, <1>5, <1>8, <2>3 DEF StackInv, SameHistory
<1>9. CASE t.used /\ stranded # {}
  <2>1. Torn(t, fed, stranded)
    BY <1>9 DEF StackIInv, StackInv
  <2>2. Entries(tls'.give) = {} /\ stranded \cup Entries(t.give) \subseteq stranded'
    BY <1>1, <1>4, <1>5, EntriesSmall
  <2>3. Torn(tls', fed, stranded')
    BY <1>5, <2>1, <2>2 DEF Torn, History, SameHistory, SameTunnel
  <2>. QED  BY <1>1, <1>5, <1>9, <2>3 DEF StackInv, SameHistory
<1>. QED  BY <1>6, <1>7, <1>8, <1>9 DEF TlsRec

\* To NextLayer a TLS layer in front makes no difference.
LEMMA InnerSteps ==
    ASSUME tls \in TlsRec, [Next]_vars
    PROVE  [Inner!Next]_(Inner!vars)
<1>1. UNCHANGED innerVars => UNCHANGED Inner!vars
  BY DEF innerVars, ownVars, Inner!vars, Inner!ownVars, Inner!childVars
<1>2. CASE \/ \E kind \in Kinds : Arrive(kind)
           \/ TlsHookDone \/ DrainWaiting \/ UNCHANGED vars
  BY <1>1, <1>2 DEF Arrive, TlsHookDone, DrainWaiting, vars
<1>3. CASE GiveNext
  <2>1. Inner!Feed(Head(tls.give)) /\ Head(tls.give) \in Events
    BY <1>3 DEF GiveNext, TlsRec
  <2>. QED  BY <2>1 DEF Inner!Next
<1>4. CASE ChildRaises
  <2>1. tls.give \in Seq(Events) /\ tls.waiting \in Seq(Raws) /\ <<>> \in Seq(Events)
    BY EmptySeq DEF TlsRec
  <2>2. [kind |-> "other", load |-> <<>>] \in Raws
    BY <2>1 DEF Raws, Kinds
  <2>3. Contents(tls.waiting) \in Seq(Events)
    BY <2>1, <2>2, ContentsAppend
  <2>4. LeftBehind \in SUBSET Events
    BY <2>1, <2>3 DEF LeftBehind, Elems
  <2>. QED  BY <1>4, <2>4 DEF ChildRaises, Inner!Next, Inner!Works
<1>5. CASE ChildWorks /\ ~ChildRaises
  BY <1>5 DEF ChildWorks, Inner!Next, Inner!Works
<1>6. CASE Plain
  BY <1>6 DEF Plain, Inner!Next
<1>. QED  BY <1>2, <1>3, <1>4, <1>5, <1>6 DEF Next

LEMMA InitStack == Init => StackIInv
<1> SUFFICES ASSUME Init PROVE StackIInv
  OBVIOUS
<1>1. NextLayerInv /\ KeptCloses
  BY InitNextLayer DEF Init, Inner!Init, KeptCloses
<1>2. PICK used, late, connected \in BOOLEAN :
         tls = [used |-> used, late |-> late, connected |-> connected,
                tunnel |-> "inactive", parsed |-> FALSE, engine |-> FALSE,
                at |-> "none", early |-> <<>>, kept |-> <<>>, waiting |-> <<>>,
                draining |-> FALSE, give |-> <<>>, notified |-> FALSE,
                errored |-> FALSE, hung |-> FALSE, seen |-> {}, sent |-> <<>>]
  BY DEF Init
<1>3. tls \in TlsRec
  BY <1>2, EmptySeq DEF TlsRec
<1>4. fed = <<>>
  BY DEF Init, Inner!Init
<1>5. Unused(tls)
  BY <1>2 DEF Unused
<1>6. TlsInv(tls, fed)
  <2>1. History(tls) /\ Drains(tls)
    BY <1>2 DEF History, Drains, Distinct
  <2>2. CASE late
    <3>1. WithoutClose(<<>>) = <<>>
      BY FlattenEmpty DEF WithoutClose
    <3>2. <<>> \o <<>> = <<>>
      BY EmptySeq, ConcatEmptySeq
    <3>. QED  BY <1>2, <1>4, <2>1, <2>2, <3>1, <3>2 DEF TlsInv, Absent
  <2>3. CASE ~late
    BY <1>2, <1>4, <2>1, <2>3 DEF TlsInv, Unstarted
  <2>. QED  BY <2>2, <2>3
<1>7. stranded = {} /\ ~tls.draining
  BY <1>2 DEF Init, Inner!Init
<1>. QED  BY <1>1, <1>3, <1>5, <1>6, <1>7 DEF StackIInv, StackInv

\* A step of the TLS layer by itself, from a state that no exception has torn or from one
\* that some exception has.
LEMMA OwnStep ==
    ASSUME StackIInv, stranded' = stranded, tls' \in TlsRec, tls'.used, tls.used,
           tls'.draining => ~chosen',
           TlsInv(tls, fed) => TlsInv(tls', fed'),
           Torn(tls, fed, stranded) => Torn(tls', fed', stranded)
    PROVE  StackInv'
BY DEF StackIInv, StackInv

LEMMA NextStack == StackIInv /\ [Next]_vars => StackIInv'
<1> SUFFICES ASSUME StackIInv, [Next]_vars PROVE StackIInv'
  OBVIOUS
<1>1. /\ tls \in TlsRec /\ (tls.draining => ~chosen) /\ (~tls.used => Unused(tls))
      /\ tls.used => TlsInv(tls, fed) \/ Torn(tls, fed, stranded)
  BY DEF StackIInv, StackInv
<1>2. fed \in Seq(Events)
  BY DEF StackIInv, NextLayerInv, Inner!TypeOK
<1>3. NextLayerInv' /\ KeptCloses'
  BY <1>1, InnerSteps, NextNextLayer, KeptClosesStep DEF StackIInv
<1>4. UNCHANGED innerVars => fed' = fed /\ stranded' = stranded /\ chosen' = chosen
  BY DEF innerVars, ownVars
<1>5. ASSUME NEW kind \in Kinds, Arrive(kind) PROVE StackInv'
  <2>1. tls.used /\ ~tls.draining /\ fed' = fed /\ stranded' = stranded /\ chosen' = chosen
    BY <1>4, <1>5 DEF Arrive, Quiet
  <2>2. ASSUME TlsInv(tls, fed)
        PROVE  tls' \in TlsRec /\ tls'.used = tls.used /\ TlsInv(tls', fed)
    BY <1>1, <1>2, <1>5, <2>1, <2>2, StartStep, ArriveStep
  <2>3. ASSUME Torn(tls, fed, stranded)
        PROVE  tls' \in TlsRec /\ tls'.used = tls.used /\ Torn(tls', fed, stranded)
    BY <1>1, <1>2, <1>5, <2>3, TornArrive
  <2>4. ~tls'.draining
    BY <1>1, <1>5, <2>1, ArriveDrains DEF TlsInv, Torn
  <2>. QED  BY <1>1, <2>1, <2>2, <2>3, <2>4, OwnStep
<1>6. CASE TlsHookDone
  <2>1. tls.used /\ fed' = fed /\ stranded' = stranded /\ chosen' = chosen /\ tls.at # "none"
    BY <1>1, <1>4, <1>6 DEF TlsHookDone, Unused
  <2>2. TlsInv(tls, fed) /\ ~Torn(tls, fed, stranded)
    BY <1>1, <2>1 DEF Torn
  <2>3. tls' \in TlsRec /\ tls'.used = tls.used /\ TlsInv(tls', fed)
    BY <1>1, <1>6, <2>2, TlsHookStep
  <2>4. ~chosen
    <3>1. fed = <<>>
      BY <2>1, <2>2 DEF TlsInv, Unstarted, Shaking, Opened, Over, Absent
    <3>. QED  BY <3>1 DEF StackIInv, NextLayerInv, Places
  <2>. QED  BY <1>3, <2>1, <2>2, <2>3, <2>4, OwnStep DEF StackIInv
<1>7. CASE GiveNext
  <2>1. tls.used
    BY <1>1, <1>7 DEF GiveNext, Unused
  <2>2. stranded' = stranded /\ chosen' = chosen /\ tls'.draining = tls.draining
    BY <1>1, <1>7 DEF GiveNext, Inner!Feed, Inner!FeedKeep, Inner!FeedPaused, Inner!FeedChild,
                      Inner!Keep, TlsRec
  <2>3. ASSUME TlsInv(tls, fed)
        PROVE  tls' \in TlsRec /\ tls'.used = tls.used /\ TlsInv(tls', fed')
    BY <1>1, <1>2, <1>7, <2>3, GiveStep
  <2>4. ASSUME Torn(tls, fed, stranded)
        PROVE  tls' \in TlsRec /\ tls'.used = tls.used /\ Torn(tls', fed', stranded)
    BY <1>1, <1>2, <1>7, <2>4, TornGive
  <2>. QED  BY <1>1, <1>3, <2>1, <2>2, <2>3, <2>4, OwnStep DEF StackIInv
<1>8. CASE DrainWaiting
  <2>1. tls.used /\ tls.draining /\ fed' = fed /\ stranded' = stranded /\ chosen' = chosen
    BY <1>1, <1>4, <1>8 DEF DrainWaiting, Unused
  <2>2. TlsInv(tls, fed) /\ ~Torn(tls, fed, stranded)
    BY <1>1, <2>1 DEF Torn
  <2>3. tls' \in TlsRec /\ tls'.used = tls.used /\ TlsInv(tls', fed)
    BY <1>1, <1>2, <1>8, <2>2, DrainStep
  <2>. QED  BY <1>1, <1>3, <2>1, <2>2, <2>3, OwnStep DEF StackIInv
<1>9. CASE ChildRaises
  BY <1>3, <1>9, RaiseStack DEF StackIInv
<1>10. CASE ChildWorks /\ ~ChildRaises
  <2>1. tls' = tls /\ fed' = fed /\ stranded' = stranded
    BY <1>10 DEF ChildWorks, Inner!Steps, Inner!ReplayKept, Inner!HandOver, Inner!DrainQueued,
                Inner!Drained, Inner!ChildRuns, Inner!HookCompleted, Inner!ChildCompleted,
                Inner!ownVars
  <2>2. tls.draining => ~chosen'
    <3>1. CASE Quiet
      BY <3>1 DEF Quiet
    <3>2. CASE Inner!Steps \/ Inner!ChildRuns
      <4>1. chosen' = chosen
        BY <3>2 DEF Inner!Steps, Inner!ReplayKept, Inner!HandOver, Inner!DrainQueued, Inner!Keep,
                    Inner!Drained, Inner!ChildRuns, Inner!ownVars
      <4>. QED  BY <1>1, <4>1
    <3>. QED  BY <1>10, <3>1, <3>2 DEF ChildWorks
  <2>. QED  BY <1>1, <1>3, <2>1, <2>2 DEF StackInv, StackIInv
<1>11. CASE Plain
  <2>1. tls' = tls /\ ~tls.used
    BY <1>11 DEF Plain
  <2>. QED  BY <1>1, <1>3, <2>1 DEF StackInv, StackIInv, Unused
<1>12. CASE UNCHANGED vars
  <2>1. tls' = tls /\ fed' = fed /\ stranded' = stranded /\ chosen' = chosen
    BY <1>4, <1>12 DEF vars
  <2>. QED  BY <1>1, <1>3, <2>1 DEF StackInv, StackIInv
<1>. QED  BY <1>3, <1>5, <1>6, <1>7, <1>8, <1>9, <1>10, <1>11, <1>12 DEF Next, StackIInv

\* What every reachable state of the two layers satisfies.
THEOREM StackInvariance == Spec => []StackIInv
BY InitStack, NextStack, PTL DEF Spec

\* Types of the TLS layer, of NextLayer and of the layer it has chosen.
THEOREM StackTypeCorrect == Spec => []TypeOK
<1>1. StackIInv => TypeOK
  BY DEF StackIInv, StackInv, NextLayerInv, TypeOK
<1>. QED  BY <1>1, StackInvariance, PTL

\* What the TLS layer does to its child is what NextLayer.tla says may be done to it: it is
\* fed events, one at a time, Start first and none twice, and between them left to itself,
\* also when its exceptions go on through the TLS layer.  So the theorems above hold behind
\* the TLS layer.
THEOREM StackImplementsNextLayer == Spec => Inner!Spec
<1>1. Init => Inner!Init
  BY DEF Init
<1>2. StackIInv /\ [Next]_vars => [Inner!Next]_(Inner!vars)
  BY InnerSteps DEF StackIInv, StackInv
<1>. QED  BY <1>1, <1>2, StackInvariance, PTL DEF Spec, Inner!Spec

\* The chosen layer behaves as Layer.tla says, whatever is in front of it, and may raise
\* where it says so; but events that an exception left behind it may be given again.
THEOREM ChosenUnderTlsIsALayer == Spec => Inner!ChosenIsLayer
BY StackImplementsNextLayer, ChosenIsALayer, PTL

------------------------------------------------------------------------------

\* Where everything that was sent is, in each stage.
LEMMA WhereItIs ==
    ASSUME tls \in TlsRec, fed \in Seq(Events), TlsInv(tls, fed)
    PROVE  /\ Failing => fed = <<>>
           /\ ~Failing /\ tls.late => fed \o tls.give = WithoutClose(tls.sent)
           /\ ~Failing /\ ~tls.late =>
                /\ fed \o Held = tls.sent
                /\ Entries(tls.sent) = Entries(fed) \cup Entries(Held)
<1> DEFINE C == Contents(tls.waiting)
<1>1. \A s \in Seq(Events) : <<>> \o s = s /\ s \o <<>> = s
  BY ConcatEmptySeq
<1>2. /\ tls.give \in Seq(Events) /\ tls.kept \in Seq(Events) /\ tls.early \in Seq(Events)
      /\ <<>> \in Seq(Events) /\ C \in Seq(Events) /\ Held \in Seq(Events)
      /\ Held = ((tls.give \o tls.kept) \o tls.early) \o C
  <2>1. [kind |-> "other", load |-> <<>>] \in Raws
    BY EmptySeq DEF Raws, Kinds
  <2>2. C \in Seq(Events)
    BY <2>1, ContentsAppend DEF TlsRec
  <2> HIDE DEF C
  <2>3. Held = ((tls.give \o tls.kept) \o tls.early) \o C
    BY DEF Held, C
  <2>4. tls.give \in Seq(Events) /\ tls.kept \in Seq(Events) /\ tls.early \in Seq(Events)
    BY DEF TlsRec
  <2>5. \A a, b, c, d \in Seq(Events) : ((a \o b) \o c) \o d \in Seq(Events)
    OBVIOUS
  <2>. QED  BY <2>2, <2>3, <2>4, <2>5, EmptySeq
<1> HIDE DEF C
<1>3. fed \o Held = tls.sent => Entries(tls.sent) = Entries(fed) \cup Entries(Held)
  <2> DEFINE h == Held
  <2>1. h \in Seq(Events)
    BY <1>2
  <2> HIDE DEF h
  <2>2. Entries(fed \o h) = Entries(fed) \cup Entries(h)
    BY <2>1, EntriesConcat
  <2>. QED  BY <2>2 DEF h
<1>4. CASE Unstarted(tls, fed)
  <2>1. C = <<>> /\ tls.sent = <<>>
    BY <1>4, ContentsEmpty DEF Unstarted, TlsInv, History, C
  <2>2. fed \o Held = tls.sent
    BY <1>1, <1>2, <1>4, <2>1 DEF Unstarted
  <2>. QED  BY <1>3, <1>4, <2>2 DEF Unstarted, Failing
<1>5. CASE Shaking(tls, fed, tls.waiting)
  <2>1. <<>> \o tls.kept = tls.kept /\ <<>> \o Held = Held
    BY <1>1, <1>2
  <2>2. ~Failing => fed \o Held = tls.sent
    BY <1>2, <1>5, <2>1 DEF Shaking, Failing, C
  <2>. QED  BY <1>3, <1>5, <2>2 DEF Shaking
<1>6. CASE Opened(tls, fed, tls.waiting)
  <2>1. Held = tls.give \o C
    BY <1>1, <1>2, <1>6 DEF Opened
  <2>2. fed \o (tls.give \o C) = (fed \o tls.give) \o C
    <3>1. tls.give \in Seq(Events) /\ C \in Seq(Events)
      BY <1>2
    <3>2. \A a, b, c \in Seq(Events) : (a \o b) \o c = a \o (b \o c)
      BY Associative
    <3>. QED  BY <3>1, <3>2, Zenon
  <2>3. fed \o Held = tls.sent
    BY <1>6, <2>1, <2>2 DEF Opened, C
  <2>. QED  BY <1>3, <1>6, <2>3 DEF Opened, Failing
<1>7. CASE Over(tls, fed)
  BY <1>7 DEF Over, Failing
<1>8. CASE Absent(tls, fed)
  BY <1>8 DEF Absent, Failing
<1>. QED  BY <1>4, <1>5, <1>6, <1>7, <1>8 DEF TlsInv

LEMMA TornHeld ==
    ASSUME tls \in TlsRec, Torn(tls, fed, stranded)
    PROVE  Held = tls.give
<1>1. tls.give \in Seq(Events) /\ tls.kept = <<>> /\ tls.early = <<>> /\ Contents(tls.waiting) = <<>>
  BY ContentsEmpty DEF TlsRec, Torn
<1>2. tls.give \o <<>> = tls.give
  BY <1>1, ConcatEmptySeq
<1>. QED  BY <1>1, <1>2 DEF Held

\* Whatever pauses, keeps, queues and replays there are between the client and the layer
\* that is chosen in the end, that layer gets what was sent, once and in order, and nothing
\* stays where nobody looks again.  An exception of the chosen layer may end the order; of
\* what was sent only that is not passed on which it left behind.
THEOREM ClientStreamHolds == Spec => []ClientStream
<1>1. StackIInv => ClientStream
  <2> SUFFICES ASSUME StackIInv PROVE ClientStream
    OBVIOUS
  <2>1. /\ tls \in TlsRec /\ fed \in Seq(Events)
        /\ tls.used /\ stranded = {} => TlsInv(tls, fed)
        /\ tls.used /\ stranded # {} => Torn(tls, fed, stranded)
    BY DEF StackIInv, StackInv, NextLayerInv, Inner!TypeOK
  <2>2. SentInOrder
    <3>1. Inner!HandedOver
      BY HandedOverIs DEF StackIInv
    <3>2. CASE tls.used /\ stranded = {}
      BY <2>1, <3>1, <3>2, WhereItIs, ElemsIs DEF SentInOrder
    <3>3. CASE tls.used /\ stranded # {}
      <4>1. Torn(tls, fed, stranded) /\ Held = tls.give
        BY <2>1, <3>3, TornHeld
      <4>. QED  BY <3>1, <3>3, <4>1, ElemsIs DEF SentInOrder, Failing, Torn
    <3>. QED  BY <3>1, <3>2, <3>3 DEF SentInOrder
  <2>3. NothingLeftBehind
    BY <2>1 DEF NothingLeftBehind, Quiet, TlsInv, Drains, Unstarted, Shaking, Opened, Over, Absent,
                Torn
  <2>. QED  BY <2>2, <2>3 DEF ClientStream
<1>. QED  BY <1>1, StackInvariance, PTL

\* The client's going away reaches the chosen layer or closes the connection, unless an
\* exception of the chosen layer has left this very close behind.
THEOREM ClientGoneNoticedHolds == Spec => []ClientGoneNoticed
<1>1. StackIInv => ClientGoneNoticed
  <2> SUFFICES ASSUME StackIInv, Quiet, ~asking, tls.at = "none", ~tls.late,
                      Close \in Entries(Sent), ~closing, ~tls.hung, Close \notin stranded
               PROVE  Close \in Entries(arrived)
    BY CloseIs, ElemsIs DEF ClientGoneNoticed
  <2>1. /\ tls \in TlsRec /\ fed \in Seq(Events) /\ NextLayerInv
        /\ tls.used /\ stranded = {} => TlsInv(tls, fed)
        /\ tls.used /\ stranded # {} => Torn(tls, fed, stranded)
    BY DEF StackIInv, StackInv, NextLayerInv, Inner!TypeOK
  <2>2. Close \in Entries(fed)
    <3>1. CASE ~tls.used
      BY <3>1 DEF Sent
    <3>2. CASE tls.used /\ stranded = {}
      <4>1. Close \in Entries(tls.sent) /\ TlsInv(tls, fed) /\ tls.give = <<>> /\ ~tls.draining
        BY <2>1, <3>2 DEF Sent, Quiet
      <4>2. CASE Unstarted(tls, fed)
        BY <4>1, <4>2, EntriesSmall DEF TlsInv, Unstarted, History
      <4>3. CASE Shaking(tls, fed, tls.waiting)
        <5>1. tls.waiting = <<>> /\ tls.early = <<>> /\ tls.kept \in Seq(Events)
              /\ Close \notin Entries(tls.kept)
              /\ (tls.kept \o tls.early) \o Contents(tls.waiting) = tls.sent
          BY <2>1, <4>1, <4>3 DEF TlsInv, Drains, Shaking, TlsRec
        <5>2. (tls.kept \o <<>>) \o <<>> = tls.kept
          BY <5>1, ConcatEmptySeq
        <5>. QED  BY <4>1, <5>1, <5>2, ContentsEmpty
      <4>4. CASE Opened(tls, fed, tls.waiting)
        <5>1. tls.waiting = <<>> /\ (fed \o tls.give) \o Contents(tls.waiting) = tls.sent
          BY <4>1, <4>4 DEF TlsInv, Drains, Opened
        <5>2. (fed \o <<>>) \o <<>> = fed
          BY <2>1, ConcatEmptySeq
        <5>. QED  BY <4>1, <5>1, <5>2, ContentsEmpty
      <4>5. CASE Over(tls, fed) \/ Absent(tls, fed)
        BY <4>5 DEF Over, Absent
      <4>. QED  BY <4>1, <4>2, <4>3, <4>4, <4>5 DEF TlsInv
    <3>3. CASE tls.used /\ stranded # {}
      <4>1. Torn(tls, fed, stranded) /\ Close \in Entries(tls.sent) /\ Entries(tls.give) = {}
        BY <2>1, <3>3, EntriesSmall DEF Sent, Quiet
      <4>. QED  BY <4>1 DEF Torn
    <3>. QED  BY <3>1, <3>2, <3>3
  <2>3. Entries(fed) = Entries(arrived) \cup Entries(events) \cup Entries(askingQueue)
    BY <2>1 DEF NextLayerInv, Whereabouts
  <2>4. Close \notin Entries(askingQueue)
    BY <2>1 DEF NextLayerInv, Places, Quiet, Inner!Idle
  <2>5. Close \notin Entries(events)
    BY CloseIs DEF StackIInv, KeptCloses, Entries
  <2>. QED  BY <2>2, <2>3, <2>4, <2>5
<1>. QED  BY <1>1, StackInvariance, PTL

==============================================================================
