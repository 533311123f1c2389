------------------------- MODULE ConsumerDispatchProofs -------------------------
(***************************************************************************)
(* Proofs about ConsumerDispatch: its type invariant, that messages keep   *)
(* their arrival order, and that synchronous receivers hold the reads      *)
(* back, for any partitions, any range of IO threads and any batch size.   *)
(***************************************************************************)
EXTENDS ConsumerDispatch, FiniteSetTheorems, SequenceTheorems, TLAPS

-------------------------------------------------------------------------------
(* The inductive invariant                                                 *)

\* The IO threads have nothing while receivers run on the coroutine, and only
\* a batch is split.
DeliveryInv ==
  /\ config.invoke = "coro" => ReceiversDone
  /\ config.invoke = "coro" \/ config.strategy = "roundrobin" => NothingToPost

\* Each IO thread has messages of its own partitions only.
MappedTo(k, s) == \A m \in MessagesIn(s) : MapPartitionToQueue(m) = k

PlacedInv == \A k \in IoThreads : MappedTo(k, parts[k]) /\ MappedTo(k, ioQueue[k])

\* The order of the messages of p in the stages that Stages(p) lists.
Orderly(p, r, q, s, b, d, n) ==
  /\ InOrder(p, r) /\ InOrder(p, q) /\ InOrder(p, s) /\ InOrder(p, b) /\ InOrder(p, d)
  /\ Ahead(p, r, q) /\ Ahead(p, r, s) /\ Ahead(p, r, b) /\ Ahead(p, r, d)
  /\ Ahead(p, q, s) /\ Ahead(p, q, b) /\ Ahead(p, q, d)
  /\ Ahead(p, s, b) /\ Ahead(p, s, d)
  /\ Ahead(p, b, d)
  /\ OffsetsOf(p, r) \union OffsetsOf(p, q) \union OffsetsOf(p, s)
       \union OffsetsOf(p, b) \union OffsetsOf(p, d) = 1 .. n

QueueOf(p) == MapPartitionToQueue([partition |-> p, offset |-> 1])

OrderOf(p) ==
  Orderly(p, received[p], ioQueue[QueueOf(p)], parts[QueueOf(p)], batch,
          reading.messages, position[p])

OrderInv == \A p \in Partitions : OrderOf(p)

\* A coroutine that waits for its receivers leaves nothing behind when it ends.
PressureInv ==
  config.exec = "sync" =>
    /\ coroutine \in {"none", "started", "reading"} => ReceiversDone
    /\ IsFiniteSet(Waiting) /\ Cardinality(Waiting) <= BatchSize

Inv == TypeOK /\ DeliveryInv /\ PlacedInv /\ OrderInv /\ PressureInv

-------------------------------------------------------------------------------
(* Offsets in a sequence that has grown or shrunk by a message             *)

LEMMA InSequence ==
  ASSUME NEW p, NEW s \in Seq(Message), NEW o
  PROVE  /\ o \in OffsetsOf(p, s) <=> \E i \in 1 .. Len(s) : s[i].partition = p /\ s[i].offset = o
         /\ Len(s) \in Nat /\ DOMAIN s = 1 .. Len(s)
         /\ \A i \in 1 .. Len(s) : s[i] \in Message
  BY LenProperties, ElementOfSeq DEF OffsetsOf

LEMMA AreNumbers ==
  ASSUME NEW p, NEW s \in Seq(Message)
  PROVE  OffsetsOf(p, s) \subseteq Nat
<1>1. \A m \in Message : m.offset \in Nat
  BY DispatchAssumption DEF Message
<1>2. ASSUME NEW o \in OffsetsOf(p, s) PROVE o \in Nat
  <2>1. PICK i \in 1 .. Len(s) : s[i].offset = o
    BY InSequence
  <2>2. s[i] \in Message
    BY <2>1, InSequence
  <2>3. QED
    BY <1>1, <2>1, <2>2
<1>3. QED
  BY <1>2

LEMMA NothingThere ==
  ASSUME NEW p
  PROVE  OffsetsOf(p, <<>>) = {} /\ InOrder(p, <<>>)
  BY DEF OffsetsOf, InOrder

LEMMA OneMore ==
  ASSUME NEW p, NEW s \in Seq(Message), NEW m \in Message
  PROVE  /\ OffsetsOf(p, Append(s, m))
              = OffsetsOf(p, s) \union {o \in {m.offset} : m.partition = p}
         /\ InOrder(p, s) /\ (m.partition = p => \A o \in OffsetsOf(p, s) : o < m.offset)
              => InOrder(p, Append(s, m))
<1> DEFINE t == Append(s, m)
<1>1. /\ t \in Seq(Message) /\ Len(t) = Len(s) + 1
      /\ \A i \in 1 .. Len(s) : t[i] = s[i]
      /\ t[Len(s) + 1] = m
      /\ Len(s) \in Nat
  BY AppendProperties, LenProperties
<1> HIDE DEF t
<1>2. \A i : i \in 1 .. Len(t) <=> i \in 1 .. Len(s) \/ i = Len(s) + 1
  BY <1>1
<1>3. OffsetsOf(p, t) = OffsetsOf(p, s) \union {o \in {m.offset} : m.partition = p}
  <2>1. ASSUME NEW o PROVE o \in OffsetsOf(p, t) <=> o \in OffsetsOf(p, s) \/ (o = m.offset /\ m.partition = p)
    <3>1. /\ o \in OffsetsOf(p, s) <=> \E i \in 1 .. Len(s) : s[i].partition = p /\ s[i].offset = o
          /\ o \in OffsetsOf(p, t) <=> \E i \in 1 .. Len(t) : t[i].partition = p /\ t[i].offset = o
      BY <1>1, InSequence
    <3>2. QED
      BY <1>1, <1>2, <3>1
  <2>2. QED
    BY <2>1, Zenon
<1>4. ASSUME InOrder(p, s), m.partition = p => \A o \in OffsetsOf(p, s) : o < m.offset
      PROVE  InOrder(p, t)
  <2>1. SUFFICES ASSUME NEW i \in 1 .. Len(t), NEW j \in 1 .. Len(t), i < j,
                        t[i].partition = p, t[j].partition = p
                 PROVE  t[i].offset < t[j].offset
    BY <1>1, InSequence DEF InOrder
  <2>2. i \in 1 .. Len(s)
    BY <1>1, <2>1
  <2>3. CASE j \in 1 .. Len(s)
    <3>1. t[i] = s[i] /\ t[j] = s[j]
      BY <1>1, <2>2, <2>3
    <3>2. QED
      BY <1>4, <2>1, <2>2, <2>3, <3>1, InSequence DEF InOrder
  <2>4. CASE j = Len(s) + 1
    <3>1. t[i] = s[i] /\ t[j] = m
      BY <1>1, <2>2, <2>4
    <3>2. t[i].offset \in OffsetsOf(p, s)
      BY <2>1, <2>2, <3>1, InSequence
    <3>3. QED
      BY <1>4, <2>1, <3>1, <3>2
  <2>5. QED
    BY <1>2, <2>3, <2>4
<1>5. QED
  BY <1>3, <1>4 DEF t

LEMMA OneLess ==
  ASSUME NEW p, NEW s \in Seq(Message), s # <<>>
  PROVE  /\ Head(s) \in Message /\ Tail(s) \in Seq(Message) /\ Len(Tail(s)) = Len(s) - 1
         /\ OffsetsOf(p, s)
              = OffsetsOf(p, Tail(s)) \union {o \in {Head(s).offset} : Head(s).partition = p}
         /\ InOrder(p, s) =>
              /\ InOrder(p, Tail(s))
              /\ Head(s).partition = p => \A o \in OffsetsOf(p, Tail(s)) : Head(s).offset < o
<1> DEFINE t == Tail(s)
           m == Head(s)
<1>1. /\ t \in Seq(Message) /\ Len(t) = Len(s) - 1
      /\ \A i \in 1 .. Len(t) : t[i] = s[i + 1]
      /\ m = s[1] /\ m \in Message
      /\ Len(s) \in Nat /\ Len(s) > 0
  BY HeadTailProperties, LenProperties, EmptySeq
<1> HIDE DEF t, m
<1>2. \A i : i \in 1 .. Len(s) <=> i = 1 \/ \E k \in 1 .. Len(t) : i = k + 1
  <2>1. ASSUME NEW i \in 1 .. Len(s), i # 1 PROVE i - 1 \in 1 .. Len(t) /\ i = (i - 1) + 1
    BY <1>1, <2>1
  <2>2. ASSUME NEW k \in 1 .. Len(t) PROVE k + 1 \in 1 .. Len(s)
    BY <1>1
  <2>3. 1 \in 1 .. Len(s)
    BY <1>1
  <2>4. QED
    BY <2>1, <2>2, <2>3
<1>3. OffsetsOf(p, s) = OffsetsOf(p, t) \union {o \in {m.offset} : m.partition = p}
  <2>1. ASSUME NEW o PROVE o \in OffsetsOf(p, s) <=> o \in OffsetsOf(p, t) \/ (o = m.offset /\ m.partition = p)
    <3>1. /\ o \in OffsetsOf(p, s) <=> \E i \in 1 .. Len(s) : s[i].partition = p /\ s[i].offset = o
          /\ o \in OffsetsOf(p, t) <=> \E i \in 1 .. Len(t) : t[i].partition = p /\ t[i].offset = o
      BY <1>1, InSequence
    <3>2. \A k \in 1 .. Len(t) : k + 1 \in 1 .. Len(s) /\ s[k + 1] = t[k]
      BY <1>1
    <3>3. ASSUME NEW i \in 1 .. Len(s) PROVE s[i] = m \/ \E k \in 1 .. Len(t) : s[i] = t[k]
      <4>1. CASE i = 1
        BY <1>1, <4>1
      <4>2. ASSUME NEW k \in 1 .. Len(t), i = k + 1 PROVE s[i] = t[k]
        BY <3>2, <4>2
      <4>3. QED
        BY <1>2, <4>1, <4>2
    <3>4. 1 \in 1 .. Len(s) /\ s[1] = m
      BY <1>1
    <3>5. QED
      BY <3>1, <3>2, <3>3, <3>4
  <2>2. QED
    BY <2>1, Zenon
<1>4. ASSUME InOrder(p, s)
      PROVE  /\ InOrder(p, t)
             /\ m.partition = p => \A o \in OffsetsOf(p, t) : m.offset < o
  <2>1. ASSUME NEW i \in 1 .. Len(t) PROVE 1 \in 1 .. Len(s) /\ i + 1 \in 1 .. Len(s) /\ 1 < i + 1
    BY <1>1
  <2>2. \A i, j \in 1 .. Len(s) :
          i < j /\ s[i].partition = p /\ s[j].partition = p => s[i].offset < s[j].offset
    BY <1>4, InSequence DEF InOrder
  <2>3. InOrder(p, t)
    <3>1. SUFFICES ASSUME NEW i \in 1 .. Len(t), NEW j \in 1 .. Len(t), i < j,
                          t[i].partition = p, t[j].partition = p
                   PROVE  t[i].offset < t[j].offset
      BY <1>1, InSequence DEF InOrder
    <3>2. i + 1 < j + 1
      BY <3>1
    <3>3. QED
      BY <1>1, <2>1, <2>2, <3>1, <3>2
  <2>4. ASSUME m.partition = p, NEW o \in OffsetsOf(p, t) PROVE m.offset < o
    <3>1. PICK i \in 1 .. Len(t) : t[i].partition = p /\ t[i].offset = o
      BY <1>1, InSequence
    <3>2. QED
      BY <1>1, <2>1, <2>2, <2>4, <3>1
  <2>5. QED
    BY <2>3, <2>4
<1>5. QED
  BY <1>1, <1>3, <1>4 DEF t, m

LEMMA PutTogether ==
  ASSUME NEW p, NEW s \in Seq(Message), NEW t \in Seq(Message)
  PROVE  /\ OffsetsOf(p, s \o t) = OffsetsOf(p, s) \union OffsetsOf(p, t)
         /\ InOrder(p, s) /\ InOrder(p, t) /\ Ahead(p, s, t) => InOrder(p, s \o t)
<1> DEFINE u == s \o t
<1>1. /\ u \in Seq(Message) /\ Len(u) = Len(s) + Len(t)
      /\ \A i \in 1 .. Len(s) + Len(t) : u[i] = IF i <= Len(s) THEN s[i] ELSE t[i - Len(s)]
      /\ Len(s) \in Nat /\ Len(t) \in Nat
  BY ConcatProperties, LenProperties
<1> HIDE DEF u
<1>2. /\ \A i \in 1 .. Len(s) : i \in 1 .. Len(u) /\ u[i] = s[i]
      /\ \A i \in 1 .. Len(t) : i + Len(s) \in 1 .. Len(u) /\ u[i + Len(s)] = t[i]
  <2>1. ASSUME NEW i \in 1 .. Len(s) PROVE i \in 1 .. Len(u) /\ u[i] = s[i]
    BY <1>1
  <2>2. ASSUME NEW i \in 1 .. Len(t) PROVE i + Len(s) \in 1 .. Len(u) /\ u[i + Len(s)] = t[i]
    <3>1. /\ i + Len(s) \in 1 .. Len(s) + Len(t) /\ ~(i + Len(s) <= Len(s))
          /\ (i + Len(s)) - Len(s) = i
      BY <1>1
    <3>2. QED
      BY <1>1, <3>1
  <2>3. QED
    BY <2>1, <2>2
<1>3. ASSUME NEW i \in 1 .. Len(u)
      PROVE  i \in 1 .. Len(s) \/ \E k \in 1 .. Len(t) : k = i - Len(s) /\ i = k + Len(s)
  <2>1. SUFFICES ASSUME i \notin 1 .. Len(s)
                 PROVE  i - Len(s) \in 1 .. Len(t) /\ i = (i - Len(s)) + Len(s)
    OBVIOUS
  <2>2. QED
    BY <1>1, <2>1
<1>4. OffsetsOf(p, u) = OffsetsOf(p, s) \union OffsetsOf(p, t)
  <2>1. ASSUME NEW o PROVE o \in OffsetsOf(p, u) <=> o \in OffsetsOf(p, s) \/ o \in OffsetsOf(p, t)
    <3>1. /\ o \in OffsetsOf(p, s) <=> \E i \in 1 .. Len(s) : s[i].partition = p /\ s[i].offset = o
          /\ o \in OffsetsOf(p, t) <=> \E i \in 1 .. Len(t) : t[i].partition = p /\ t[i].offset = o
          /\ o \in OffsetsOf(p, u) <=> \E i \in 1 .. Len(u) : u[i].partition = p /\ u[i].offset = o
      <4>1. u \in Seq(Message)
        BY <1>1
      <4>2. QED
        BY <4>1, InSequence
    <3>2. ASSUME NEW i \in 1 .. Len(u)
          PROVE  (\E k \in 1 .. Len(s) : u[i] = s[k]) \/ \E k \in 1 .. Len(t) : u[i] = t[k]
      BY <1>2, <1>3
    <3>3. ASSUME o \in OffsetsOf(p, u) PROVE o \in OffsetsOf(p, s) \/ o \in OffsetsOf(p, t)
      BY <3>1, <3>2, <3>3
    <3>4. ASSUME o \in OffsetsOf(p, s) PROVE o \in OffsetsOf(p, u)
      BY <1>2, <3>1, <3>4
    <3>5. ASSUME o \in OffsetsOf(p, t) PROVE o \in OffsetsOf(p, u)
      <4>1. PICK k \in 1 .. Len(t) : t[k].partition = p /\ t[k].offset = o
        BY <3>1, <3>5
      <4>2. k + Len(s) \in 1 .. Len(u) /\ u[k + Len(s)] = t[k]
        BY <1>2
      <4>3. QED
        BY <3>1, <4>1, <4>2
    <3>6. QED
      BY <3>3, <3>4, <3>5
  <2>2. QED
    BY <2>1, Zenon
<1>5. ASSUME InOrder(p, s), InOrder(p, t), Ahead(p, s, t) PROVE InOrder(p, u)
  <2>1. SUFFICES ASSUME NEW i \in 1 .. Len(u), NEW j \in 1 .. Len(u), i < j,
                        u[i].partition = p, u[j].partition = p
                 PROVE  u[i].offset < u[j].offset
    BY <1>1, InSequence DEF InOrder
  <2>2. CASE j \in 1 .. Len(s)
    <3>1. i \in 1 .. Len(s)
      BY <1>1, <2>1, <2>2
    <3>2. QED
      BY <1>2, <1>5, <2>1, <2>2, <3>1, InSequence DEF InOrder
  <2>3. CASE i \notin 1 .. Len(s)
    <3>1. i - Len(s) < j - Len(s) /\ j \notin 1 .. Len(s)
      BY <1>1, <2>1, <2>3
    <3>2. PICK k \in 1 .. Len(t) : k = i - Len(s) /\ i = k + Len(s)
      BY <1>3, <2>3
    <3>3. PICK l \in 1 .. Len(t) : l = j - Len(s) /\ j = l + Len(s)
      BY <1>3, <3>1
    <3>4. k < l /\ u[i] = t[k] /\ u[j] = t[l]
      BY <1>2, <3>1, <3>2, <3>3
    <3>5. QED
      BY <1>5, <2>1, <3>4, InSequence DEF InOrder
  <2>4. CASE i \in 1 .. Len(s) /\ j \notin 1 .. Len(s)
    <3>1. u[i].offset \in OffsetsOf(p, s)
      BY <1>2, <2>1, <2>4, InSequence
    <3>2. PICK l \in 1 .. Len(t) : u[j] = t[l]
      BY <1>2, <1>3, <2>1, <2>4
    <3>3. u[j].offset \in OffsetsOf(p, t)
      BY <2>1, <3>2, InSequence
    <3>4. QED
      BY <1>5, <3>1, <3>3 DEF Ahead
  <2>5. QED
    BY <2>2, <2>3, <2>4
<1>6. QED
  BY <1>4, <1>5 DEF u

-------------------------------------------------------------------------------
(* What the steps do to the order of a partition                           *)

\* The head of s goes to the end of f, or past f if it is not a message of p.
Taken(p, f, s, g) == g = Append(f, Head(s)) \/ (g = f /\ Head(s).partition # p)

\* Two sequences that exchanged messages have the same offsets of p together.
SameOffsets(p, f, s, g, t) ==
  OffsetsOf(p, g) \union OffsetsOf(p, t) = OffsetsOf(p, f) \union OffsetsOf(p, s)

LEMMA HeadTaken ==
  ASSUME NEW p, NEW f \in Seq(Message), NEW s \in Seq(Message), s # <<>>,
         InOrder(p, f), InOrder(p, s), Ahead(p, f, s),
         NEW g, Taken(p, f, s, g)
  PROVE  /\ InOrder(p, g) /\ InOrder(p, Tail(s)) /\ Ahead(p, g, Tail(s))
         /\ SameOffsets(p, f, s, g, Tail(s))
<1> DEFINE m == Head(s)
           t == Tail(s)
           own == {o \in {m.offset} : m.partition = p}
<1>1. /\ m \in Message
      /\ OffsetsOf(p, s) = OffsetsOf(p, t) \union own
      /\ InOrder(p, t)
      /\ m.partition = p => \A o \in OffsetsOf(p, t) : m.offset < o
  BY OneLess
<1>2. /\ OffsetsOf(p, Append(f, m)) = OffsetsOf(p, f) \union own
      /\ (m.partition = p => \A o \in OffsetsOf(p, f) : o < m.offset) => InOrder(p, Append(f, m))
  BY <1>1, OneMore
<1>3. /\ g = Append(f, m) \/ (g = f /\ m.partition # p)
      /\ m.partition # p => own = {}
      /\ m.partition = p => m.offset \in own
      /\ \A o \in own : o = m.offset /\ m.partition = p
  BY DEF Taken
<1> HIDE DEF m, t, own
<1>4. OffsetsOf(p, g) = OffsetsOf(p, f) \union own
  BY <1>2, <1>3
<1>5. InOrder(p, g)
  BY <1>1, <1>2, <1>3 DEF Ahead
<1>6. Ahead(p, g, t)
  BY <1>1, <1>3, <1>4 DEF Ahead
<1>7. SameOffsets(p, f, s, g, t)
  BY <1>1, <1>4 DEF SameOffsets
<1>8. QED
  BY <1>1, <1>5, <1>6, <1>7 DEF t

\* What is behind both of two sequences, or ahead of both, stays so when messages
\* move between them.
LEMMA StillAhead ==
  ASSUME NEW p, NEW f, NEW s, NEW g, NEW t, SameOffsets(p, f, s, g, t)
  PROVE  /\ \A x : Ahead(p, x, f) /\ Ahead(p, x, s) => Ahead(p, x, g) /\ Ahead(p, x, t)
         /\ \A x : Ahead(p, f, x) /\ Ahead(p, s, x) => Ahead(p, g, x) /\ Ahead(p, t, x)
<1>1. \A o : o \in OffsetsOf(p, g) \/ o \in OffsetsOf(p, t)
               => o \in OffsetsOf(p, f) \/ o \in OffsetsOf(p, s)
  BY Zenon DEF SameOffsets
<1>2. QED
  BY <1>1 DEF Ahead

LEMMA NothingAhead ==
  ASSUME NEW p, NEW x
  PROVE  Ahead(p, x, <<>>) /\ Ahead(p, <<>>, x)
  BY NothingThere DEF Ahead

LEMMA ReceivedFromBatch ==
  ASSUME NEW p, NEW r \in Seq(Message), NEW b \in Seq(Message), NEW d, NEW n, b # <<>>,
         Orderly(p, r, <<>>, <<>>, b, d, n), NEW g, Taken(p, r, b, g)
  PROVE  Orderly(p, g, <<>>, <<>>, Tail(b), d, n)
<1>1. /\ InOrder(p, g) /\ InOrder(p, Tail(b)) /\ Ahead(p, g, Tail(b))
      /\ SameOffsets(p, r, b, g, Tail(b))
  BY HeadTaken DEF Orderly
<1>2. Ahead(p, g, d) /\ Ahead(p, Tail(b), d)
  BY <1>1, StillAhead DEF Orderly
<1>3. QED
  BY <1>1, <1>2, NothingAhead DEF Orderly, SameOffsets

LEMMA SplitOff ==
  ASSUME NEW p, NEW r, NEW q, NEW s \in Seq(Message), NEW b \in Seq(Message), NEW d, NEW n,
         b # <<>>, Orderly(p, r, q, s, b, d, n), NEW g, Taken(p, s, b, g)
  PROVE  Orderly(p, r, q, g, Tail(b), d, n)
<1>1. /\ InOrder(p, g) /\ InOrder(p, Tail(b)) /\ Ahead(p, g, Tail(b))
      /\ SameOffsets(p, s, b, g, Tail(b))
  BY HeadTaken DEF Orderly
<1>2. /\ Ahead(p, g, d) /\ Ahead(p, Tail(b), d)
      /\ Ahead(p, r, g) /\ Ahead(p, r, Tail(b)) /\ Ahead(p, q, g) /\ Ahead(p, q, Tail(b))
  BY <1>1, StillAhead DEF Orderly
<1>3. QED
  BY <1>1, <1>2 DEF Orderly, SameOffsets

LEMMA PostedSingly ==
  ASSUME NEW p, NEW r, NEW q \in Seq(Message), NEW b \in Seq(Message), NEW d, NEW n,
         b # <<>>, Orderly(p, r, q, <<>>, b, d, n), NEW g, Taken(p, q, b, g)
  PROVE  Orderly(p, r, g, <<>>, Tail(b), d, n)
<1>1. /\ InOrder(p, g) /\ InOrder(p, Tail(b)) /\ Ahead(p, g, Tail(b))
      /\ SameOffsets(p, q, b, g, Tail(b))
  BY HeadTaken DEF Orderly
<1>2. /\ Ahead(p, g, d) /\ Ahead(p, Tail(b), d)
      /\ Ahead(p, r, g) /\ Ahead(p, r, Tail(b))
  BY <1>1, StillAhead DEF Orderly
<1>3. QED
  BY <1>1, <1>2, NothingAhead DEF Orderly, SameOffsets

LEMMA ReceivedFromQueue ==
  ASSUME NEW p, NEW r \in Seq(Message), NEW q \in Seq(Message), NEW s, NEW b, NEW d, NEW n,
         q # <<>>, Orderly(p, r, q, s, b, d, n), NEW g, Taken(p, r, q, g)
  PROVE  Orderly(p, g, Tail(q), s, b, d, n)
<1>1. /\ InOrder(p, g) /\ InOrder(p, Tail(q)) /\ Ahead(p, g, Tail(q))
      /\ SameOffsets(p, r, q, g, Tail(q))
  BY HeadTaken DEF Orderly
<1>2. /\ Ahead(p, g, s) /\ Ahead(p, g, b) /\ Ahead(p, g, d)
      /\ Ahead(p, Tail(q), s) /\ Ahead(p, Tail(q), b) /\ Ahead(p, Tail(q), d)
  BY <1>1, StillAhead DEF Orderly
<1>3. QED
  BY <1>1, <1>2 DEF Orderly, SameOffsets

LEMMA PartPosted ==
  ASSUME NEW p, NEW r, NEW q \in Seq(Message), NEW s \in Seq(Message), NEW b, NEW d, NEW n,
         Orderly(p, r, q, s, b, d, n)
  PROVE  Orderly(p, r, q \o s, <<>>, b, d, n)
<1>1. OffsetsOf(p, q \o s) = OffsetsOf(p, q) \union OffsetsOf(p, s) /\ InOrder(p, q \o s)
  BY PutTogether DEF Orderly
<1>2. SameOffsets(p, q, s, q \o s, <<>>)
  BY <1>1, NothingThere DEF SameOffsets
<1>3. /\ Ahead(p, r, q \o s) /\ Ahead(p, q \o s, b) /\ Ahead(p, q \o s, d)
  BY <1>2, StillAhead DEF Orderly
<1>4. QED
  BY <1>1, <1>2, <1>3, NothingAhead, NothingThere DEF Orderly, SameOffsets

LEMMA BatchTaken ==
  ASSUME NEW p, NEW r, NEW q, NEW s, NEW d, NEW n, Orderly(p, r, q, s, <<>>, d, n)
  PROVE  Orderly(p, r, q, s, d, <<>>, n)
<1>1. OffsetsOf(p, d) \union OffsetsOf(p, <<>>) = OffsetsOf(p, <<>>) \union OffsetsOf(p, d)
  OBVIOUS
<1>2. QED
  BY <1>1, NothingAhead, NothingThere DEF Orderly

\* rdkafka hands out the next message of the partition of m.
LEMMA ReadInOrder ==
  ASSUME NEW p, NEW r, NEW q, NEW s, NEW b, NEW d \in Seq(Message), NEW n \in Nat,
         Orderly(p, r, q, s, b, d, n), NEW m \in Message
  PROVE  /\ m.partition = p /\ m.offset = n + 1 => Orderly(p, r, q, s, b, Append(d, m), n + 1)
         /\ m.partition # p => Orderly(p, r, q, s, b, Append(d, m), n)
<1> DEFINE own == {o \in {m.offset} : m.partition = p}
           e == Append(d, m)
<1>1. /\ OffsetsOf(p, e) = OffsetsOf(p, d) \union own
      /\ (m.partition = p => \A o \in OffsetsOf(p, d) : o < m.offset) => InOrder(p, e)
  BY OneMore DEF Orderly
<1> HIDE DEF e
<1>2. ASSUME m.partition # p PROVE Orderly(p, r, q, s, b, e, n)
  <2>1. OffsetsOf(p, e) = OffsetsOf(p, d) /\ InOrder(p, e)
    BY <1>1, <1>2
  <2>2. QED
    BY <2>1 DEF Orderly, Ahead
<1>3. ASSUME m.partition = p, m.offset = n + 1 PROVE Orderly(p, r, q, s, b, e, n + 1)
  <2>1. OffsetsOf(p, e) = OffsetsOf(p, d) \union {n + 1}
    BY <1>1, <1>3
  <2>2. \A o \in 1 .. n : o < n + 1
    OBVIOUS
  <2>3. \A o \in OffsetsOf(p, r) \union OffsetsOf(p, q) \union OffsetsOf(p, s)
                   \union OffsetsOf(p, b) \union OffsetsOf(p, d) : o < n + 1
    BY <2>2 DEF Orderly
  <2>4. Ahead(p, r, e) /\ Ahead(p, q, e) /\ Ahead(p, s, e) /\ Ahead(p, b, e) /\ InOrder(p, e)
    <3>1. InOrder(p, e)
      BY <1>1, <1>3, <2>3
    <3>2. ASSUME NEW x, \A o \in OffsetsOf(p, x) : o < n + 1, Ahead(p, x, d)
          PROVE  Ahead(p, x, e)
      BY <2>1, <3>2 DEF Ahead
    <3>3. QED
      BY <2>3, <3>1, <3>2 DEF Orderly
  <2>5. 1 .. n + 1 = (1 .. n) \union {n + 1}
    OBVIOUS
  <2>6. QED
    BY <2>1, <2>4, <2>5 DEF Orderly
<1>4. QED
  BY <1>2, <1>3 DEF e


-------------------------------------------------------------------------------
(* The steps                                                               *)

LEMMA QueueExists ==
  ASSUME NEW m, m.partition \in Partitions
  PROVE  MapPartitionToQueue(m) \in IoThreads
<1>1. m.partition \in Nat /\ LowThread \in Nat /\ HighThread \in Nat /\ LowThread <= HighThread
  BY DispatchAssumption
<1> DEFINE n == HighThread - LowThread + 1
           k == m.partition % n
<1>2. n \in Nat /\ n > 0
  BY <1>1
<1>3. k \in 0 .. n - 1
  <2> HIDE DEF n
  <2> QED BY <1>1, <1>2
<1>4. QED
  BY <1>1, <1>3 DEF MapPartitionToQueue, IoThreads

LEMMA QueueOfMessage ==
  ASSUME NEW m \in Message
  PROVE  /\ m.partition \in Partitions
         /\ MapPartitionToQueue(m) \in IoThreads
         /\ MapPartitionToQueue(m) = QueueOf(m.partition)
         /\ \A p : m.partition = p => MapPartitionToQueue(m) = QueueOf(p)
<1>1. m.partition \in Partitions
  BY DEF Message
<1>2. QED
  BY <1>1, QueueExists DEF MapPartitionToQueue, QueueOf

LEMMA QueueOfPartition ==
  ASSUME NEW p \in Partitions
  PROVE  QueueOf(p) \in IoThreads
  BY QueueExists DEF QueueOf

LEMMA NextSteps ==
  ASSUME [Next]_vars
  PROVE  \/ Poll \/ StartRead \/ EndRead \/ EndFailedRead
         \/ TakePrefetched \/ TakeFailedPrefetch \/ Deserialized
         \/ DeliverOnCoroutine \/ DeliverMessageOnIoThread \/ SplitBatch
         \/ \E q \in IoThreads : PostPart(q)
         \/ AwaitReceiver \/ DeliveryEnds
         \/ ReadEnds \/ ReadThrows \/ \E p \in Partitions : ReadNext(p)
         \/ \E q \in IoThreads : IoThreadReceives(q)
         \/ UNCHANGED vars
  BY DEF Next, CoroutineStep, ReadStep

LEMMA InitType == Init => TypeOK /\ DeliveryInv
<1> SUFFICES ASSUME Init PROVE TypeOK /\ DeliveryInv
  OBVIOUS
<1>1. /\ <<>> \in Seq(Message) /\ Len(<<>>) = 0
      /\ BatchSize \in Nat /\ LogEnd \in Nat /\ MaxFailures \in Nat
  BY DispatchAssumption
<1>2. QED
  BY <1>1 DEF Init, TypeOK, DeliveryInv, NoRead, NothingToPost, ReceiversDone

LEMMA ReadNextTypes ==
  ASSUME TypeOK, NEW p \in Partitions, ReadNext(p)
  PROVE  TypeOK'
<1> DEFINE m == [partition |-> p, offset |-> position[p] + 1]
<1>1. /\ position[p] \in 0 .. LogEnd /\ position[p] < LogEnd /\ LogEnd \in Nat
      /\ reading.state = "running" /\ Len(reading.messages) < BatchSize /\ BatchSize \in Nat
      /\ reading.messages \in Seq(Message)
  BY DispatchAssumption DEF ReadNext, TypeOK
<1>2. m \in Message
  BY <1>1 DEF Message
<1>3. /\ Append(reading.messages, m) \in Seq(Message)
      /\ Len(Append(reading.messages, m)) = Len(reading.messages) + 1
  BY <1>1, <1>2, AppendProperties
<1>4. reading' = [state |-> "running", messages |-> Append(reading.messages, m)]
  BY <1>1 DEF ReadNext, TypeOK
<1>5. Len(reading'.messages) <= BatchSize
  BY <1>1, <1>3, <1>4, LenProperties
<1>6. position' \in [Partitions -> 0 .. LogEnd]
  <2>1. position[p] + 1 \in 0 .. LogEnd
    BY <1>1
  <2>2. QED
    BY <2>1 DEF ReadNext, TypeOK
<1>7. ~config.prefetch => coroutine = "reading"
  BY <1>1 DEF TypeOK, NoRead
<1> HIDE DEF m
<1>8. /\ reading' \in [state : {"none", "running", "ready", "failed"}, messages : Seq(Message)]
      /\ reading'.state = "running"
  BY <1>3, <1>4
<1>9. UNCHANGED <<config, coroutine, batch, parts, ioQueue, received, failures>>
  BY DEF ReadNext
<1>10. QED
  BY <1>5, <1>6, <1>7, <1>8, <1>9 DEF TypeOK, NothingToPost

LEMMA TypeKept ==
  ASSUME TypeOK, DeliveryInv, [Next]_vars
  PROVE  TypeOK' /\ DeliveryInv'
<1>1. /\ <<>> \in Seq(Message) /\ Len(<<>>) = 0
      /\ BatchSize \in Nat /\ BatchSize > 0 /\ MaxFailures \in Nat
  BY DispatchAssumption
<1>2. ASSUME batch # <<>>
      PROVE  /\ Head(batch) \in Message /\ Tail(batch) \in Seq(Message)
             /\ Len(Tail(batch)) <= BatchSize
             /\ MapPartitionToQueue(Head(batch)) \in IoThreads
  <2>1. batch \in Seq(Message) /\ Len(batch) \in Nat /\ Len(batch) <= BatchSize
    BY LenProperties DEF TypeOK
  <2>2. /\ Head(batch) \in Message /\ Tail(batch) \in Seq(Message)
        /\ Len(Tail(batch)) = Len(batch) - 1
    BY <1>2, <2>1, HeadTailProperties
  <2>3. QED
    BY <1>1, <2>1, <2>2, QueueOfMessage
<1>3. ASSUME NEW m \in Message, Receive(m) PROVE received' \in [Partitions -> Seq(Message)]
  <2>1. m.partition \in Partitions
    BY QueueOfMessage
  <2>2. Append(received[m.partition], m) \in Seq(Message)
    BY <2>1, AppendProperties DEF TypeOK
  <2>3. QED
    BY <1>3, <2>1, <2>2 DEF Receive, TypeOK
<1>4. CASE Poll
  BY <1>4 DEF Poll, TypeOK, DeliveryInv, NothingToPost, ReceiversDone
<1>5. CASE StartRead
  BY <1>1, <1>5 DEF StartRead, NewRead, TypeOK, DeliveryInv, NothingToPost, ReceiversDone
<1>6. CASE EndRead
  BY <1>1, <1>6 DEF EndRead, NoRead, TypeOK, DeliveryInv, NothingToPost, ReceiversDone
<1>7. CASE EndFailedRead
  BY <1>1, <1>7 DEF EndFailedRead, NoRead, TypeOK, DeliveryInv, NothingToPost, ReceiversDone
<1>8. CASE TakePrefetched
  BY <1>1, <1>8 DEF TakePrefetched, NewRead, TypeOK, DeliveryInv, NothingToPost, ReceiversDone
<1>9. CASE TakeFailedPrefetch
  BY <1>9 DEF TakeFailedPrefetch, TypeOK, DeliveryInv, NothingToPost, ReceiversDone
<1>10. CASE Deserialized
  BY <1>10 DEF Deserialized, TypeOK, DeliveryInv, NothingToPost, ReceiversDone
<1>11. CASE DeliverOnCoroutine
  <2>1. /\ batch' = Tail(batch) /\ batch' \in Seq(Message) /\ Len(batch') <= BatchSize
        /\ received' \in [Partitions -> Seq(Message)]
    BY <1>2, <1>3, <1>11 DEF DeliverOnCoroutine
  <2>2. QED
    BY <1>11, <2>1 DEF DeliverOnCoroutine, TypeOK, DeliveryInv, NothingToPost, ReceiversDone
<1>12. CASE DeliverMessageOnIoThread
  <2>1. Append(ioQueue[MapPartitionToQueue(Head(batch))], Head(batch)) \in Seq(Message)
    BY <1>2, <1>12, AppendProperties DEF DeliverMessageOnIoThread, TypeOK
  <2>2. /\ batch' \in Seq(Message) /\ Len(batch') <= BatchSize
        /\ ioQueue' \in [IoThreads -> Seq(Message)]
    BY <1>2, <1>12, <2>1 DEF DeliverMessageOnIoThread, TypeOK
  <2>3. /\ coroutine' \in {"delivering", "awaiting"} /\ NothingToPost /\ parts' = parts
        /\ config.invoke = "io" /\ UNCHANGED <<config, position, reading, received, failures>>
    BY <1>12 DEF DeliverMessageOnIoThread, DeliveryInv
  <2>4. coroutine = "delivering"
    BY <1>12 DEF DeliverMessageOnIoThread
  <2>5. QED
    BY <2>2, <2>3, <2>4 DEF TypeOK, DeliveryInv, NothingToPost, ReceiversDone
<1>13. CASE SplitBatch
  <2>1. Append(parts[MapPartitionToQueue(Head(batch))], Head(batch)) \in Seq(Message)
    BY <1>2, <1>13, AppendProperties DEF SplitBatch, TypeOK
  <2>2. /\ batch' \in Seq(Message) /\ Len(batch') <= BatchSize
        /\ parts' \in [IoThreads -> Seq(Message)]
    BY <1>2, <1>13, <2>1 DEF SplitBatch, TypeOK
  <2>3. QED
    BY <1>13, <2>2 DEF SplitBatch, TypeOK, DeliveryInv, NothingToPost, ReceiversDone
<1>14. ASSUME NEW q \in IoThreads, PostPart(q) PROVE TypeOK' /\ DeliveryInv'
  <2>1. ioQueue[q] \o parts[q] \in Seq(Message)
    BY ConcatProperties DEF TypeOK
  <2>2. ioQueue' \in [IoThreads -> Seq(Message)] /\ parts' \in [IoThreads -> Seq(Message)]
    BY <1>1, <1>14, <2>1 DEF PostPart, TypeOK
  <2>3. ~NothingToPost
    BY <1>14 DEF PostPart, NothingToPost
  <2>4. QED
    BY <1>14, <2>2, <2>3 DEF PostPart, TypeOK, DeliveryInv
<1>15. CASE AwaitReceiver
  BY <1>15 DEF AwaitReceiver, TypeOK, DeliveryInv, NothingToPost, ReceiversDone
<1>16. CASE DeliveryEnds
  BY <1>16 DEF DeliveryEnds, TypeOK, DeliveryInv, NothingToPost, ReceiversDone
<1>17. CASE ReadEnds
  <2>1. /\ reading' = [state |-> "ready", messages |-> reading.messages]
        /\ ~config.prefetch => coroutine = "reading"
        /\ UNCHANGED <<config, position, coroutine, batch, parts, ioQueue, received, failures>>
    BY <1>17 DEF ReadEnds, NoRead, TypeOK
  <2>2. QED
    BY <2>1 DEF TypeOK, DeliveryInv, NothingToPost, ReceiversDone
<1>18. CASE ReadThrows
  <2>1. reading' = [state |-> "failed", messages |-> <<>>] /\ failures' \in 0 .. MaxFailures
    BY <1>1, <1>18 DEF ReadThrows, NewRead, TypeOK
  <2>2. QED
    BY <1>1, <1>18, <2>1 DEF ReadThrows, NewRead, NoRead, TypeOK, DeliveryInv, NothingToPost, ReceiversDone
<1>19. ASSUME NEW p \in Partitions, ReadNext(p) PROVE TypeOK' /\ DeliveryInv'
  <2>1. TypeOK'
    BY <1>19, ReadNextTypes
  <2>2. QED
    BY <1>19, <2>1 DEF ReadNext, DeliveryInv, NothingToPost, ReceiversDone
<1>20. ASSUME NEW q \in IoThreads, IoThreadReceives(q) PROVE TypeOK' /\ DeliveryInv'
  <2>1. Head(ioQueue[q]) \in Message /\ Tail(ioQueue[q]) \in Seq(Message)
    BY <1>20, HeadTailProperties DEF IoThreadReceives, TypeOK
  <2>2. received' \in [Partitions -> Seq(Message)] /\ ioQueue' \in [IoThreads -> Seq(Message)]
    BY <1>3, <1>20, <2>1 DEF IoThreadReceives, TypeOK
  <2>3. ~ReceiversDone
    BY <1>20 DEF IoThreadReceives, ReceiversDone
  <2>4. QED
    BY <1>20, <2>2, <2>3 DEF IoThreadReceives, TypeOK, DeliveryInv, NothingToPost
<1>21. CASE UNCHANGED vars
  BY <1>21 DEF vars, TypeOK, DeliveryInv, NothingToPost, ReceiversDone
<1>22. QED
  BY NextSteps, <1>4, <1>5, <1>6, <1>7, <1>8, <1>9, <1>10, <1>11, <1>12, <1>13, <1>14,
     <1>15, <1>16, <1>17, <1>18, <1>19, <1>20, <1>21


-------------------------------------------------------------------------------
(* The messages in a sequence, and the queues they are in                  *)

LEMMA MessagesInSequence ==
  ASSUME NEW s \in Seq(Message)
  PROVE  /\ \A m : m \in MessagesIn(s) <=> \E i \in 1 .. Len(s) : s[i] = m
         /\ MessagesIn(s) \subseteq Message
         /\ Len(s) \in Nat
  BY LenProperties, ElementOfSeq DEF MessagesIn

LEMMA MessagesInTail ==
  ASSUME NEW s \in Seq(Message), s # <<>>
  PROVE  /\ Head(s) \in MessagesIn(s) /\ Tail(s) \in Seq(Message)
         /\ MessagesIn(Tail(s)) \subseteq MessagesIn(s)
<1>1. /\ Tail(s) \in Seq(Message) /\ Len(Tail(s)) = Len(s) - 1 /\ Len(s) \in Nat /\ Len(s) > 0
      /\ \A i \in 1 .. Len(Tail(s)) : Tail(s)[i] = s[i + 1]
      /\ Head(s) = s[1]
  BY HeadTailProperties, LenProperties, EmptySeq
<1>2. 1 \in 1 .. Len(s) /\ \A i \in 1 .. Len(Tail(s)) : i + 1 \in 1 .. Len(s)
  BY <1>1
<1>3. Head(s) \in MessagesIn(s)
  BY <1>1, <1>2, MessagesInSequence
<1>4. ASSUME NEW m \in MessagesIn(Tail(s)) PROVE m \in MessagesIn(s)
  <2>1. PICK i \in 1 .. Len(Tail(s)) : Tail(s)[i] = m
    BY <1>1, MessagesInSequence
  <2>2. s[i + 1] = m /\ i + 1 \in 1 .. Len(s)
    BY <1>1, <1>2, <2>1
  <2>3. QED
    BY <2>2, MessagesInSequence
<1>5. QED
  BY <1>1, <1>3, <1>4

LEMMA MessagesInAppended ==
  ASSUME NEW s \in Seq(Message), NEW m \in Message
  PROVE  Append(s, m) \in Seq(Message) /\ MessagesIn(Append(s, m)) \subseteq MessagesIn(s) \union {m}
<1> DEFINE t == Append(s, m)
<1>1. /\ t \in Seq(Message) /\ Len(t) = Len(s) + 1 /\ Len(s) \in Nat
      /\ \A i \in 1 .. Len(s) : t[i] = s[i]
      /\ t[Len(s) + 1] = m
  BY AppendProperties, LenProperties
<1> HIDE DEF t
<1>2. ASSUME NEW x \in MessagesIn(t) PROVE x \in MessagesIn(s) \/ x = m
  <2>1. PICK i \in 1 .. Len(t) : t[i] = x
    BY <1>1, MessagesInSequence
  <2>2. i \in 1 .. Len(s) \/ i = Len(s) + 1
    BY <1>1
  <2>3. QED
    BY <1>1, <2>1, <2>2, MessagesInSequence
<1>3. QED
  BY <1>1, <1>2 DEF t

LEMMA MessagesInBoth ==
  ASSUME NEW s \in Seq(Message), NEW t \in Seq(Message)
  PROVE  s \o t \in Seq(Message) /\ MessagesIn(s \o t) \subseteq MessagesIn(s) \union MessagesIn(t)
<1> DEFINE u == s \o t
<1>1. /\ u \in Seq(Message) /\ Len(u) = Len(s) + Len(t)
      /\ \A i \in 1 .. Len(s) + Len(t) : u[i] = IF i <= Len(s) THEN s[i] ELSE t[i - Len(s)]
      /\ Len(s) \in Nat /\ Len(t) \in Nat
  BY ConcatProperties, LenProperties
<1> HIDE DEF u
<1>2. ASSUME NEW x \in MessagesIn(u) PROVE x \in MessagesIn(s) \/ x \in MessagesIn(t)
  <2>1. PICK i \in 1 .. Len(u) : u[i] = x
    BY <1>1, MessagesInSequence
  <2>2. CASE i <= Len(s)
    <3>1. i \in 1 .. Len(s) /\ s[i] = x
      BY <1>1, <2>1, <2>2
    <3>2. QED
      BY <3>1, MessagesInSequence
  <2>3. CASE ~(i <= Len(s))
    <3>1. i - Len(s) \in 1 .. Len(t) /\ t[i - Len(s)] = x
      BY <1>1, <2>1, <2>3
    <3>2. QED
      BY <3>1, MessagesInSequence
  <2>4. QED
    BY <2>2, <2>3
<1>3. QED
  BY <1>1, <1>2 DEF u

LEMMA PlacedKept ==
  ASSUME TypeOK, PlacedInv, [Next]_vars
  PROVE  PlacedInv'
<1>1. SUFFICES ASSUME NEW k \in IoThreads PROVE MappedTo(k, parts'[k]) /\ MappedTo(k, ioQueue'[k])
  BY DEF PlacedInv, MappedTo, MapPartitionToQueue
<1>2. /\ MappedTo(k, parts[k]) /\ MappedTo(k, ioQueue[k]) /\ MappedTo(k, <<>>)
      /\ parts[k] \in Seq(Message) /\ ioQueue[k] \in Seq(Message)
  BY DEF PlacedInv, TypeOK, MappedTo, MessagesIn
<1>3. ASSUME batch # <<>>, NEW f \in [IoThreads -> Seq(Message)], MappedTo(k, f[k]),
             NEW g, g = [f EXCEPT ![MapPartitionToQueue(Head(batch))] = Append(@, Head(batch))]
      PROVE  MappedTo(k, g[k])
  <2>1. Head(batch) \in Message
    BY <1>3, HeadTailProperties DEF TypeOK
  <2>2. \/ g[k] = f[k]
        \/ g[k] = Append(f[k], Head(batch)) /\ MapPartitionToQueue(Head(batch)) = k
    BY <1>3
  <2>3. f[k] \in Seq(Message)
    BY <1>3
  <2>4. QED
    BY <1>3, <2>1, <2>2, <2>3, MessagesInAppended DEF MappedTo
<1>4. CASE parts' = parts /\ ioQueue' = ioQueue
  BY <1>2, <1>4
<1>5. CASE DeliverMessageOnIoThread
  BY <1>2, <1>3, <1>5 DEF DeliverMessageOnIoThread, TypeOK
<1>6. CASE SplitBatch
  BY <1>2, <1>3, <1>6 DEF SplitBatch, TypeOK
<1>7. ASSUME NEW q \in IoThreads, PostPart(q)
      PROVE  MappedTo(k, parts'[k]) /\ MappedTo(k, ioQueue'[k])
  <2>1. \/ parts'[k] = parts[k] /\ ioQueue'[k] = ioQueue[k]
        \/ parts'[k] = <<>> /\ ioQueue'[k] = ioQueue[k] \o parts[k]
    BY <1>7 DEF PostPart, TypeOK
  <2>2. QED
    BY <1>2, <2>1, MessagesInBoth DEF MappedTo
<1>8. ASSUME NEW q \in IoThreads, IoThreadReceives(q)
      PROVE  MappedTo(k, parts'[k]) /\ MappedTo(k, ioQueue'[k])
  <2>1. \/ parts'[k] = parts[k] /\ ioQueue'[k] = ioQueue[k]
        \/ parts'[k] = parts[k] /\ ioQueue[k] # <<>> /\ ioQueue'[k] = Tail(ioQueue[k])
    BY <1>8 DEF IoThreadReceives, TypeOK
  <2>2. QED
    BY <1>2, <2>1, MessagesInTail DEF MappedTo
<1>9. CASE Poll \/ StartRead \/ EndRead \/ EndFailedRead \/ TakePrefetched \/ TakeFailedPrefetch
           \/ Deserialized \/ DeliverOnCoroutine \/ AwaitReceiver \/ DeliveryEnds
           \/ ReadEnds \/ ReadThrows \/ UNCHANGED vars
  BY <1>4, <1>9 DEF Poll, StartRead, EndRead, EndFailedRead, TakePrefetched, TakeFailedPrefetch,
     Deserialized, DeliverOnCoroutine, AwaitReceiver, DeliveryEnds, ReadEnds, ReadThrows, vars
<1>10. CASE \E p \in Partitions : ReadNext(p)
  BY <1>4, <1>10 DEF ReadNext
<1>11. QED
  BY NextSteps, <1>5, <1>6, <1>7, <1>8, <1>9, <1>10


-------------------------------------------------------------------------------
(* The order of each partition                                             *)

LEMMA InitOrder == Init => OrderInv
<1> SUFFICES ASSUME Init, NEW p \in Partitions PROVE OrderOf(p)
  BY DEF OrderInv
<1>1. /\ received[p] = <<>> /\ ioQueue[QueueOf(p)] = <<>> /\ parts[QueueOf(p)] = <<>>
      /\ batch = <<>> /\ reading.messages = <<>> /\ position[p] = 0
  BY QueueOfPartition DEF Init, NoRead
<1>2. 1 .. 0 = {}
  OBVIOUS
<1>3. Orderly(p, <<>>, <<>>, <<>>, <<>>, <<>>, 0)
  BY <1>2, NothingThere, NothingAhead DEF Orderly
<1>4. QED
  BY <1>1, <1>3 DEF OrderOf

LEMMA QueuesOf ==
  ASSUME TypeOK, NEW p \in Partitions
  PROVE  /\ received[p] \in Seq(Message) /\ QueueOf(p) \in IoThreads
         /\ ioQueue[QueueOf(p)] \in Seq(Message) /\ parts[QueueOf(p)] \in Seq(Message)
         /\ batch \in Seq(Message) /\ reading.messages \in Seq(Message) /\ position[p] \in Nat
  BY QueueOfPartition, DispatchAssumption DEF TypeOK

\* A receiver that sees the head of s.
LEMMA TakenByReceiver ==
  ASSUME TypeOK, NEW p \in Partitions, NEW s \in Seq(Message), s # <<>>, Receive(Head(s))
  PROVE  Taken(p, received[p], s, received'[p])
<1>1. Head(s) \in Message
  BY HeadTailProperties
<1>2. Head(s).partition \in Partitions
  BY <1>1, QueueOfMessage
<1>3. QED
  BY <1>2 DEF Receive, Taken, TypeOK

\* The queues of IO threads of which one gets the head of the batch.
LEMMA TakenByQueue ==
  ASSUME TypeOK, NEW p \in Partitions, batch # <<>>, NEW f \in [IoThreads -> Seq(Message)],
         NEW g, g = [f EXCEPT ![MapPartitionToQueue(Head(batch))] = Append(@, Head(batch))]
  PROVE  Taken(p, f[QueueOf(p)], batch, g[QueueOf(p)])
<1>1. Head(batch) \in Message
  BY HeadTailProperties DEF TypeOK
<1>2. QueueOf(p) \in IoThreads
  BY QueueOfPartition
<1>3. CASE MapPartitionToQueue(Head(batch)) = QueueOf(p)
  BY <1>2, <1>3 DEF Taken
<1>4. CASE MapPartitionToQueue(Head(batch)) # QueueOf(p)
  <2>1. g[QueueOf(p)] = f[QueueOf(p)]
    BY <1>2, <1>4
  <2>2. Head(batch).partition # p
    BY <1>1, <1>4, QueueOfMessage
  <2>3. QED
    BY <2>1, <2>2 DEF Taken
<1>5. QED
  BY <1>3, <1>4

LEMMA OrderKept ==
  ASSUME TypeOK, DeliveryInv, PlacedInv, OrderInv, [Next]_vars, NEW p \in Partitions
  PROVE  OrderOf(p)'
<1> DEFINE r == received[p]
           q == ioQueue[QueueOf(p)]
           s == parts[QueueOf(p)]
           d == reading.messages
           n == position[p]
           r1 == received'[p]
           q1 == ioQueue'[QueueOf(p)]
           s1 == parts'[QueueOf(p)]
           d1 == reading'.messages
           n1 == position'[p]
<1>1. Orderly(p, r, q, s, batch, d, n)
  BY DEF OrderInv, OrderOf
<1>2. SUFFICES Orderly(p, r1, q1, s1, batch', d1, n1)
  BY DEF OrderOf, QueueOf, MapPartitionToQueue
<1>3. /\ r \in Seq(Message) /\ q \in Seq(Message) /\ s \in Seq(Message)
      /\ batch \in Seq(Message) /\ d \in Seq(Message) /\ n \in Nat
      /\ QueueOf(p) \in IoThreads
  BY QueuesOf
<1>4. CASE /\ r1 = r /\ q1 = q /\ s1 = s /\ batch' = batch /\ d1 = d /\ n1 = n
  BY <1>1, <1>4
<1>5. CASE \/ Poll \/ TakeFailedPrefetch \/ Deserialized \/ AwaitReceiver \/ DeliveryEnds
           \/ UNCHANGED vars
  BY <1>4, <1>5 DEF Poll, TakeFailedPrefetch, Deserialized, AwaitReceiver, DeliveryEnds, vars
<1>6. CASE StartRead \/ EndFailedRead \/ ReadEnds \/ ReadThrows
  <2>1. d1 = d
    BY <1>6 DEF StartRead, EndFailedRead, ReadEnds, ReadThrows, NoRead, NewRead, TypeOK
  <2>2. QED
    BY <1>4, <1>6, <2>1 DEF StartRead, EndFailedRead, ReadEnds, ReadThrows
<1>7. CASE EndRead \/ TakePrefetched
  <2>1. batch = <<>> /\ batch' = d /\ d1 = <<>>
    BY <1>7 DEF EndRead, TakePrefetched, NoRead, NewRead, TypeOK
  <2>2. r1 = r /\ q1 = q /\ s1 = s /\ n1 = n
    BY <1>7 DEF EndRead, TakePrefetched
  <2>3. QED
    BY <1>1, <2>1, <2>2, BatchTaken
<1>8. CASE DeliverOnCoroutine
  <2>1. /\ batch # <<>> /\ batch' = Tail(batch) /\ Receive(Head(batch))
        /\ q1 = q /\ s1 = s /\ d1 = d /\ n1 = n
    BY <1>8 DEF DeliverOnCoroutine
  <2>2. q = <<>> /\ s = <<>>
    BY <1>3, <1>8 DEF DeliverOnCoroutine, DeliveryInv, ReceiversDone, NothingToPost
  <2>3. Taken(p, r, batch, r1)
    BY <1>3, <2>1, TakenByReceiver
  <2>4. QED
    BY <1>1, <1>3, <2>1, <2>2, <2>3, ReceivedFromBatch
<1>9. CASE DeliverMessageOnIoThread
  <2>1. /\ batch # <<>> /\ batch' = Tail(batch)
        /\ r1 = r /\ s1 = s /\ d1 = d /\ n1 = n
    BY <1>9 DEF DeliverMessageOnIoThread
  <2>2. s = <<>>
    BY <1>3, <1>9 DEF DeliverMessageOnIoThread, DeliveryInv, NothingToPost
  <2>3. Taken(p, q, batch, q1)
    BY <1>9, <2>1, TakenByQueue DEF DeliverMessageOnIoThread, TypeOK
  <2>4. QED
    BY <1>1, <1>3, <2>1, <2>2, <2>3, PostedSingly
<1>10. CASE SplitBatch
  <2>1. /\ batch # <<>> /\ batch' = Tail(batch)
        /\ r1 = r /\ q1 = q /\ d1 = d /\ n1 = n
    BY <1>10 DEF SplitBatch
  <2>2. Taken(p, s, batch, s1)
    BY <1>10, <2>1, TakenByQueue DEF SplitBatch, TypeOK
  <2>3. QED
    BY <1>1, <1>3, <2>1, <2>2, SplitOff
<1>11. ASSUME NEW k \in IoThreads, PostPart(k)
       PROVE  Orderly(p, r1, q1, s1, batch', d1, n1)
  <2>1. r1 = r /\ batch' = batch /\ d1 = d /\ n1 = n
    BY <1>11 DEF PostPart
  <2>2. CASE k = QueueOf(p)
    <3>1. q1 = q \o s /\ s1 = <<>>
      BY <1>11, <2>2 DEF PostPart, TypeOK
    <3>2. QED
      BY <1>1, <1>3, <2>1, <3>1, PartPosted
  <2>3. CASE k # QueueOf(p)
    BY <1>3, <1>4, <1>11, <2>1, <2>3 DEF PostPart, TypeOK
  <2>4. QED
    BY <2>2, <2>3
<1>12. ASSUME NEW x \in Partitions, ReadNext(x)
       PROVE  Orderly(p, r1, q1, s1, batch', d1, n1)
  <2> DEFINE m == [partition |-> x, offset |-> position[x] + 1]
  <2>1. m \in Message
    <3>1. position[x] \in 0 .. LogEnd /\ position[x] < LogEnd /\ LogEnd \in Nat
      BY <1>12, DispatchAssumption DEF ReadNext, TypeOK
    <3>2. QED
      BY <3>1 DEF Message
  <2>2. r1 = r /\ q1 = q /\ s1 = s /\ batch' = batch /\ d1 = Append(d, m)
    BY <1>12 DEF ReadNext, TypeOK
  <2>3. n1 = IF x = p THEN n + 1 ELSE n
    BY <1>12 DEF ReadNext, TypeOK
  <2>4. m.partition = x /\ (x = p => m.offset = n + 1)
    OBVIOUS
  <2> HIDE DEF m
  <2>5. /\ m.partition = p /\ m.offset = n + 1 => Orderly(p, r, q, s, batch, Append(d, m), n + 1)
        /\ m.partition # p => Orderly(p, r, q, s, batch, Append(d, m), n)
    BY <1>1, <1>3, <2>1, ReadInOrder
  <2>6. QED
    BY <2>2, <2>3, <2>4, <2>5
<1>13. ASSUME NEW k \in IoThreads, IoThreadReceives(k)
       PROVE  Orderly(p, r1, q1, s1, batch', d1, n1)
  <2>1. /\ ioQueue[k] \in Seq(Message) /\ ioQueue[k] # <<>> /\ Receive(Head(ioQueue[k]))
        /\ s1 = s /\ batch' = batch /\ d1 = d /\ n1 = n
    BY <1>13 DEF IoThreadReceives, TypeOK
  <2>2. Taken(p, r, ioQueue[k], r1)
    BY <2>1, TakenByReceiver
  <2>3. CASE k = QueueOf(p)
    <3>1. q1 = Tail(q)
      BY <1>13, <2>3 DEF IoThreadReceives, TypeOK
    <3>2. QED
      BY <1>1, <1>3, <2>1, <2>2, <2>3, <3>1, ReceivedFromQueue
  <2>4. CASE k # QueueOf(p)
    <3>1. q1 = q
      BY <1>3, <1>13, <2>4 DEF IoThreadReceives, TypeOK
    <3>2. Head(ioQueue[k]) \in Message /\ MapPartitionToQueue(Head(ioQueue[k])) = k
      BY <2>1, MessagesInTail, MessagesInSequence DEF PlacedInv, MappedTo
    <3>3. Head(ioQueue[k]).partition # p
      BY <2>4, <3>2, QueueOfMessage
    <3>4. r1 = r
      BY <2>1, <3>3 DEF Receive, TypeOK
    <3>5. QED
      BY <1>4, <2>1, <3>1, <3>4
  <2>5. QED
    BY <2>3, <2>4
<1>14. QED
  BY NextSteps, <1>5, <1>6, <1>7, <1>8, <1>9, <1>10, <1>11, <1>12, <1>13

\* In the form of the property.
LEMMA OrderShown == TypeOK /\ OrderInv => ArrivalOrder
<1> SUFFICES ASSUME TypeOK, OrderInv, NEW p \in Partitions
             PROVE  /\ \A a \in 1 .. 5 : InOrder(p, Stages(p)[a])
                    /\ \A a, b \in 1 .. 5 : a < b => Ahead(p, Stages(p)[a], Stages(p)[b])
                    /\ UNION {OffsetsOf(p, Stages(p)[a]) : a \in 1 .. 5} = 1 .. position[p]
  BY DEF ArrivalOrder
<1> DEFINE r == received[p]
           q == ioQueue[QueueOf(p)]
           s == parts[QueueOf(p)]
           d == reading.messages
           n == position[p]
<1>1. Orderly(p, r, q, s, batch, d, n)
  BY DEF OrderInv, OrderOf
<1>2. /\ Stages(p)[1] = r /\ Stages(p)[2] = q /\ Stages(p)[3] = s
      /\ Stages(p)[4] = batch /\ Stages(p)[5] = d
  BY DEF Stages, QueueOf
<1>3. \A a : a \in 1 .. 5 <=> a = 1 \/ a = 2 \/ a = 3 \/ a = 4 \/ a = 5
  OBVIOUS
<1> HIDE DEF r, q, s, d, n
<1>4. \A a \in 1 .. 5 : InOrder(p, Stages(p)[a])
  BY <1>1, <1>2, <1>3 DEF Orderly
<1>5. ASSUME NEW a \in 1 .. 5, NEW b \in 1 .. 5, a < b
      PROVE  Ahead(p, Stages(p)[a], Stages(p)[b])
  <2>1. CASE a = 1
    <3>1. b = 2 \/ b = 3 \/ b = 4 \/ b = 5
      BY <1>3, <1>5, <2>1
    <3>2. QED
      BY <1>1, <1>2, <2>1, <3>1 DEF Orderly
  <2>2. CASE a = 2
    <3>1. b = 3 \/ b = 4 \/ b = 5
      BY <1>3, <1>5, <2>2
    <3>2. QED
      BY <1>1, <1>2, <2>2, <3>1 DEF Orderly
  <2>3. CASE a = 3
    <3>1. b = 4 \/ b = 5
      BY <1>3, <1>5, <2>3
    <3>2. QED
      BY <1>1, <1>2, <2>3, <3>1 DEF Orderly
  <2>4. CASE a = 4
    <3>1. b = 5
      BY <1>3, <1>5, <2>4
    <3>2. QED
      BY <1>1, <1>2, <2>4, <3>1 DEF Orderly
  <2>5. a # 5
    BY <1>3, <1>5
  <2>6. QED
    BY <1>3, <2>1, <2>2, <2>3, <2>4, <2>5
<1>6. UNION {OffsetsOf(p, Stages(p)[a]) : a \in 1 .. 5}
        = OffsetsOf(p, r) \union OffsetsOf(p, q) \union OffsetsOf(p, s)
            \union OffsetsOf(p, batch) \union OffsetsOf(p, d)
  <2>1. ASSUME NEW o
        PROVE  (\E a \in 1 .. 5 : o \in OffsetsOf(p, Stages(p)[a]))
                 <=> \/ o \in OffsetsOf(p, r) \/ o \in OffsetsOf(p, q) \/ o \in OffsetsOf(p, s)
                     \/ o \in OffsetsOf(p, batch) \/ o \in OffsetsOf(p, d)
    BY <1>2, <1>3
  <2>2. QED
    BY <2>1
<1>7. QED
  BY <1>1, <1>4, <1>5, <1>6 DEF Orderly, n

-------------------------------------------------------------------------------
(* What waits in memory                                                    *)

LEMMA NoMoreThanLength ==
  ASSUME NEW s \in Seq(Message)
  PROVE  IsFiniteSet(MessagesIn(s)) /\ Cardinality(MessagesIn(s)) <= Len(s)
<1>1. Len(s) \in Nat /\ DOMAIN s = 1 .. Len(s)
  BY LenProperties
<1>2. IsFiniteSet(1 .. Len(s)) /\ Cardinality(1 .. Len(s)) = Len(s)
  BY <1>1, FS_Interval
<1>3. s \in Surjection(1 .. Len(s), MessagesIn(s))
  <2>1. s \in [1 .. Len(s) -> MessagesIn(s)]
    BY <1>1 DEF MessagesIn
  <2>2. \A m \in MessagesIn(s) : \E i \in 1 .. Len(s) : s[i] = m
    BY MessagesInSequence
  <2>3. QED
    BY <2>1, <2>2 DEF Surjection
<1>4. QED
  BY <1>2, <1>3, FS_Surjection

LEMMA WaitingMessages ==
  ASSUME NEW m
  PROVE  m \in Waiting <=> \/ m \in MessagesIn(batch)
                           \/ \E k \in IoThreads : m \in MessagesIn(parts[k]) \/ m \in MessagesIn(ioQueue[k])
  BY DEF Waiting

LEMMA WaitingNext ==
  ASSUME NEW m
  PROVE  m \in Waiting' <=> \/ m \in MessagesIn(batch')
                            \/ \E k \in IoThreads : m \in MessagesIn(parts'[k]) \/ m \in MessagesIn(ioQueue'[k])
  BY DEF Waiting, MessagesIn

\* But for a new batch there is no message that was not waiting before.
LEMMA WaitingShrinks ==
  ASSUME TypeOK, [Next]_vars, ~EndRead, ~TakePrefetched
  PROVE  Waiting' \subseteq Waiting
<1>1. /\ batch \in Seq(Message)
      /\ \A k \in IoThreads : parts[k] \in Seq(Message) /\ ioQueue[k] \in Seq(Message)
  BY DEF TypeOK
<1>2. ASSUME batch # <<>>
      PROVE  /\ Head(batch) \in MessagesIn(batch) /\ Head(batch) \in Message
             /\ MessagesIn(Tail(batch)) \subseteq MessagesIn(batch)
  BY <1>1, <1>2, MessagesInTail, MessagesInSequence
<1>3. SUFFICES ASSUME NEW m \in Waiting' PROVE m \in Waiting
  OBVIOUS
<1>4. CASE batch' = batch /\ parts' = parts /\ ioQueue' = ioQueue
  BY <1>4, WaitingMessages, WaitingNext
<1> DEFINE with(f) == [f EXCEPT ![MapPartitionToQueue(Head(batch))] = Append(@, Head(batch))]
<1>5. ASSUME batch # <<>>, NEW f \in [IoThreads -> Seq(Message)], NEW k \in IoThreads
      PROVE  MessagesIn(with(f)[k]) \subseteq MessagesIn(f[k]) \union MessagesIn(batch)
  <2>1. with(f)[k] = f[k] \/ with(f)[k] = Append(f[k], Head(batch))
    BY <1>5
  <2>2. f[k] \in Seq(Message)
    BY <1>5
  <2>3. QED
    BY <1>2, <1>5, <2>1, <2>2, MessagesInAppended
<1> HIDE DEF with
<1>6. CASE DeliverOnCoroutine
  <2>1. batch # <<>> /\ batch' = Tail(batch) /\ parts' = parts /\ ioQueue' = ioQueue
    BY <1>6 DEF DeliverOnCoroutine
  <2>2. QED
    BY <1>2, <2>1, WaitingMessages, WaitingNext
<1>7. CASE DeliverMessageOnIoThread
  <2>1. batch # <<>> /\ batch' = Tail(batch) /\ parts' = parts
    BY <1>7 DEF DeliverMessageOnIoThread
  <2>2. \A k \in IoThreads : MessagesIn(ioQueue'[k]) \subseteq MessagesIn(ioQueue[k]) \union MessagesIn(batch)
    <3>1. ioQueue \in [IoThreads -> Seq(Message)] /\ ioQueue' = with(ioQueue)
      BY <1>7 DEF DeliverMessageOnIoThread, TypeOK, with
    <3>2. QED
      BY <1>5, <2>1, <3>1
  <2>3. QED
    BY <1>2, <2>1, <2>2, WaitingMessages, WaitingNext
<1>8. CASE SplitBatch
  <2>1. batch # <<>> /\ batch' = Tail(batch) /\ ioQueue' = ioQueue
    BY <1>8 DEF SplitBatch
  <2>2. \A k \in IoThreads : MessagesIn(parts'[k]) \subseteq MessagesIn(parts[k]) \union MessagesIn(batch)
    <3>1. parts \in [IoThreads -> Seq(Message)] /\ parts' = with(parts)
      BY <1>8 DEF SplitBatch, TypeOK, with
    <3>2. QED
      BY <1>5, <2>1, <3>1
  <2>3. QED
    BY <1>2, <2>1, <2>2, WaitingMessages, WaitingNext
<1>9. ASSUME NEW q \in IoThreads, PostPart(q) PROVE m \in Waiting
  <2>1. batch' = batch
    BY <1>9 DEF PostPart
  <2>2. ASSUME NEW k \in IoThreads
        PROVE  MessagesIn(parts'[k]) \union MessagesIn(ioQueue'[k])
                 \subseteq MessagesIn(parts[k]) \union MessagesIn(ioQueue[k])
    <3>1. \/ parts'[k] = parts[k] /\ ioQueue'[k] = ioQueue[k]
          \/ parts'[k] = <<>> /\ ioQueue'[k] = ioQueue[k] \o parts[k]
      BY <1>9 DEF PostPart, TypeOK
    <3>2. MessagesIn(<<>>) = {}
      BY DEF MessagesIn
    <3>3. MessagesIn(ioQueue[k] \o parts[k]) \subseteq MessagesIn(ioQueue[k]) \union MessagesIn(parts[k])
      BY <1>1, MessagesInBoth
    <3>4. QED
      BY <3>1, <3>2, <3>3
  <2>3. QED
    BY <2>1, <2>2, WaitingMessages, WaitingNext
<1>10. ASSUME NEW q \in IoThreads, IoThreadReceives(q) PROVE m \in Waiting
  <2>1. batch' = batch /\ parts' = parts
    BY <1>10 DEF IoThreadReceives
  <2>2. ASSUME NEW k \in IoThreads PROVE MessagesIn(ioQueue'[k]) \subseteq MessagesIn(ioQueue[k])
    <3>1. \/ ioQueue'[k] = ioQueue[k]
          \/ ioQueue[k] # <<>> /\ ioQueue'[k] = Tail(ioQueue[k])
      BY <1>10 DEF IoThreadReceives, TypeOK
    <3>2. QED
      BY <1>1, <3>1, MessagesInTail
  <2>3. QED
    BY <2>1, <2>2, WaitingMessages, WaitingNext
<1>11. CASE Poll \/ StartRead \/ EndFailedRead \/ TakeFailedPrefetch
            \/ Deserialized \/ AwaitReceiver \/ DeliveryEnds
            \/ ReadEnds \/ ReadThrows \/ UNCHANGED vars
  BY <1>4, <1>11 DEF Poll, StartRead, EndFailedRead, TakeFailedPrefetch,
     Deserialized, AwaitReceiver, DeliveryEnds, ReadEnds, ReadThrows, vars
<1>12. CASE \E p \in Partitions : ReadNext(p)
  BY <1>4, <1>12 DEF ReadNext
<1>13. QED
  BY NextSteps, <1>6, <1>7, <1>8, <1>9, <1>10, <1>11, <1>12

\* Nothing waits when the coroutine is about to take the next batch.
LEMMA WaitingAtFirst ==
  ASSUME batch = <<>>, NothingToPost, ReceiversDone
  PROVE  Waiting = {}
<1>1. MessagesIn(<<>>) = {}
  BY DEF MessagesIn
<1>2. QED
  BY <1>1, WaitingMessages DEF NothingToPost, ReceiversDone

LEMMA PressureKept ==
  ASSUME TypeOK, PressureInv, [Next]_vars
  PROVE  PressureInv'
<1>1. SUFFICES ASSUME config.exec = "sync"
               PROVE  /\ coroutine' \in {"none", "started", "reading"} => ReceiversDone'
                      /\ IsFiniteSet(Waiting') /\ Cardinality(Waiting') <= BatchSize
  <2>1. config' = config
    BY NextSteps DEF Poll, StartRead, EndRead, EndFailedRead, TakePrefetched, TakeFailedPrefetch,
       Deserialized, DeliverOnCoroutine, DeliverMessageOnIoThread, SplitBatch, PostPart,
       AwaitReceiver, DeliveryEnds, ReadEnds, ReadThrows, ReadNext, IoThreadReceives, vars
  <2>2. QED
    BY <2>1 DEF PressureInv
<1>2. /\ coroutine \in {"none", "started", "reading"} => ReceiversDone
      /\ IsFiniteSet(Waiting) /\ Cardinality(Waiting) <= BatchSize
  BY <1>1 DEF PressureInv
<1>3. coroutine' \in {"none", "started", "reading"} => ReceiversDone'
  <2>1. CASE ioQueue' = ioQueue
    <3>1. ReceiversDone' = ReceiversDone
      BY <2>1 DEF ReceiversDone
    <3>2. coroutine' \in {"none", "started", "reading"}
            => coroutine \in {"none", "started", "reading"} \/ ReceiversDone
      BY NextSteps, <1>1
         DEF Poll, StartRead, EndRead, EndFailedRead, TakePrefetched, TakeFailedPrefetch,
         Deserialized, DeliverOnCoroutine, DeliverMessageOnIoThread, SplitBatch, PostPart,
         AwaitReceiver, DeliveryEnds, ReadEnds, ReadThrows, ReadNext, IoThreadReceives, vars
    <3>3. QED
      BY <1>2, <3>1, <3>2
  <2>2. CASE DeliverMessageOnIoThread \/ \E q \in IoThreads : PostPart(q)
    BY <2>2 DEF DeliverMessageOnIoThread, PostPart
  <2>3. ASSUME NEW q \in IoThreads, IoThreadReceives(q)
        PROVE  coroutine' \notin {"none", "started", "reading"}
    BY <1>2, <2>3 DEF IoThreadReceives, ReceiversDone
  <2>4. CASE ~DeliverMessageOnIoThread /\ ~(\E q \in IoThreads : PostPart(q))
             /\ ~(\E q \in IoThreads : IoThreadReceives(q))
    BY NextSteps, <2>1, <2>4
       DEF Poll, StartRead, EndRead, EndFailedRead, TakePrefetched, TakeFailedPrefetch,
       Deserialized, DeliverOnCoroutine, SplitBatch,
       AwaitReceiver, DeliveryEnds, ReadEnds, ReadThrows, ReadNext, vars
  <2>5. QED
    BY <2>2, <2>3, <2>4
<1>4. IsFiniteSet(Waiting') /\ Cardinality(Waiting') <= BatchSize
  <2>1. CASE ~EndRead /\ ~TakePrefetched
    <3>1. Waiting' \in SUBSET Waiting
      BY <2>1, WaitingShrinks
    <3>2. IsFiniteSet(Waiting') /\ Cardinality(Waiting') <= Cardinality(Waiting)
      BY <1>2, <3>1, FS_Subset
    <3>3. Cardinality(Waiting') \in Nat /\ Cardinality(Waiting) \in Nat /\ BatchSize \in Nat
      BY <1>2, <3>2, FS_CardinalityType, DispatchAssumption
    <3>4. QED
      BY <1>2, <3>2, <3>3
  <2>2. CASE EndRead \/ TakePrefetched
    <3>1. /\ batch' = reading.messages /\ parts' = parts /\ ioQueue' = ioQueue
          /\ coroutine \in {"started", "reading"}
      BY <2>2 DEF EndRead, TakePrefetched
    <3>2. NothingToPost /\ ReceiversDone
      BY <1>2, <3>1 DEF TypeOK
    <3>3. MessagesIn(<<>>) = {}
      BY DEF MessagesIn
    <3>4. Waiting' = MessagesIn(reading.messages)
      BY <3>1, <3>2, <3>3, WaitingNext DEF NothingToPost, ReceiversDone
    <3>5. reading.messages \in Seq(Message) /\ Len(reading.messages) <= BatchSize
      BY DEF TypeOK
    <3>6. /\ IsFiniteSet(MessagesIn(reading.messages))
          /\ Cardinality(MessagesIn(reading.messages)) <= Len(reading.messages)
      BY <3>5, NoMoreThanLength
    <3>7. /\ Cardinality(MessagesIn(reading.messages)) \in Nat /\ Len(reading.messages) \in Nat
          /\ BatchSize \in Nat
      BY <3>5, <3>6, FS_CardinalityType, LenProperties, DispatchAssumption
    <3>8. QED
      BY <3>4, <3>5, <3>6, <3>7
  <2>3. QED
    BY <2>1, <2>2
<1>5. QED
  BY <1>3, <1>4

LEMMA PressureShown == TypeOK /\ PressureInv => Backpressure
<1> SUFFICES ASSUME TypeOK, PressureInv, config.exec = "sync"
             PROVE  Cardinality(Waiting \union MessagesIn(reading.messages))
                      <= IF config.prefetch THEN 2 * BatchSize ELSE BatchSize
  BY DEF Backpressure
<1> DEFINE read == MessagesIn(reading.messages)
<1>1. /\ coroutine \in {"none", "started", "reading"} => ReceiversDone
      /\ IsFiniteSet(Waiting) /\ Cardinality(Waiting) <= BatchSize
  BY DEF PressureInv
<1>2. reading.messages \in Seq(Message) /\ Len(reading.messages) <= BatchSize
  BY DEF TypeOK
<1>3. IsFiniteSet(read) /\ Cardinality(read) <= Len(reading.messages)
  BY <1>2, NoMoreThanLength
<1>4. /\ Cardinality(Waiting) \in Nat /\ Cardinality(read) \in Nat
      /\ Len(reading.messages) \in Nat /\ BatchSize \in Nat
  BY <1>1, <1>2, <1>3, FS_CardinalityType, LenProperties, DispatchAssumption
<1> HIDE DEF read
<1>5. CASE config.prefetch
  <2>1. /\ Cardinality(Waiting \union read)
             = Cardinality(Waiting) + Cardinality(read) - Cardinality(Waiting \intersect read)
        /\ IsFiniteSet(Waiting \intersect read)
    <3>1. IsFiniteSet(Waiting \intersect read)
      BY <1>1, FS_Intersection
    <3>2. QED
      BY <1>1, <1>3, <3>1, FS_Union
  <2>2. Cardinality(Waiting \intersect read) \in Nat
    BY <2>1, FS_CardinalityType
  <2>3. Cardinality(Waiting \union read) <= 2 * BatchSize
    BY <1>1, <1>2, <1>3, <1>4, <2>1, <2>2
  <2>4. QED
    BY <1>5, <2>3 DEF read
<1>6. CASE ~config.prefetch /\ coroutine = "reading"
  <2>1. Waiting = {}
    BY <1>1, <1>6, WaitingAtFirst DEF TypeOK
  <2>2. Waiting \union read = read
    BY <2>1
  <2>3. Cardinality(read) <= BatchSize
    BY <1>2, <1>3, <1>4
  <2>4. QED
    BY <1>6, <2>2, <2>3 DEF read
<1>7. CASE ~config.prefetch /\ coroutine # "reading"
  <2>1. reading.messages = <<>>
    BY <1>7 DEF TypeOK, NoRead
  <2>2. read = {}
    BY <2>1 DEF read, MessagesIn
  <2>3. Waiting \union read = Waiting
    BY <2>2
  <2>4. QED
    BY <1>1, <1>7, <2>3 DEF read
<1>8. QED
  BY <1>5, <1>6, <1>7

-------------------------------------------------------------------------------
(* Theorems                                                                *)

LEMMA InitInv == Init => Inv
<1> SUFFICES ASSUME Init PROVE Inv
  OBVIOUS
<1>1. TypeOK /\ DeliveryInv /\ OrderInv
  BY InitType, InitOrder
<1>2. /\ batch = <<>> /\ NothingToPost /\ ReceiversDone
  BY DEF Init, NothingToPost, ReceiversDone
<1>3. PlacedInv
  BY <1>2 DEF PlacedInv, NothingToPost, ReceiversDone, MappedTo, MessagesIn
<1>4. PressureInv
  <2>1. Waiting = {}
    BY <1>2, WaitingAtFirst
  <2>2. QED
    BY <1>2, <2>1, FS_EmptySet, DispatchAssumption DEF PressureInv
<1>5. QED
  BY <1>1, <1>3, <1>4 DEF Inv

LEMMA InvKept == Inv /\ [Next]_vars => Inv'
<1> SUFFICES ASSUME Inv, [Next]_vars PROVE Inv'
  OBVIOUS
<1>1. TypeOK /\ DeliveryInv /\ PlacedInv /\ OrderInv /\ PressureInv
  BY DEF Inv
<1>2. TypeOK' /\ DeliveryInv'
  BY <1>1, TypeKept
<1>3. PlacedInv'
  BY <1>1, PlacedKept
<1>4. OrderInv'
  <2>1. ASSUME NEW p \in Partitions PROVE OrderOf(p)'
    BY <1>1, OrderKept
  <2>2. QED
    BY <2>1 DEF OrderInv
<1>5. PressureInv'
  BY <1>1, PressureKept
<1>6. QED
  BY <1>2, <1>3, <1>4, <1>5 DEF Inv

LEMMA InvAlways == Spec => []Inv
  BY InitInv, InvKept, PTL DEF Spec

\* The variables keep their types, and between two coroutines nothing is left of a
\* batch: neither messages that were not passed on nor parts that were not posted.
THEOREM DispatchTypeCorrect == Spec => []TypeOK
<1>1. Inv => TypeOK
  BY DEF Inv
<1>2. QED
  BY <1>1, InvAlways, PTL

\* Between rdkafka and the receiver the messages of a partition stay in order, and none
\* is lost or doubled, whatever threads, strategies and failing reads there are.
THEOREM ArrivalOrderKept == Spec => []ArrivalOrder
<1>1. Inv => ArrivalOrder
  BY OrderShown DEF Inv
<1>2. QED
  BY <1>1, InvAlways, PTL

\* Synchronous receivers hold the reads back: what they have not seen is never more
\* than a batch, and the one that is prefetched.
THEOREM BackpressureHolds == Spec => []Backpressure
<1>1. Inv => Backpressure
  BY PressureShown DEF Inv
<1>2. QED
  BY <1>1, InvAlways, PTL


===============================================================================
