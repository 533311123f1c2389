------------------------- MODULE ProducerManagerProofs -------------------------
(***************************************************************************)
(* Proofs about ProducerManager: its type invariant, that every message    *)
(* has one owner, that an ordered topic has one posted message in flight,  *)
(* and that the broker accepts the messages of an ordered topic in the     *)
(* order of post(), for any number of topics, threads and messages.        *)
(***************************************************************************)
EXTENDS ProducerManager, SequenceTheorems, TLAPS

-------------------------------------------------------------------------------
(* The inductive invariant                                                 *)

\* What a message of an ordered topic passes on its way, the broker first.
Line(a, q, t) ==
  <<a[t], q[Outbound(t)], q[Flush(t)], q[Buffer(t)], q[IO(t)], q[TempQueue], q[MessageQueue]>>

Stages == 1 .. 7

PostedOnes == {m \in Messages : message[m].posted}

\* Those of set, wherever they are in the line, are in the order of their numbers.
InOrder(line, set) ==
  \A a, b \in Stages : \A i \in DOMAIN line[a], j \in DOMAIN line[b] :
    /\ a < b \/ (a = b /\ i < j)
    /\ line[a][i] \in set /\ line[b][j] \in set
    => line[a][i] < line[b][j]

\* Fan-out, once on, stays on for the second call of enableMessageFanout() that the
\* property allows for; before the first nothing is on an IO thread.
FanoutInv ==
  /\ switches = 0 => ~fanout /\ \A t \in Topics : queue[IO(t)] = <<>>
  /\ switches = 1 => fanout

OrderInv ==
  /\ FanoutInv
  /\ ~shuttingDown /\ switches <= 1 => \A t \in Ordered : InOrder(Line(acked, queue, t), PostedOnes)

-------------------------------------------------------------------------------
(* Places, and what moving messages between them does to the queues        *)

Queues(S) == [Places -> Seq(S)]

LEMMA MyPlaces ==
  /\ MessageQueue \in Places /\ TempQueue \in Places
  /\ \A t \in Topics : IO(t) \in Places /\ Outbound(t) \in Places
  /\ \A t \in Ordered : Buffer(t) \in Places /\ Flush(t) \in Places /\ Drain(t) \in Places
  /\ Ordered \subseteq Topics
  BY ProducerAssumption DEF Places

LEMMA PlacesDiffer ==
  /\ MessageQueue # TempQueue
  /\ \A t : {IO(t), Outbound(t), Buffer(t), Flush(t), Drain(t)}
               \intersect {MessageQueue, TempQueue} = {}
  /\ \A t, u : /\ IO(t) \notin {Outbound(u), Buffer(u), Flush(u), Drain(u)}
               /\ Outbound(t) \notin {Buffer(u), Flush(u), Drain(u)}
               /\ Buffer(t) \notin {Flush(u), Drain(u)} /\ Flush(t) # Drain(u)
  /\ \A t, u : IO(t) = IO(u) \/ Outbound(t) = Outbound(u) \/ Buffer(t) = Buffer(u)
                 \/ Flush(t) = Flush(u) \/ Drain(t) = Drain(u) => t = u
  BY DEF MessageQueue, TempQueue, IO, Outbound, Buffer, Flush, Drain

\* Sequences with a head taken off, an element put at the end, and one put in front.
LEMMA TailOf ==
  ASSUME NEW S, NEW s \in Seq(S), s # <<>>
  PROVE  /\ Head(s) = s[1] /\ s[1] \in S
         /\ Tail(s) \in Seq(S) /\ Len(Tail(s)) = Len(s) - 1
         /\ \A i \in 1 .. Len(s) - 1 : Tail(s)[i] = s[i + 1]
  BY HeadTailProperties

LEMMA AtEnd ==
  ASSUME NEW S, NEW s \in Seq(S), NEW e \in S
  PROVE  /\ Append(s, e) \in Seq(S) /\ Len(Append(s, e)) = Len(s) + 1
         /\ \A i \in 1 .. Len(s) : Append(s, e)[i] = s[i]
         /\ Append(s, e)[Len(s) + 1] = e
  BY AppendProperties

LEMMA InFront ==
  ASSUME NEW S, NEW s \in Seq(S), NEW e \in S
  PROVE  /\ <<e>> \o s \in Seq(S) /\ Len(<<e>> \o s) = Len(s) + 1
         /\ (<<e>> \o s)[1] = e
         /\ \A i \in 2 .. Len(s) + 1 : (<<e>> \o s)[i] = s[i - 1]
<1>1. <<e>> \in Seq(S) /\ Len(<<e>>) = 1 /\ <<e>>[1] = e /\ Len(s) \in Nat
  BY LenProperties
<1>2. /\ <<e>> \o s \in Seq(S) /\ Len(<<e>> \o s) = Len(<<e>>) + Len(s)
      /\ \A i \in 1 .. Len(<<e>>) + Len(s) :
           (<<e>> \o s)[i] = IF i <= Len(<<e>>) THEN <<e>>[i] ELSE s[i - Len(<<e>>)]
  BY <1>1, ConcatProperties
<1>3. QED
  BY <1>1, <1>2

\* The head of one queue goes to the end of another.
IsMove(q, r, from, to) ==
  /\ \A p \in Places \ {from, to} : r[p] = q[p]
  /\ Len(r[from]) = Len(q[from]) - 1
  /\ \A i \in 1 .. Len(r[from]) : r[from][i] = q[from][i + 1]
  /\ Len(r[to]) = Len(q[to]) + 1
  /\ \A i \in 1 .. Len(q[to]) : r[to][i] = q[to][i]
  /\ r[to][Len(q[to]) + 1] = q[from][1]

\* The head of a queue goes away.
IsDiscard(q, r, from) ==
  /\ \A p \in Places \ {from} : r[p] = q[p]
  /\ Len(r[from]) = Len(q[from]) - 1
  /\ \A i \in 1 .. Len(r[from]) : r[from][i] = q[from][i + 1]

\* A queue is emptied into another, in place of what was there.
IsTakeAll(q, r, from, to) ==
  /\ \A p \in Places \ {from, to} : r[p] = q[p]
  /\ r[from] = <<>> /\ r[to] = q[from]

\* A queue is emptied, and nothing else happens.
IsEmptied(q, r, from) ==
  (\A p \in Places \ {from} : r[p] = q[p]) /\ r[from] = <<>>

\* The head of a queue goes to the front of another.
IsPutBack(q, r, from, to) ==
  /\ \A p \in Places \ {from, to} : r[p] = q[p]
  /\ Len(r[from]) = Len(q[from]) - 1
  /\ \A i \in 1 .. Len(r[from]) : r[from][i] = q[from][i + 1]
  /\ Len(r[to]) = Len(q[to]) + 1
  /\ \A i \in 2 .. Len(r[to]) : r[to][i] = q[to][i - 1]
  /\ r[to][1] = q[from][1]

\* An element is put at the end of a queue.
IsJoin(q, r, to, e) ==
  /\ \A p \in Places \ {to} : r[p] = q[p]
  /\ Len(r[to]) = Len(q[to]) + 1
  /\ \A i \in 1 .. Len(q[to]) : r[to][i] = q[to][i]
  /\ r[to][Len(q[to]) + 1] = e

LEMMA Moved ==
  ASSUME NEW S, NEW q \in Queues(S), NEW from \in Places, NEW to \in Places,
         from # to, q[from] # <<>>, NEW r,
         r = [q EXCEPT ![from] = Tail(@), ![to] = Append(@, Head(q[from]))]
  PROVE  r \in Queues(S) /\ IsMove(q, r, from, to)
<1>1. q[from] \in Seq(S) /\ q[to] \in Seq(S)
  BY DEF Queues
<1>2. r[from] = Tail(q[from]) /\ r[to] = Append(q[to], Head(q[from]))
  BY DEF Queues
<1>3. Head(q[from]) = q[from][1]
  BY <1>1
<1>4. /\ Head(q[from]) \in S /\ r[from] \in Seq(S)
      /\ Len(r[from]) = Len(q[from]) - 1
      /\ \A i \in 1 .. Len(r[from]) : r[from][i] = q[from][i + 1]
  <2>1. /\ q[from][1] \in S
        /\ Tail(q[from]) \in Seq(S) /\ Len(Tail(q[from])) = Len(q[from]) - 1
        /\ \A i \in 1 .. Len(q[from]) - 1 : Tail(q[from])[i] = q[from][i + 1]
    BY <1>1, TailOf
  <2>2. QED
    BY <1>2, <1>3, <2>1
<1>5. /\ r[to] \in Seq(S) /\ Len(r[to]) = Len(q[to]) + 1
      /\ \A i \in 1 .. Len(q[to]) : r[to][i] = q[to][i]
      /\ r[to][Len(q[to]) + 1] = q[from][1]
  <2>1. q[from][1] \in S /\ r[to] = Append(q[to], q[from][1])
    BY <1>2, <1>3, <1>4
  <2>2. /\ Append(q[to], q[from][1]) \in Seq(S)
        /\ Len(Append(q[to], q[from][1])) = Len(q[to]) + 1
        /\ \A i \in 1 .. Len(q[to]) : Append(q[to], q[from][1])[i] = q[to][i]
        /\ Append(q[to], q[from][1])[Len(q[to]) + 1] = q[from][1]
    BY <1>1, <2>1, AtEnd
  <2>3. QED
    BY <2>1, <2>2
<1>6. \A p \in Places \ {from, to} : r[p] = q[p]
  BY DEF Queues
<1>7. r \in Queues(S)
  <2>1. \A p \in Places : r[p] \in Seq(S)
    BY <1>4, <1>5, <1>6 DEF Queues
  <2>2. r = [p \in Places |-> r[p]]
    BY DEF Queues
  <2>3. QED
    BY <2>1, <2>2 DEF Queues
<1>8. QED
  BY <1>4, <1>5, <1>6, <1>7 DEF IsMove

LEMMA Discarded ==
  ASSUME NEW S, NEW q \in Queues(S), NEW from \in Places, q[from] # <<>>, NEW r,
         r = [q EXCEPT ![from] = Tail(@)]
  PROVE  r \in Queues(S) /\ IsDiscard(q, r, from) /\ Head(q[from]) = q[from][1]
<1>1. q[from] \in Seq(S)
  BY DEF Queues
<1>2. r[from] = Tail(q[from])
  BY DEF Queues
<1>3. Head(q[from]) = q[from][1]
  BY <1>1
<1>4. /\ r[from] \in Seq(S)
      /\ Len(r[from]) = Len(q[from]) - 1
      /\ \A i \in 1 .. Len(r[from]) : r[from][i] = q[from][i + 1]
  <2>1. /\ q[from][1] \in S
        /\ Tail(q[from]) \in Seq(S) /\ Len(Tail(q[from])) = Len(q[from]) - 1
        /\ \A i \in 1 .. Len(q[from]) - 1 : Tail(q[from])[i] = q[from][i + 1]
    BY <1>1, TailOf
  <2>2. QED
    BY <1>2, <1>3, <2>1
<1>5. \A p \in Places \ {from} : r[p] = q[p]
  BY DEF Queues
<1>6. r \in Queues(S)
  <2>1. \A p \in Places : r[p] \in Seq(S)
    BY <1>4, <1>5 DEF Queues
  <2>2. r = [p \in Places |-> r[p]]
    BY DEF Queues
  <2>3. QED
    BY <2>1, <2>2 DEF Queues
<1>7. QED
  BY <1>3, <1>4, <1>5, <1>6 DEF IsDiscard

LEMMA Taken ==
  ASSUME NEW S, NEW q \in Queues(S), NEW from \in Places, NEW to \in Places,
         from # to, NEW r, r = [q EXCEPT ![from] = <<>>, ![to] = q[from]]
  PROVE  r \in Queues(S) /\ IsTakeAll(q, r, from, to)
<1>1. r[from] = <<>> /\ r[to] = q[from] /\ \A p \in Places \ {from, to} : r[p] = q[p]
  BY DEF Queues
<1>2. \A p \in Places : r[p] \in Seq(S)
  BY <1>1, EmptySeq DEF Queues
<1>3. r = [p \in Places |-> r[p]]
  BY DEF Queues
<1>4. QED
  BY <1>1, <1>2, <1>3 DEF Queues, IsTakeAll

LEMMA Emptied ==
  ASSUME NEW S, NEW q \in Queues(S), NEW from \in Places, NEW r,
         r = [q EXCEPT ![from] = <<>>]
  PROVE  r \in Queues(S) /\ IsEmptied(q, r, from)
<1>1. r[from] = <<>> /\ \A p \in Places \ {from} : r[p] = q[p]
  BY DEF Queues
<1>2. \A p \in Places : r[p] \in Seq(S)
  BY <1>1, EmptySeq DEF Queues
<1>3. r = [p \in Places |-> r[p]]
  BY DEF Queues
<1>4. QED
  BY <1>1, <1>2, <1>3 DEF Queues, IsEmptied

LEMMA PutBack ==
  ASSUME NEW S, NEW q \in Queues(S), NEW from \in Places, NEW to \in Places,
         from # to, q[from] # <<>>, NEW r,
         r = [q EXCEPT ![from] = Tail(@), ![to] = <<Head(q[from])>> \o @]
  PROVE  r \in Queues(S) /\ IsPutBack(q, r, from, to)
<1>1. q[from] \in Seq(S) /\ q[to] \in Seq(S)
  BY DEF Queues
<1>2. r[from] = Tail(q[from]) /\ r[to] = <<Head(q[from])>> \o q[to]
  BY DEF Queues
<1>3. Head(q[from]) = q[from][1]
  BY <1>1
<1>4. /\ Head(q[from]) \in S /\ r[from] \in Seq(S)
      /\ Len(r[from]) = Len(q[from]) - 1
      /\ \A i \in 1 .. Len(r[from]) : r[from][i] = q[from][i + 1]
  <2>1. /\ q[from][1] \in S
        /\ Tail(q[from]) \in Seq(S) /\ Len(Tail(q[from])) = Len(q[from]) - 1
        /\ \A i \in 1 .. Len(q[from]) - 1 : Tail(q[from])[i] = q[from][i + 1]
    BY <1>1, TailOf
  <2>2. QED
    BY <1>2, <1>3, <2>1
<1>5. /\ r[to] \in Seq(S) /\ Len(r[to]) = Len(q[to]) + 1
      /\ \A i \in 2 .. Len(q[to]) + 1 : r[to][i] = q[to][i - 1]
      /\ r[to][1] = q[from][1]
  <2>1. q[from][1] \in S /\ r[to] = (<<q[from][1]>> \o q[to])
    BY <1>2, <1>3, <1>4
  <2>2. /\ (<<q[from][1]>> \o q[to]) \in Seq(S)
        /\ Len((<<q[from][1]>> \o q[to])) = Len(q[to]) + 1
        /\ \A i \in 2 .. Len(q[to]) + 1 : (<<q[from][1]>> \o q[to])[i] = q[to][i - 1]
        /\ (<<q[from][1]>> \o q[to])[1] = q[from][1]
    BY <1>1, <2>1, InFront
  <2>3. QED
    BY <2>1, <2>2
<1>6. \A i \in 2 .. Len(r[to]) : r[to][i] = q[to][i - 1]
  BY <1>5
<1>7. \A p \in Places \ {from, to} : r[p] = q[p]
  BY DEF Queues
<1>8. r \in Queues(S)
  <2>1. \A p \in Places : r[p] \in Seq(S)
    BY <1>4, <1>5, <1>7 DEF Queues
  <2>2. r = [p \in Places |-> r[p]]
    BY DEF Queues
  <2>3. QED
    BY <2>1, <2>2 DEF Queues
<1>9. QED
  BY <1>4, <1>5, <1>6, <1>7, <1>8 DEF IsPutBack

LEMMA Joins ==
  ASSUME NEW S, NEW T, S \subseteq T, NEW q \in Queues(S), NEW e \in T,
         NEW to \in Places, NEW r,
         r = [q EXCEPT ![to] = Append(@, e)]
  PROVE  r \in Queues(T) /\ IsJoin(q, r, to, e)
<1>1. \A p \in Places : q[p] \in Seq(T)
  <2>1. \A p \in Places : q[p] \in Seq(S)
    BY DEF Queues
  <2>2. QED
    BY <2>1, SeqMonotonic
<1>2. r[to] = Append(q[to], e) /\ \A p \in Places \ {to} : r[p] = q[p]
  BY DEF Queues
<1>3. /\ r[to] \in Seq(T) /\ Len(r[to]) = Len(q[to]) + 1
      /\ \A i \in 1 .. Len(q[to]) : r[to][i] = q[to][i]
      /\ r[to][Len(q[to]) + 1] = e
  BY <1>1, <1>2, AtEnd
<1>4. r \in Queues(T)
  <2>1. \A p \in Places : r[p] \in Seq(T)
    BY <1>1, <1>2, <1>3
  <2>2. r = [p \in Places |-> r[p]]
    BY DEF Queues
  <2>3. QED
    BY <2>1, <2>2 DEF Queues
<1>5. QED
  BY <1>2, <1>3, <1>4 DEF IsJoin

-------------------------------------------------------------------------------
(* One owner                                                               *)

\* No message is in two queues, or twice in one.
AloneIn(q) ==
  \A p, s \in Places : \A i \in DOMAIN q[p], j \in DOMAIN q[s] :
    q[p][i] = q[s][j] => p = s /\ i = j

HeldIn(q, m) == \E p \in Places : \E i \in DOMAIN q[p] : q[p][i] = m

LEMMA Lengths ==
  ASSUME NEW S, NEW q \in Queues(S), NEW p \in Places
  PROVE  /\ q[p] \in Seq(S) /\ Len(q[p]) \in Nat /\ DOMAIN q[p] = 1 .. Len(q[p])
         /\ q[p] = <<>> <=> Len(q[p]) = 0
         /\ \A i \in 1 .. Len(q[p]) : q[p][i] \in S
<1>1. q[p] \in Seq(S)
  BY DEF Queues
<1>2. q[p] = <<>> <=> Len(q[p]) = 0
  BY <1>1, EmptySeq
<1>3. QED
  BY <1>1, <1>2, LenProperties, ElementOfSeq

\* Every message of r was at another position of q, as came tells: then none was put
\* anywhere twice.
LEMMA OriginKeeps ==
  ASSUME NEW q, NEW r, NEW came, AloneIn(q),
         \A p \in Places : \A i \in DOMAIN r[p] :
           \E s \in Places : \E j \in DOMAIN q[s] :
             r[p][i] = q[s][j] /\ <<p, i, s, j>> \in came,
         \A p, u, s \in Places : \A i \in DOMAIN r[p], k \in DOMAIN r[u] :
           \A j \in DOMAIN q[s] :
             <<p, i, s, j>> \in came /\ <<u, k, s, j>> \in came => p = u /\ i = k
  PROVE  AloneIn(r) /\ \A m : HeldIn(r, m) => HeldIn(q, m)
<1>1. ASSUME NEW p \in Places, NEW u \in Places,
             NEW i \in DOMAIN r[p], NEW k \in DOMAIN r[u], r[p][i] = r[u][k]
      PROVE  p = u /\ i = k
  <2>1. PICK s1 \in Places : \E j1 \in DOMAIN q[s1] :
               r[p][i] = q[s1][j1] /\ <<p, i, s1, j1>> \in came
    OBVIOUS
  <2>2. PICK j1 \in DOMAIN q[s1] : r[p][i] = q[s1][j1] /\ <<p, i, s1, j1>> \in came
    BY <2>1
  <2>3. PICK s2 \in Places : \E j2 \in DOMAIN q[s2] :
               r[u][k] = q[s2][j2] /\ <<u, k, s2, j2>> \in came
    OBVIOUS
  <2>4. PICK j2 \in DOMAIN q[s2] : r[u][k] = q[s2][j2] /\ <<u, k, s2, j2>> \in came
    BY <2>3
  <2>5. q[s1][j1] = q[s2][j2]
    BY <1>1, <2>2, <2>4
  <2>6. s1 = s2 /\ j1 = j2
    BY <2>1, <2>2, <2>3, <2>4, <2>5 DEF AloneIn
  <2>7. QED
    BY <2>1, <2>2, <2>3, <2>4, <2>6
<1>2. AloneIn(r)
  BY <1>1 DEF AloneIn
<1>3. ASSUME NEW m, HeldIn(r, m)
      PROVE  HeldIn(q, m)
  <2>1. PICK p \in Places : \E i \in DOMAIN r[p] : r[p][i] = m
    BY <1>3 DEF HeldIn
  <2>2. PICK i \in DOMAIN r[p] : r[p][i] = m
    BY <2>1
  <2>3. PICK s \in Places : \E j \in DOMAIN q[s] : r[p][i] = q[s][j] /\ <<p, i, s, j>> \in came
    BY <2>1, <2>2
  <2>4. QED
    BY <2>1, <2>2, <2>3 DEF HeldIn
<1>4. QED
  BY <1>2, <1>3

LEMMA MovedKeeps ==
  ASSUME NEW S, NEW q \in Queues(S), NEW from \in Places, NEW to \in Places,
         from # to, q[from] # <<>>, NEW r \in Queues(S), IsMove(q, r, from, to), AloneIn(q)
  PROVE  AloneIn(r) /\ \A m : HeldIn(r, m) => HeldIn(q, m)
<1> DEFINE origin(p, i, s, j) ==
             \/ p = from /\ s = from /\ j = i + 1
             \/ p = to /\ i = Len(q[to]) + 1 /\ s = from /\ j = 1
             \/ p # from /\ (p = to => i <= Len(q[to])) /\ s = p /\ j = i
           came == {x \in Places \X Nat \X Places \X Nat : origin(x[1], x[2], x[3], x[4])}
<1>1. \A p \in Places : /\ Len(q[p]) \in Nat /\ DOMAIN q[p] = 1 .. Len(q[p])
                        /\ Len(r[p]) \in Nat /\ DOMAIN r[p] = 1 .. Len(r[p])
  BY Lengths
<1>2. Len(q[from]) > 0
  BY <1>1, Lengths
<1>3. ASSUME NEW p \in Places, NEW i \in DOMAIN r[p]
      PROVE  \E s \in Places : \E j \in DOMAIN q[s] :
               r[p][i] = q[s][j] /\ <<p, i, s, j>> \in came
  <2>1. \E s \in Places : \E j \in DOMAIN q[s] : r[p][i] = q[s][j] /\ origin(p, i, s, j)
    <3>1. CASE p = from
      <4>1. i \in 1 .. Len(r[from]) /\ Len(r[from]) = Len(q[from]) - 1
        BY <1>1, <3>1 DEF IsMove
      <4>2. i + 1 \in DOMAIN q[from]
        BY <1>1, <4>1
      <4>3. r[from][i] = q[from][i + 1]
        BY <4>1 DEF IsMove
      <4>4. QED
        BY <3>1, <4>2, <4>3
    <3>2. CASE p = to /\ i = Len(q[to]) + 1
      BY <1>1, <1>2, <3>2 DEF IsMove
    <3>3. CASE p # from /\ (p = to => i <= Len(q[to]))
      BY <1>1, <3>3 DEF IsMove
    <3>4. QED
      BY <1>1, <3>1, <3>2, <3>3 DEF IsMove
  <2>2. i \in Nat /\ \A s \in Places : DOMAIN q[s] \subseteq Nat
    BY <1>1
  <2> HIDE DEF origin
  <2>3. PICK s \in Places : \E j \in DOMAIN q[s] : r[p][i] = q[s][j] /\ origin(p, i, s, j)
    BY <2>1
  <2>4. PICK j \in DOMAIN q[s] : r[p][i] = q[s][j] /\ origin(p, i, s, j)
    BY <2>3
  <2>5. <<p, i, s, j>> \in came
    BY <2>2, <2>3, <2>4
  <2> HIDE DEF came
  <2>6. QED
    BY <2>3, <2>4, <2>5
<1>4. ASSUME NEW p \in Places, NEW u \in Places, NEW s \in Places,
             NEW i \in DOMAIN r[p], NEW k \in DOMAIN r[u], NEW j \in DOMAIN q[s],
             <<p, i, s, j>> \in came, <<u, k, s, j>> \in came
      PROVE  p = u /\ i = k
  <2>1. origin(p, i, s, j) /\ origin(u, k, s, j)
    BY <1>4
  <2> HIDE DEF came
  <2>2. QED
    BY <1>1, <2>1
<1> HIDE DEF came
<1>5. \A p, u, s \in Places : \A i \in DOMAIN r[p], k \in DOMAIN r[u] : \A j \in DOMAIN q[s] :
        <<p, i, s, j>> \in came /\ <<u, k, s, j>> \in came => p = u /\ i = k
  BY <1>4
<1>6. \A p \in Places : \A i \in DOMAIN r[p] : \E s \in Places : \E j \in DOMAIN q[s] :
        r[p][i] = q[s][j] /\ <<p, i, s, j>> \in came
  BY <1>3
<1>7. QED
  BY <1>5, <1>6, OriginKeeps

LEMMA DiscardedKeeps ==
  ASSUME NEW S, NEW q \in Queues(S), NEW from \in Places,
         q[from] # <<>>, NEW r \in Queues(S), IsDiscard(q, r, from), AloneIn(q)
  PROVE  AloneIn(r) /\ \A m : HeldIn(r, m) => HeldIn(q, m)
<1> DEFINE origin(p, i, s, j) ==
             \/ p = from /\ s = from /\ j = i + 1
             \/ p # from /\ s = p /\ j = i
           came == {x \in Places \X Nat \X Places \X Nat : origin(x[1], x[2], x[3], x[4])}
<1>1. \A p \in Places : /\ Len(q[p]) \in Nat /\ DOMAIN q[p] = 1 .. Len(q[p])
                        /\ Len(r[p]) \in Nat /\ DOMAIN r[p] = 1 .. Len(r[p])
  BY Lengths
<1>3. ASSUME NEW p \in Places, NEW i \in DOMAIN r[p]
      PROVE  \E s \in Places : \E j \in DOMAIN q[s] :
               r[p][i] = q[s][j] /\ <<p, i, s, j>> \in came
  <2>1. \E s \in Places : \E j \in DOMAIN q[s] : r[p][i] = q[s][j] /\ origin(p, i, s, j)
    <3>1. CASE p = from
      <4>1. i \in 1 .. Len(r[from]) /\ Len(r[from]) = Len(q[from]) - 1
        BY <1>1, <3>1 DEF IsDiscard
      <4>2. i + 1 \in DOMAIN q[from]
        BY <1>1, <4>1
      <4>3. r[from][i] = q[from][i + 1]
        BY <4>1 DEF IsDiscard
      <4>4. QED
        BY <3>1, <4>2, <4>3
    <3>2. CASE p # from
      BY <1>1, <3>2 DEF IsDiscard
    <3>3. QED
      BY <3>1, <3>2
  <2>2. i \in Nat /\ \A s \in Places : DOMAIN q[s] \subseteq Nat
    BY <1>1
  <2> HIDE DEF origin
  <2>3. PICK s \in Places : \E j \in DOMAIN q[s] : r[p][i] = q[s][j] /\ origin(p, i, s, j)
    BY <2>1
  <2>4. PICK j \in DOMAIN q[s] : r[p][i] = q[s][j] /\ origin(p, i, s, j)
    BY <2>3
  <2>5. <<p, i, s, j>> \in came
    BY <2>2, <2>3, <2>4
  <2> HIDE DEF came
  <2>6. QED
    BY <2>3, <2>4, <2>5
<1>4. ASSUME NEW p \in Places, NEW u \in Places, NEW s \in Places,
             NEW i \in DOMAIN r[p], NEW k \in DOMAIN r[u], NEW j \in DOMAIN q[s],
             <<p, i, s, j>> \in came, <<u, k, s, j>> \in came
      PROVE  p = u /\ i = k
  <2>1. origin(p, i, s, j) /\ origin(u, k, s, j)
    BY <1>4
  <2> HIDE DEF came
  <2>2. QED
    BY <1>1, <2>1
<1> HIDE DEF came
<1>5. \A p, u, s \in Places : \A i \in DOMAIN r[p], k \in DOMAIN r[u] : \A j \in DOMAIN q[s] :
        <<p, i, s, j>> \in came /\ <<u, k, s, j>> \in came => p = u /\ i = k
  BY <1>4
<1>6. \A p \in Places : \A i \in DOMAIN r[p] : \E s \in Places : \E j \in DOMAIN q[s] :
        r[p][i] = q[s][j] /\ <<p, i, s, j>> \in came
  BY <1>3
<1>7. QED
  BY <1>5, <1>6, OriginKeeps

LEMMA TakenKeeps ==
  ASSUME NEW S, NEW q \in Queues(S), NEW from \in Places, NEW to \in Places,
         from # to, NEW r \in Queues(S), IsTakeAll(q, r, from, to), AloneIn(q)
  PROVE  AloneIn(r) /\ \A m : HeldIn(r, m) => HeldIn(q, m)
<1> DEFINE origin(p, i, s, j) ==
             \/ p = to /\ s = from /\ j = i
             \/ p \notin {from, to} /\ s = p /\ j = i
           came == {x \in Places \X Nat \X Places \X Nat : origin(x[1], x[2], x[3], x[4])}
<1>1. \A p \in Places : /\ Len(q[p]) \in Nat /\ DOMAIN q[p] = 1 .. Len(q[p])
                        /\ Len(r[p]) \in Nat /\ DOMAIN r[p] = 1 .. Len(r[p])
  BY Lengths
<1>2. r[from] = <<>> /\ DOMAIN r[from] = {}
  BY Lengths DEF IsTakeAll
<1>3. ASSUME NEW p \in Places, NEW i \in DOMAIN r[p]
      PROVE  \E s \in Places : \E j \in DOMAIN q[s] :
               r[p][i] = q[s][j] /\ <<p, i, s, j>> \in came
  <2>1. \E s \in Places : \E j \in DOMAIN q[s] : r[p][i] = q[s][j] /\ origin(p, i, s, j)
    <3>1. CASE p = to
      BY <1>1, <3>1 DEF IsTakeAll
    <3>2. CASE p # to
      BY <1>1, <1>2, <3>2 DEF IsTakeAll
    <3>3. QED
      BY <3>1, <3>2
  <2>2. i \in Nat /\ \A s \in Places : DOMAIN q[s] \subseteq Nat
    BY <1>1
  <2> HIDE DEF origin
  <2>3. PICK s \in Places : \E j \in DOMAIN q[s] : r[p][i] = q[s][j] /\ origin(p, i, s, j)
    BY <2>1
  <2>4. PICK j \in DOMAIN q[s] : r[p][i] = q[s][j] /\ origin(p, i, s, j)
    BY <2>3
  <2>5. <<p, i, s, j>> \in came
    BY <2>2, <2>3, <2>4
  <2> HIDE DEF came
  <2>6. QED
    BY <2>3, <2>4, <2>5
<1>4. ASSUME NEW p \in Places, NEW u \in Places, NEW s \in Places,
             NEW i \in DOMAIN r[p], NEW k \in DOMAIN r[u], NEW j \in DOMAIN q[s],
             <<p, i, s, j>> \in came, <<u, k, s, j>> \in came
      PROVE  p = u /\ i = k
  <2>1. origin(p, i, s, j) /\ origin(u, k, s, j)
    BY <1>4
  <2> HIDE DEF came
  <2>2. QED
    BY <1>1, <2>1
<1> HIDE DEF came
<1>5. \A p, u, s \in Places : \A i \in DOMAIN r[p], k \in DOMAIN r[u] : \A j \in DOMAIN q[s] :
        <<p, i, s, j>> \in came /\ <<u, k, s, j>> \in came => p = u /\ i = k
  BY <1>4
<1>6. \A p \in Places : \A i \in DOMAIN r[p] : \E s \in Places : \E j \in DOMAIN q[s] :
        r[p][i] = q[s][j] /\ <<p, i, s, j>> \in came
  BY <1>3
<1>7. QED
  BY <1>5, <1>6, OriginKeeps

LEMMA EmptiedKeeps ==
  ASSUME NEW S, NEW q \in Queues(S), NEW from \in Places, NEW r \in Queues(S),
         IsEmptied(q, r, from), AloneIn(q)
  PROVE  AloneIn(r) /\ \A m : HeldIn(r, m) => HeldIn(q, m)
<1>1. DOMAIN r[from] = {}
  BY Lengths DEF IsEmptied
<1>2. \A p \in Places : \A i \in DOMAIN r[p] : r[p] = q[p]
  BY <1>1 DEF IsEmptied
<1>3. QED
  BY <1>2 DEF AloneIn, HeldIn

LEMMA PutBackKeeps ==
  ASSUME NEW S, NEW q \in Queues(S), NEW from \in Places, NEW to \in Places,
         from # to, q[from] # <<>>, NEW r \in Queues(S), IsPutBack(q, r, from, to), AloneIn(q)
  PROVE  AloneIn(r) /\ \A m : HeldIn(r, m) => HeldIn(q, m)
<1> DEFINE origin(p, i, s, j) ==
             \/ p = from /\ s = from /\ j = i + 1
             \/ p = to /\ i = 1 /\ s = from /\ j = 1
             \/ p = to /\ i > 1 /\ s = to /\ j = i - 1
             \/ p \notin {from, to} /\ s = p /\ j = i
           came == {x \in Places \X Nat \X Places \X Nat : origin(x[1], x[2], x[3], x[4])}
<1>1. \A p \in Places : /\ Len(q[p]) \in Nat /\ DOMAIN q[p] = 1 .. Len(q[p])
                        /\ Len(r[p]) \in Nat /\ DOMAIN r[p] = 1 .. Len(r[p])
  BY Lengths
<1>2. Len(q[from]) > 0
  BY <1>1, Lengths
<1>3. ASSUME NEW p \in Places, NEW i \in DOMAIN r[p]
      PROVE  \E s \in Places : \E j \in DOMAIN q[s] :
               r[p][i] = q[s][j] /\ <<p, i, s, j>> \in came
  <2>1. \E s \in Places : \E j \in DOMAIN q[s] : r[p][i] = q[s][j] /\ origin(p, i, s, j)
    <3>1. CASE p = from
      <4>1. i \in 1 .. Len(r[from]) /\ Len(r[from]) = Len(q[from]) - 1
        BY <1>1, <3>1 DEF IsPutBack
      <4>2. i + 1 \in DOMAIN q[from]
        BY <1>1, <4>1
      <4>3. r[from][i] = q[from][i + 1]
        BY <4>1 DEF IsPutBack
      <4>4. QED
        BY <3>1, <4>2, <4>3
    <3>2. CASE p = to /\ i = 1
      BY <1>1, <1>2, <3>2 DEF IsPutBack
    <3>3. CASE p = to /\ i > 1
      <4>1. i \in 2 .. Len(r[to]) /\ Len(r[to]) = Len(q[to]) + 1
        BY <1>1, <3>3 DEF IsPutBack
      <4>2. i - 1 \in DOMAIN q[to]
        BY <1>1, <4>1
      <4>3. r[to][i] = q[to][i - 1]
        BY <4>1 DEF IsPutBack
      <4>4. QED
        BY <3>3, <4>2, <4>3
    <3>4. CASE p \notin {from, to}
      BY <1>1, <3>4 DEF IsPutBack
    <3>5. QED
      BY <1>1, <3>1, <3>2, <3>3, <3>4
  <2>2. i \in Nat /\ \A s \in Places : DOMAIN q[s] \subseteq Nat
    BY <1>1
  <2> HIDE DEF origin
  <2>3. PICK s \in Places : \E j \in DOMAIN q[s] : r[p][i] = q[s][j] /\ origin(p, i, s, j)
    BY <2>1
  <2>4. PICK j \in DOMAIN q[s] : r[p][i] = q[s][j] /\ origin(p, i, s, j)
    BY <2>3
  <2>5. <<p, i, s, j>> \in came
    BY <2>2, <2>3, <2>4
  <2> HIDE DEF came
  <2>6. QED
    BY <2>3, <2>4, <2>5
<1>4. ASSUME NEW p \in Places, NEW u \in Places, NEW s \in Places,
             NEW i \in DOMAIN r[p], NEW k \in DOMAIN r[u], NEW j \in DOMAIN q[s],
             <<p, i, s, j>> \in came, <<u, k, s, j>> \in came
      PROVE  p = u /\ i = k
  <2>1. origin(p, i, s, j) /\ origin(u, k, s, j)
    BY <1>4
  <2> HIDE DEF came
  <2>2. QED
    BY <1>1, <2>1
<1> HIDE DEF came
<1>5. \A p, u, s \in Places : \A i \in DOMAIN r[p], k \in DOMAIN r[u] : \A j \in DOMAIN q[s] :
        <<p, i, s, j>> \in came /\ <<u, k, s, j>> \in came => p = u /\ i = k
  BY <1>4
<1>6. \A p \in Places : \A i \in DOMAIN r[p] : \E s \in Places : \E j \in DOMAIN q[s] :
        r[p][i] = q[s][j] /\ <<p, i, s, j>> \in came
  BY <1>3
<1>7. QED
  BY <1>5, <1>6, OriginKeeps

\* The message that is taken away is nowhere else.
LEMMA DiscardedIsGone ==
  ASSUME NEW S, NEW q \in Queues(S), NEW from \in Places, q[from] # <<>>,
         NEW r \in Queues(S), IsDiscard(q, r, from), AloneIn(q)
  PROVE  HeldIn(q, q[from][1]) /\ ~HeldIn(r, q[from][1])
<1>1. \A p \in Places : /\ Len(q[p]) \in Nat /\ DOMAIN q[p] = 1 .. Len(q[p])
                        /\ Len(r[p]) \in Nat /\ DOMAIN r[p] = 1 .. Len(r[p])
  BY Lengths
<1>2. 1 \in DOMAIN q[from]
  BY <1>1, Lengths
<1>3. ASSUME NEW p \in Places, NEW i \in DOMAIN r[p]
      PROVE  r[p][i] # q[from][1]
  <2>1. CASE p = from
    <3>1. i \in 1 .. Len(r[from]) /\ Len(r[from]) = Len(q[from]) - 1
      BY <1>1, <2>1 DEF IsDiscard
    <3>2. i + 1 \in DOMAIN q[from] /\ i + 1 # 1
      BY <1>1, <3>1
    <3>3. r[from][i] = q[from][i + 1]
      BY <3>1 DEF IsDiscard
    <3>4. QED
      BY <1>2, <2>1, <3>2, <3>3 DEF AloneIn
  <2>2. CASE p # from
    <3>1. r[p] = q[p]
      BY <2>2 DEF IsDiscard
    <3>2. QED
      BY <1>2, <2>2, <3>1 DEF AloneIn
  <2>3. QED
    BY <2>1, <2>2
<1>4. QED
  BY <1>2, <1>3 DEF HeldIn

LEMMA JoinsKeeps ==
  ASSUME NEW S, NEW T, NEW q \in Queues(S), NEW to \in Places, NEW e,
         NEW r \in Queues(T), IsJoin(q, r, to, e), AloneIn(q), ~HeldIn(q, e)
  PROVE  AloneIn(r) /\ \A m : HeldIn(r, m) => HeldIn(q, m) \/ m = e
<1>1. \A p \in Places : /\ Len(q[p]) \in Nat /\ DOMAIN q[p] = 1 .. Len(q[p])
                        /\ Len(r[p]) \in Nat /\ DOMAIN r[p] = 1 .. Len(r[p])
  BY Lengths
<1> DEFINE new(p, i) == p = to /\ i = Len(q[to]) + 1
<1>2. ASSUME NEW p \in Places, NEW i \in DOMAIN r[p]
      PROVE  IF new(p, i) THEN r[p][i] = e
             ELSE i \in DOMAIN q[p] /\ r[p][i] = q[p][i] /\ r[p][i] # e
  <2>1. CASE new(p, i)
    BY <2>1 DEF IsJoin
  <2>2. CASE ~new(p, i)
    <3>1. i \in DOMAIN q[p] /\ r[p][i] = q[p][i]
      BY <1>1, <2>2 DEF IsJoin
    <3>2. QED
      BY <2>2, <3>1 DEF HeldIn
  <2>3. QED
    BY <2>1, <2>2
<1>3. ASSUME NEW p \in Places, NEW s \in Places, NEW i \in DOMAIN r[p], NEW j \in DOMAIN r[s],
             r[p][i] = r[s][j]
      PROVE  p = s /\ i = j
  <2>1. CASE new(p, i) \/ new(s, j)
    BY <1>2, <1>3, <2>1
  <2>2. CASE ~new(p, i) /\ ~new(s, j)
    BY <1>2, <1>3, <2>2 DEF AloneIn
  <2>3. QED
    BY <2>1, <2>2
<1>4. AloneIn(r)
  BY <1>3 DEF AloneIn
<1>5. ASSUME NEW m, HeldIn(r, m)
      PROVE  HeldIn(q, m) \/ m = e
  <2>1. PICK p \in Places : \E i \in DOMAIN r[p] : r[p][i] = m
    BY <1>5 DEF HeldIn
  <2>2. PICK i \in DOMAIN r[p] : r[p][i] = m
    BY <2>1
  <2>3. QED
    BY <1>2, <2>1, <2>2 DEF HeldIn
<1>6. QED
  BY <1>4, <1>5

-------------------------------------------------------------------------------
(* Messages, and the effect of a step on them and on the queues            *)

DataOK ==
  /\ message \in Seq(Message) /\ Len(message) <= MaxMessages
  /\ queue \in Queues(Messages)
  /\ acked \in [Topics -> Seq(Messages)] /\ abandoned \subseteq Messages

\* What reports changes, and serialization, is no other part of any message.
SameIdentities ==
  /\ message' \in Seq(Message) /\ Len(message') = Len(message)
  /\ \A i \in Messages : /\ message'[i].topic = message[i].topic
                         /\ message'[i].posted = message[i].posted

LEMMA MessageAt ==
  ASSUME message \in Seq(Message)
  PROVE  /\ Len(message) \in Nat /\ DOMAIN message = Messages
         /\ \A i \in Messages : message[i] \in Message
  BY LenProperties, ElementOfSeq DEF Messages

LEMMA ReportFacts ==
  ASSUME message \in Seq(Message), NEW m \in Messages, Report(m)
  PROVE  /\ SameIdentities
         /\ \A i \in Messages : message'[i].reports = message[i].reports + (IF i = m THEN 1 ELSE 0)
<1>1. /\ message' = [message EXCEPT ![m].reports = @ + 1]
      /\ \A i \in Messages : message[i] \in Message
      /\ DOMAIN message = Messages /\ Len(message) \in Nat
  BY MessageAt DEF Report
<1> DEFINE e == [message[m] EXCEPT !.reports = @ + 1]
<1>2. e \in Message /\ message' = [message EXCEPT ![m] = e]
  <2>1. message[m] \in Message /\ message' = [message EXCEPT ![m] = e]
    BY <1>1
  <2>2. message[m].reports + 1 \in Nat
    BY <2>1 DEF Message
  <2>3. e \in Message
    BY <2>1, <2>2 DEF Message
  <2>4. QED
    BY <2>1, <2>3
<1>3. /\ message' \in Seq(Message) /\ Len(message') = Len(message)
      /\ \A i \in Messages : message'[i] = IF i = m THEN e ELSE message[i]
  BY <1>1, <1>2, ExceptSeq DEF Messages
<1>4. \A i \in Messages : message[i].reports \in Nat
  BY <1>1 DEF Message
<1>5. /\ e.reports = message[m].reports + 1
      /\ e.topic = message[m].topic /\ e.posted = message[m].posted
  BY <1>1 DEF Message
<1> HIDE DEF e
<1>6. QED
  BY <1>3, <1>4, <1>5 DEF SameIdentities

LEMMA SerializedFacts ==
  ASSUME message \in Seq(Message), NEW m \in Messages, NEW outcome \in {"ready", "failed"},
         Serialized(m, outcome)
  PROVE  /\ SameIdentities
         /\ \A i \in Messages : message'[i].reports = message[i].reports
<1>1. /\ message' = [message EXCEPT ![m].builder = outcome]
      /\ \A i \in Messages : message[i] \in Message
      /\ DOMAIN message = Messages
  BY MessageAt DEF Serialized
<1> DEFINE e == [message[m] EXCEPT !.builder = outcome]
<1>2. e \in Message /\ message' = [message EXCEPT ![m] = e]
  <2>1. message[m] \in Message
    BY <1>1
  <2>2. QED
    BY <1>1, <2>1 DEF Message
<1>3. /\ message' \in Seq(Message) /\ Len(message') = Len(message)
      /\ \A i \in Messages : message'[i] = IF i = m THEN e ELSE message[i]
  BY <1>1, <1>2, ExceptSeq DEF Messages
<1>4. /\ e.reports = message[m].reports
      /\ e.topic = message[m].topic /\ e.posted = message[m].posted
  BY <1>1 DEF Message
<1> HIDE DEF e
<1>5. QED
  BY <1>3, <1>4 DEF SameIdentities

LEMMA NewMessageFacts ==
  ASSUME message \in Seq(Message), NEW t \in Topics, NEW posted \in BOOLEAN,
         NEW builder \in {"running", "ready", "failed"}, NewMessage(t, posted, builder)
  PROVE  /\ message' \in Seq(Message) /\ Len(message') = Len(message) + 1
         /\ Len(message') <= MaxMessages
         /\ \A i \in Messages : message'[i] = message[i]
         /\ message'[Len(message) + 1].topic = t
         /\ message'[Len(message) + 1].posted = posted
         /\ message'[Len(message) + 1].reports = 0
<1> DEFINE e == [topic |-> t, posted |-> posted, builder |-> builder, reports |-> 0]
<1>1. e \in Message /\ message' = Append(message, e) /\ Len(message) < MaxMessages
  BY DEF Message, NewMessage
<1>2. e.topic = t /\ e.posted = posted /\ e.reports = 0
  OBVIOUS
<1> HIDE DEF e
<1>3. /\ message' \in Seq(Message) /\ Len(message') = Len(message) + 1
      /\ \A i \in 1 .. Len(message) : message'[i] = message[i]
      /\ message'[Len(message) + 1] = e
  BY <1>1, AtEnd
<1>4. Len(message) \in Nat /\ MaxMessages \in Nat
  BY MessageAt, ProducerAssumption
<1>5. QED
  BY <1>1, <1>2, <1>3, <1>4 DEF Messages

SameReports == \A i \in Messages : message'[i].reports = message[i].reports

QueuesStay == queue' = queue /\ SameIdentities /\ SameReports

\* To an ordered topic's Outbound only when that is empty, until a shutdown().
MessageMoves ==
  /\ message' = message /\ queue' \in Queues(Messages)
  /\ \E from, to \in Places :
       /\ from # to /\ queue[from] # <<>> /\ IsMove(queue, queue', from, to)
       /\ \A t \in Ordered : to = Outbound(t) => queue[to] = <<>> \/ shuttingDown

QueueTaken ==
  /\ message' = message /\ queue' \in Queues(Messages)
  /\ \E from, to \in Places :
       /\ from # to /\ IsTakeAll(queue, queue', from, to)
       /\ \A t \in Ordered : to # Outbound(t) /\ from # Outbound(t)

QueueDropped ==
  /\ message' = message /\ queue' \in Queues(Messages)
  /\ \E from \in Places : /\ IsEmptied(queue, queue', from)
                          /\ \A t \in Ordered : from # Outbound(t)

MessagePutBack ==
  /\ message' = message /\ queue' \in Queues(Messages)
  /\ \E from, to \in Places :
       /\ from # to /\ queue[from] # <<>> /\ IsPutBack(queue, queue', from, to)
       /\ \A t \in Ordered : to # Outbound(t) /\ from # Outbound(t)

MessageLeaves ==
  /\ SameIdentities /\ queue' \in Queues(Messages)
  /\ \E from \in Places :
       /\ queue[from] # <<>> /\ IsDiscard(queue, queue', from)
       /\ \A i \in Messages :
            \/ message'[i].reports = message[i].reports
            \/ i = queue[from][1] /\ message'[i].reports = message[i].reports + 1

\* Who calls send() puts a message of its own into Outbound.
MessageJoins ==
  /\ message' \in Seq(Message) /\ Len(message') = Len(message) + 1
  /\ Len(message') <= MaxMessages
  /\ \A i \in Messages : message'[i] = message[i]
  /\ message'[Len(message) + 1].reports = 0
  /\ queue' \in Queues(Messages')
  /\ \E to \in Places :
       /\ IsJoin(queue, queue', to, Len(message) + 1)
       /\ \A t \in Topics : to = Outbound(t) => ~message'[Len(message) + 1].posted

Effect ==
  \/ QueuesStay \/ MessageMoves \/ QueueTaken \/ QueueDropped
  \/ MessagePutBack \/ MessageLeaves \/ MessageJoins

LEMMA MoveEffect ==
  ASSUME DataOK, NEW from \in Places, NEW to \in Places, from # to, queue[from] # <<>>,
         Move(from, to)
  PROVE  queue' \in Queues(Messages) /\ IsMove(queue, queue', from, to)
  BY Moved DEF DataOK, Move

LEMMA DiscardEffect ==
  ASSUME DataOK, NEW from \in Places, queue[from] # <<>>, Discard(from)
  PROVE  /\ queue' \in Queues(Messages) /\ IsDiscard(queue, queue', from)
         /\ Head(queue[from]) = queue[from][1] /\ queue[from][1] \in Messages
<1>1. queue \in Queues(Messages)
  BY DEF DataOK
<1>2. /\ queue' \in Queues(Messages) /\ IsDiscard(queue, queue', from)
      /\ Head(queue[from]) = queue[from][1]
  BY <1>1, Discarded DEF Discard
<1>3. queue[from][1] \in Messages
  <2>1. Len(queue[from]) \in Nat \ {0}
    BY <1>1, Lengths
  <2>2. 1 \in 1 .. Len(queue[from])
    BY <2>1
  <2>3. QED
    BY <1>1, <2>2, Lengths
<1>4. QED
  BY <1>2, <1>3

LEMMA TakeAllEffect ==
  ASSUME DataOK, NEW from \in Places, NEW to \in Places, from # to, TakeAll(from, to)
  PROVE  queue' \in Queues(Messages) /\ IsTakeAll(queue, queue', from, to)
  BY Taken DEF DataOK, TakeAll

LEMMA StaysEffect ==
  ASSUME DataOK, queue' = queue, message' = message
  PROVE  QueuesStay
  BY DEF DataOK, QueuesStay, SameIdentities, SameReports

\* A message leaves its queue, reported or not.
LEMMA LeavesEffect ==
  ASSUME DataOK, NEW from \in Places, queue[from] # <<>>, Discard(from),
         Report(Head(queue[from])) \/ UNCHANGED message
  PROVE  MessageLeaves
<1>1. /\ queue' \in Queues(Messages) /\ IsDiscard(queue, queue', from)
      /\ Head(queue[from]) = queue[from][1] /\ queue[from][1] \in Messages
  BY DiscardEffect
<1>2. CASE Report(Head(queue[from]))
  <2>1. Report(queue[from][1])
    BY <1>1, <1>2
  <2>2. SameIdentities
    BY <1>1, <2>1, ReportFacts DEF DataOK
  <2>3. \A i \in Messages :
          \/ message'[i].reports = message[i].reports
          \/ i = queue[from][1] /\ message'[i].reports = message[i].reports + 1
    <3>1. \A i \in Messages : message[i].reports \in Nat
      BY MessageAt DEF DataOK, Message
    <3>2. \A i \in Messages : message'[i].reports =
            message[i].reports + (IF i = queue[from][1] THEN 1 ELSE 0)
      BY <1>1, <2>1, ReportFacts DEF DataOK
    <3>3. QED
      BY <3>1, <3>2
  <2>4. QED
    BY <1>1, <2>2, <2>3 DEF MessageLeaves
<1>3. CASE UNCHANGED message
  BY <1>1, <1>3 DEF MessageLeaves, SameIdentities, DataOK
<1>4. QED
  BY <1>2, <1>3

LEMMA ProduceEffect ==
  ASSUME DataOK, NEW t \in Topics, NEW from \in {TempQueue, IO(t)}, queue[from] # <<>>,
         ProduceMessage(from, t)
  PROVE  MessageMoves \/ MessageLeaves
<1>1. from \in Places /\ Outbound(t) \in Places /\ from # Outbound(t)
      /\ (t \in Ordered => Buffer(t) \in Places /\ from # Buffer(t))
  <2>1. CASE from = IO(t)
    BY <2>1, MyPlaces, PlacesDiffer
  <2>2. CASE from = TempQueue
    BY <2>2, MyPlaces, PlacesDiffer
  <2>3. QED
    BY <2>1, <2>2
<1>2. CASE t \in Ordered /\ Produce(from, t) /\ UNCHANGED message
  <2>1. queue' \in Queues(Messages) /\ IsMove(queue, queue', from, Buffer(t))
    BY <1>1, <1>2, MoveEffect DEF Produce
  <2>2. QED
    BY <1>1, <1>2, <2>1, PlacesDiffer DEF MessageMoves
<1>3. CASE t \notin Ordered /\ Produce(from, t) /\ UNCHANGED message
  <2>1. queue' \in Queues(Messages) /\ IsMove(queue, queue', from, Outbound(t))
    BY <1>1, <1>3, MoveEffect DEF Produce
  <2>2. \A u \in Ordered : Outbound(t) # Outbound(u)
    BY <1>3, PlacesDiffer
  <2>3. QED
    BY <1>1, <1>3, <2>1, <2>2 DEF MessageMoves
<1>4. CASE ProduceThrows(from, t)
  BY <1>1, <1>4, LeavesEffect DEF ProduceThrows
<1>5. QED
  BY <1>2, <1>3, <1>4 DEF ProduceMessage

LEMMA PostNextEffect ==
  ASSUME TypeOK, DataOK, PostNext
  PROVE  MessageMoves \/ MessageLeaves
<1> DEFINE m == Head(queue[TempQueue])
           t == message[m].topic
<1>1. queue[TempQueue] # <<>> /\ TempQueue \in Places
  BY MyPlaces DEF PostNext
<1>2. m \in Messages
  <2>1. queue[TempQueue] \in Seq(Messages)
    BY <1>1 DEF DataOK, Queues
  <2>2. QED
    BY <1>1, <2>1, HeadTailProperties
<1>3. t \in Topics
  BY <1>2, MessageAt DEF DataOK, Message
<1> HIDE DEF m, t
<1>4. IO(t) \in Places /\ TempQueue # IO(t) /\ \A u : IO(t) # Outbound(u)
  BY <1>3, MyPlaces, PlacesDiffer
<1>5. CASE Discard(TempQueue) /\ UNCHANGED message
  BY <1>1, <1>5, LeavesEffect
<1>6. CASE Move(TempQueue, IO(t)) /\ UNCHANGED message
  <2>1. queue' \in Queues(Messages) /\ IsMove(queue, queue', TempQueue, IO(t))
    BY <1>1, <1>4, <1>6, MoveEffect
  <2>2. QED
    BY <1>1, <1>4, <1>6, <2>1 DEF MessageMoves
<1>7. CASE ProduceMessage(TempQueue, t)
  BY <1>1, <1>3, <1>7, ProduceEffect
<1>8. QED
  BY <1>5, <1>6, <1>7 DEF PostNext, m, t

LEMMA JoinEffect ==
  ASSUME DataOK, NEW t \in Topics, NEW posted \in BOOLEAN,
         NEW builder \in {"running", "ready"}, NewMessage(t, posted, builder),
         NEW to \in Places, queue' = [queue EXCEPT ![to] = Append(@, Len(message) + 1)],
         posted => \A u \in Topics : to # Outbound(u)
  PROVE  MessageJoins /\ IsJoin(queue, queue', to, Len(message) + 1)
<1>1. /\ message' \in Seq(Message) /\ Len(message') = Len(message) + 1
      /\ Len(message') <= MaxMessages
      /\ \A i \in Messages : message'[i] = message[i]
      /\ message'[Len(message) + 1].posted = posted
      /\ message'[Len(message) + 1].reports = 0
  BY NewMessageFacts DEF DataOK
<1>2. Len(message) \in Nat
  BY MessageAt DEF DataOK
<1>3. Messages \subseteq Messages' /\ Len(message) + 1 \in Messages'
  BY <1>1, <1>2 DEF Messages
<1>4. queue \in Queues(Messages)
  BY DEF DataOK
<1>5. queue' \in Queues(Messages') /\ IsJoin(queue, queue', to, Len(message) + 1)
  <2>1. PICK S, T, e : S = Messages /\ T = Messages' /\ e = Len(message) + 1
    OBVIOUS
  <2>2. S \subseteq T /\ queue \in Queues(S) /\ e \in T /\ queue' = [queue EXCEPT ![to] = Append(@, e)]
    BY <1>3, <1>4, <2>1
  <2>3. queue' \in Queues(T) /\ IsJoin(queue, queue', to, e)
    BY <2>2, Joins
  <2>4. QED
    BY <2>1, <2>3
<1>6. QED
  BY <1>1, <1>5 DEF MessageJoins

\* The steps that touch neither messages nor queues.
ControlStep ==
  \/ \E p \in Posters : PostThrows(p) \/ \E t \in Topics : CheckQueueLength(p, t)
  \/ PostSleeps \/ PostEndsBatch \/ PostThreadEnds
  \/ \E t \in Ordered : Poll(t) \/ PollTaskEnds(t)
  \/ \E t \in Topics : DrainEnds(t)
  \/ PollThreadEnds \/ EnableMessageFanout
  \/ Shutdown \/ Interrupt \/ JoinThreads \/ DrainDispatcher

LEMMA ControlStays ==
  ASSUME ControlStep
  PROVE  UNCHANGED <<message, queue, acked, abandoned>>
  BY DEF history, ControlStep, PostThrows, CheckQueueLength, PostSleeps, PostEndsBatch,
         PostThreadEnds, Poll, PollTaskEnds, DrainEnds, PollThreadEnds, EnableMessageFanout, Shutdown,
         Interrupt, JoinThreads, DrainDispatcher

LEMMA NextSteps ==
  ASSUME Next
  PROVE  \/ ControlStep
         \/ \E p \in Posters : Post(p)
         \/ \E m \in Messages : \E outcome \in {"ready", "failed"} : Serialized(m, outcome)
         \/ PostSwaps \/ PostNext
         \/ \E t \in Topics : Send(t) \/ IoProduce(t) \/ BrokerAcks(t) \/ BrokerFails(t)
                                \/ DrainProducer(t)
         \/ \E t \in Ordered : PollTask(t) \/ FlushNext(t) \/ FlushThrows(t)
                                 \/ DrainNext(t) \/ DrainRefused(t)
  BY DEF Next, ControlStep

LEMMA PostEffect ==
  ASSUME TypeOK, DataOK, NEW p \in Posters, Post(p)
  PROVE  MessageJoins /\ IsJoin(queue, queue', MessageQueue, Len(message) + 1)
<1>1. poster[p] \in Topics
  BY DEF Post, TypeOK
<1>2. MessageQueue \in Places /\ \A u \in Topics : MessageQueue # Outbound(u)
  BY MyPlaces, PlacesDiffer
<1>3. /\ NewMessage(poster[p], TRUE, "running")
      /\ queue' = [queue EXCEPT ![MessageQueue] = Append(@, Len(message) + 1)]
  BY DEF Post
<1>4. QED
  BY <1>1, <1>2, <1>3, JoinEffect

LEMMA SendEffect ==
  ASSUME DataOK, NEW t \in Topics, Send(t)
  PROVE  MessageJoins /\ IsJoin(queue, queue', Outbound(t), Len(message) + 1)
<1>1. /\ NewMessage(t, FALSE, "ready")
      /\ queue' = [queue EXCEPT ![Outbound(t)] = Append(@, Len(message) + 1)]
  BY DEF Send
<1>2. Outbound(t) \in Places
  BY MyPlaces
<1>3. QED
  BY <1>1, <1>2, JoinEffect

\* A flush or a drain empties a buffer.
LEMMA TakenEffect ==
  ASSUME DataOK, NEW from \in Places, NEW to \in Places, from # to, TakeAll(from, to),
         \A u \in Topics : to # Outbound(u) /\ from # Outbound(u), UNCHANGED message
  PROVE  QueueTaken /\ IsTakeAll(queue, queue', from, to)
<1>1. queue' \in Queues(Messages) /\ IsTakeAll(queue, queue', from, to)
  BY TakeAllEffect
<1>2. Ordered \subseteq Topics
  BY ProducerAssumption
<1>3. QED
  BY <1>1, <1>2 DEF QueueTaken

LEMMA FlushThrowsEffect ==
  ASSUME DataOK, NEW t \in Ordered, FlushThrows(t)
  PROVE  QueueDropped /\ IsEmptied(queue, queue', Flush(t))
<1>1. Flush(t) \in Places /\ \A u \in Ordered : Flush(t) # Outbound(u)
  BY MyPlaces, PlacesDiffer
<1>2. message' = message /\ queue' = [queue EXCEPT ![Flush(t)] = <<>>]
  BY DEF FlushThrows
<1>3. queue' \in Queues(Messages) /\ IsEmptied(queue, queue', Flush(t))
  BY <1>1, <1>2, Emptied DEF DataOK
<1>4. QED
  BY <1>1, <1>2, <1>3 DEF QueueDropped

LEMMA MovesEffect ==
  ASSUME DataOK, NEW from \in Places, NEW to \in Places, from # to, queue[from] # <<>>,
         Move(from, to), UNCHANGED message, queue[to] = <<>> \/ shuttingDown
  PROVE  MessageMoves /\ IsMove(queue, queue', from, to)
<1>1. queue' \in Queues(Messages) /\ IsMove(queue, queue', from, to)
  BY MoveEffect
<1>2. QED
  BY <1>1 DEF MessageMoves

LEMMA DrainRefusedEffect ==
  ASSUME DataOK, NEW t \in Ordered, DrainRefused(t)
  PROVE  MessagePutBack \/ MessageLeaves
<1>1. /\ Drain(t) \in Places /\ Buffer(t) \in Places /\ Drain(t) # Buffer(t)
      /\ \A u \in Ordered : Buffer(t) # Outbound(u) /\ Drain(t) # Outbound(u)
  BY MyPlaces, PlacesDiffer
<1>2. queue[Drain(t)] # <<>>
  BY DEF DrainRefused
<1>3. CASE /\ queue' = [queue EXCEPT ![Drain(t)] = Tail(@),
                                    ![Buffer(t)] = <<Head(queue[Drain(t)])>> \o @]
           /\ UNCHANGED message
  <2>1. queue' \in Queues(Messages) /\ IsPutBack(queue, queue', Drain(t), Buffer(t))
    BY <1>1, <1>2, <1>3, PutBack DEF DataOK
  <2>2. QED
    BY <1>1, <1>2, <1>3, <2>1 DEF MessagePutBack
<1>4. CASE Discard(Drain(t)) /\ Report(Head(queue[Drain(t)]))
  BY <1>1, <1>2, <1>4, LeavesEffect
<1>5. QED
  BY <1>3, <1>4 DEF DrainRefused

LEMMA StepEffect ==
  ASSUME TypeOK, DataOK, Next
  PROVE  Effect
<1>1. CASE ControlStep
  BY <1>1, ControlStays, StaysEffect DEF Effect
<1>2. ASSUME NEW p \in Posters, Post(p)
      PROVE  Effect
  BY <1>2, PostEffect DEF Effect
<1>3. ASSUME NEW m \in Messages, NEW outcome \in {"ready", "failed"}, Serialized(m, outcome)
      PROVE  Effect
  BY <1>3, SerializedFacts DEF Effect, QueuesStay, SameReports, Serialized, DataOK
<1>4. CASE PostSwaps
  <2>1. /\ MessageQueue \in Places /\ TempQueue \in Places /\ MessageQueue # TempQueue
        /\ \A u \in Topics : MessageQueue # Outbound(u) /\ TempQueue # Outbound(u)
    BY MyPlaces, PlacesDiffer
  <2>2. QED
    BY <1>4, <2>1, TakenEffect DEF Effect, PostSwaps
<1>5. CASE PostNext
  BY <1>5, PostNextEffect DEF Effect
<1>6. ASSUME NEW t \in Topics, Send(t)
      PROVE  Effect
  BY <1>6, SendEffect DEF Effect
<1>7. ASSUME NEW t \in Topics, IoProduce(t)
      PROVE  Effect
  BY <1>7, ProduceEffect DEF Effect, IoProduce
<1>8. ASSUME NEW t \in Topics, BrokerAcks(t) \/ BrokerFails(t)
      PROVE  Effect
  BY <1>8, LeavesEffect, MyPlaces DEF Effect, BrokerAcks, BrokerFails
<1>9. ASSUME NEW t \in Topics, DrainProducer(t)
      PROVE  Effect
  <2>1. CASE t \in Ordered
    <3>1. /\ Buffer(t) \in Places /\ Drain(t) \in Places /\ Buffer(t) # Drain(t)
          /\ \A u \in Topics : Buffer(t) # Outbound(u) /\ Drain(t) # Outbound(u)
      BY <2>1, MyPlaces, PlacesDiffer
    <3>2. QED
      BY <1>9, <2>1, <3>1, TakenEffect DEF Effect, DrainProducer
  <2>2. CASE t \notin Ordered
    BY <1>9, <2>2, StaysEffect DEF Effect, DrainProducer
  <2>3. QED
    BY <2>1, <2>2
<1>10. ASSUME NEW t \in Ordered, PollTask(t)
       PROVE  Effect
  <2>1. /\ Buffer(t) \in Places /\ Flush(t) \in Places /\ Buffer(t) # Flush(t)
        /\ \A u \in Topics : Buffer(t) # Outbound(u) /\ Flush(t) # Outbound(u)
    BY MyPlaces, PlacesDiffer
  <2>2. QED
    BY <1>10, <2>1, TakenEffect DEF Effect, PollTask
<1>11. ASSUME NEW t \in Ordered, FlushNext(t)
       PROVE  Effect
  <2>1. /\ Flush(t) \in Places /\ Outbound(t) \in Places /\ Flush(t) # Outbound(t)
    BY MyPlaces, PlacesDiffer
  <2>2. QED
    BY <1>11, <2>1, MovesEffect DEF Effect, FlushNext, AcksAwaited
<1>12. ASSUME NEW t \in Ordered, DrainNext(t)
       PROVE  Effect
  <2>1. /\ Drain(t) \in Places /\ Outbound(t) \in Places /\ Drain(t) # Outbound(t)
    BY MyPlaces, PlacesDiffer
  <2>2. shuttingDown
    <3>1. queue[Drain(t)] # <<>> /\ t \in Topics
      BY <1>12, ProducerAssumption DEF DrainNext
    <3>2. closing[t] = "draining"
      BY <3>1 DEF TypeOK
    <3>3. closing[t] # "todo"
      BY <3>2
    <3>4. QED
      BY <3>1, <3>3 DEF TypeOK
  <2>3. QED
    BY <1>12, <2>1, <2>2, MovesEffect DEF Effect, DrainNext
<1>13. ASSUME NEW t \in Ordered, DrainRefused(t)
       PROVE  Effect
  BY <1>13, DrainRefusedEffect DEF Effect
<1>14. ASSUME NEW t \in Ordered, FlushThrows(t)
       PROVE  Effect
  BY <1>14, FlushThrowsEffect DEF Effect
<1>15. QED
  BY <1>1, <1>2, <1>3, <1>4, <1>5, <1>6, <1>7, <1>8, <1>9, <1>10, <1>11, <1>12, <1>13,
     <1>14, NextSteps

LEMMA TypeImpliesData == TypeOK => DataOK
  BY DEF TypeOK, DataOK, Queues

\* Messages and queues keep their types; messages are only added.
LEMMA EffectTypes ==
  ASSUME DataOK, Effect
  PROVE  /\ message' \in Seq(Message) /\ Len(message') <= MaxMessages
         /\ queue' \in Queues(Messages')
         /\ Len(message) \in Nat /\ Len(message') \in Nat /\ Messages \subseteq Messages'
<1>1. Len(message) \in Nat /\ Len(message) <= MaxMessages
  BY MessageAt DEF DataOK
<1>2. CASE Len(message') = Len(message) /\ message' \in Seq(Message) /\ queue' \in Queues(Messages)
  <2>1. Messages' = Messages
    BY <1>2 DEF Messages
  <2>2. QED
    BY <1>1, <1>2, <2>1
<1>3. CASE MessageJoins
  BY <1>1, <1>3 DEF MessageJoins, Messages
<1>4. QED
  BY <1>2, <1>3
     DEF Effect, QueuesStay, MessageMoves, QueueTaken, QueueDropped, MessagePutBack,
         MessageLeaves, SameIdentities, DataOK

\* The reports that each message may have had.
Unreported ==
  \A m \in Messages : message[m].reports <= IF HeldIn(queue, m) THEN 0 ELSE 1

LEMMA OneOwnerParts == OneOwner <=> AloneIn(queue) /\ Unreported
  BY DEF OneOwner, AloneIn, Unreported, Waiting, HeldIn

LEMMA OneOwnerKept ==
  ASSUME TypeOK, OneOwner, Next
  PROVE  OneOwner'
<1>1. DataOK /\ AloneIn(queue) /\ Unreported
  BY TypeImpliesData, OneOwnerParts
<1>2. Effect
  BY <1>1, StepEffect
<1>3. queue \in Queues(Messages) /\ \A m \in Messages : message[m].reports \in Nat
  BY <1>1, MessageAt DEF DataOK, Message
<1>4. ASSUME Len(message') = Len(message), SameReports, AloneIn(queue'),
             \A m : HeldIn(queue', m) => HeldIn(queue, m)
      PROVE  OneOwner'
  <2>1. Messages' = Messages
    BY <1>4 DEF Messages
  <2>2. ASSUME NEW m \in Messages
        PROVE  message'[m].reports <= IF HeldIn(queue', m) THEN 0 ELSE 1
    <3>1. message[m].reports <= IF HeldIn(queue, m) THEN 0 ELSE 1
      BY <1>1 DEF Unreported
    <3>2. message'[m].reports = message[m].reports /\ message[m].reports \in Nat
      BY <1>3, <1>4 DEF SameReports
    <3>3. HeldIn(queue', m) => HeldIn(queue, m)
      BY <1>4
    <3>4. QED
      BY <3>1, <3>2, <3>3
  <2>3. Unreported'
    BY <2>1, <2>2 DEF Unreported, HeldIn
  <2>4. AloneIn(queue)'
    BY <1>4 DEF AloneIn
  <2>5. QED
    BY <2>3, <2>4, OneOwnerParts DEF OneOwner, AloneIn, Unreported, Waiting, HeldIn
<1>5. CASE QueuesStay
  BY <1>1, <1>4, <1>5 DEF QueuesStay, SameIdentities
<1>6. CASE MessageMoves
  <2>1. AloneIn(queue') /\ \A m : HeldIn(queue', m) => HeldIn(queue, m)
    BY <1>1, <1>3, <1>6, MovedKeeps DEF MessageMoves
  <2>2. QED
    BY <1>4, <1>6, <2>1 DEF MessageMoves, SameReports
<1>7. CASE QueueTaken
  <2>1. AloneIn(queue') /\ \A m : HeldIn(queue', m) => HeldIn(queue, m)
    BY <1>1, <1>3, <1>7, TakenKeeps DEF QueueTaken
  <2>2. QED
    BY <1>4, <1>7, <2>1 DEF QueueTaken, SameReports
<1>8. CASE MessagePutBack
  <2>1. AloneIn(queue') /\ \A m : HeldIn(queue', m) => HeldIn(queue, m)
    BY <1>1, <1>3, <1>8, PutBackKeeps DEF MessagePutBack
  <2>2. QED
    BY <1>4, <1>8, <2>1 DEF MessagePutBack, SameReports
<1>9. CASE MessageLeaves
  <2>1. PICK from \in Places :
          /\ queue[from] # <<>> /\ IsDiscard(queue, queue', from)
          /\ \A i \in Messages :
               \/ message'[i].reports = message[i].reports
               \/ i = queue[from][1] /\ message'[i].reports = message[i].reports + 1
    BY <1>9 DEF MessageLeaves
  <2>2. queue' \in Queues(Messages) /\ Messages' = Messages
    BY <1>9 DEF MessageLeaves, SameIdentities, Messages
  <2>3. AloneIn(queue') /\ \A m : HeldIn(queue', m) => HeldIn(queue, m)
    BY <1>1, <1>3, <2>1, <2>2, DiscardedKeeps
  <2>4. HeldIn(queue, queue[from][1]) /\ ~HeldIn(queue', queue[from][1])
    BY <1>1, <1>3, <2>1, <2>2, DiscardedIsGone
  <2>5. ASSUME NEW m \in Messages
        PROVE  message'[m].reports <= IF HeldIn(queue', m) THEN 0 ELSE 1
    <3>1. message[m].reports <= IF HeldIn(queue, m) THEN 0 ELSE 1
      BY <1>1 DEF Unreported
    <3>2. message[m].reports \in Nat
      BY <1>3
    <3>3. CASE message'[m].reports = message[m].reports
      BY <2>3, <3>1, <3>2, <3>3
    <3>4. CASE m = queue[from][1] /\ message'[m].reports = message[m].reports + 1
      BY <2>4, <3>1, <3>2, <3>4
    <3>5. QED
      BY <2>1, <3>3, <3>4
  <2>6. Unreported'
    BY <2>2, <2>5 DEF Unreported, HeldIn
  <2>7. QED
    BY <2>3, <2>6 DEF OneOwner, AloneIn, Unreported, Waiting, HeldIn
<1>10. CASE MessageJoins
  <2> DEFINE n == Len(message) + 1
  <2>1. PICK to \in Places : IsJoin(queue, queue', to, n)
    BY <1>10 DEF MessageJoins
  <2>2. n \notin Messages /\ Messages' = Messages \union {n}
    <3>1. Len(message) \in Nat /\ Len(message') = Len(message) + 1
      BY <1>1, <1>10, MessageAt DEF MessageJoins, DataOK
    <3>2. QED
      BY <3>1 DEF Messages
  <2>3. ~HeldIn(queue, n)
    BY <1>3, <2>2, Lengths DEF HeldIn
  <2>4. queue' \in Queues(Messages')
    BY <1>10 DEF MessageJoins
  <2> HIDE DEF n
  <2>5. AloneIn(queue') /\ \A m : HeldIn(queue', m) => HeldIn(queue, m) \/ m = n
    BY <1>1, <1>3, <2>1, <2>3, <2>4, JoinsKeeps
  <2>6. ASSUME NEW m \in Messages'
        PROVE  message'[m].reports <= IF HeldIn(queue', m) THEN 0 ELSE 1
    <3>1. CASE m = n
      BY <1>10, <3>1 DEF MessageJoins, n
    <3>2. CASE m # n
      <4>1. m \in Messages /\ message'[m] = message[m]
        BY <1>10, <2>2, <3>2 DEF MessageJoins
      <4>2. message[m].reports <= IF HeldIn(queue, m) THEN 0 ELSE 1
        BY <1>1, <4>1 DEF Unreported
      <4>3. message[m].reports \in Nat /\ (HeldIn(queue', m) => HeldIn(queue, m))
        BY <1>3, <2>5, <3>2, <4>1
      <4>4. QED
        BY <4>1, <4>2, <4>3
    <3>3. QED
      BY <3>1, <3>2
  <2>7. QED
    BY <2>5, <2>6 DEF OneOwner, AloneIn, Waiting, HeldIn
<1>11. CASE QueueDropped
  <2>1. AloneIn(queue') /\ \A m : HeldIn(queue', m) => HeldIn(queue, m)
    BY <1>1, <1>3, <1>11, EmptiedKeeps DEF QueueDropped
  <2>2. QED
    BY <1>4, <1>11, <2>1 DEF QueueDropped, SameReports
<1>12. QED
  BY <1>2, <1>5, <1>6, <1>7, <1>8, <1>9, <1>10, <1>11 DEF Effect

-------------------------------------------------------------------------------
(* One in flight                                                           *)

LEMMA ShutdownIsForGood ==
  ASSUME Next
  PROVE  shuttingDown => shuttingDown'
<1>1. CASE ControlStep
  BY <1>1 DEF ControlStep, PostThrows, CheckQueueLength, PostSleeps, PostEndsBatch,
     PostThreadEnds, Poll, PollTaskEnds, DrainEnds, PollThreadEnds, EnableMessageFanout,
     Shutdown, Interrupt, JoinThreads, DrainDispatcher, closeVars
<1>2. CASE ~ControlStep
  BY <1>2, NextSteps DEF Post, Serialized, PostSwaps, PostNext, Send, IoProduce, BrokerAcks,
     BrokerFails, DrainProducer, PollTask, FlushNext, FlushThrows, DrainNext, DrainRefused,
     closeVars
<1>3. QED
  BY <1>1, <1>2

\* One topic's Outbound has one posted message, if any.
OnePostedIn(box, msg) ==
  \A i, j \in DOMAIN box : msg[box[i]].posted /\ msg[box[j]].posted => i = j

LEMMA OneInFlightParts ==
  OneInFlight <=> (~shuttingDown => \A t \in Ordered : OnePostedIn(queue[Outbound(t)], message))
  BY DEF OneInFlight, OnePostedIn, Posted

LEMMA PostedStay ==
  ASSUME NEW box, NEW new, NEW msg, NEW newMsg, OnePostedIn(box, msg),
         \A i \in DOMAIN new : newMsg[new[i]].posted => i \in DOMAIN box /\ msg[box[i]].posted
  PROVE  OnePostedIn(new, newMsg)
  BY DEF OnePostedIn

LEMMA PostedAdvance ==
  ASSUME NEW box, NEW new, NEW msg, NEW newMsg, OnePostedIn(box, msg), DOMAIN new \subseteq Nat,
         \A i \in DOMAIN new :
           newMsg[new[i]].posted => i + 1 \in DOMAIN box /\ msg[box[i + 1]].posted
  PROVE  OnePostedIn(new, newMsg)
<1>1. ASSUME NEW i \in DOMAIN new, NEW j \in DOMAIN new,
             newMsg[new[i]].posted, newMsg[new[j]].posted
      PROVE  i = j
  <2>1. /\ i + 1 \in DOMAIN box /\ msg[box[i + 1]].posted
        /\ j + 1 \in DOMAIN box /\ msg[box[j + 1]].posted
    BY <1>1
  <2>2. i + 1 = j + 1 /\ i \in Nat /\ j \in Nat
    BY <2>1 DEF OnePostedIn
  <2>3. QED
    BY <2>2
<1>2. QED
  BY <1>1 DEF OnePostedIn

LEMMA OneInFlightKept ==
  ASSUME TypeOK, OneInFlight, Next
  PROVE  OneInFlight'
<1>1. DataOK /\ Effect /\ (shuttingDown => shuttingDown')
  BY TypeImpliesData, StepEffect, ShutdownIsForGood
<1> SUFFICES ASSUME ~shuttingDown', NEW t \in Ordered
             PROVE  OnePostedIn(queue'[Outbound(t)], message')
  BY DEF OneInFlight, OnePostedIn, Posted
<1>2. PICK p, box, new : p = Outbound(t) /\ box = queue[p] /\ new = queue'[p]
  OBVIOUS
<1>3. p \in Places /\ t \in Topics /\ OnePostedIn(box, message) /\ ~shuttingDown
  BY <1>1, <1>2, OneInFlightParts, MyPlaces
<1>4. /\ Len(box) \in Nat /\ DOMAIN box = 1 .. Len(box) /\ (box = <<>> => Len(box) = 0)
      /\ \A i \in DOMAIN box : box[i] \in Messages
  <2>1. queue \in Queues(Messages)
    BY <1>1 DEF DataOK
  <2>2. QED
    BY <1>2, <1>3, <2>1, Lengths
<1>5. Len(new) \in Nat /\ DOMAIN new = 1 .. Len(new)
  <2>1. PICK T : T = Messages'
    OBVIOUS
  <2>2. queue' \in Queues(T)
    BY <1>1, <2>1, EffectTypes
  <2>3. QED
    BY <1>2, <1>3, <2>2, Lengths
<1>6. ASSUME new = box, \A i \in Messages : message'[i].posted = message[i].posted
      PROVE  OnePostedIn(new, message')
  <2>1. \A i \in DOMAIN new : message'[new[i]].posted = message[box[i]].posted
    BY <1>4, <1>6
  <2>2. QED
    BY <1>3, <1>6, <2>1, PostedStay
<1>7. ASSUME Len(new) = Len(box) - 1, \A i \in 1 .. Len(new) : new[i] = box[i + 1],
             \A i \in Messages : message'[i].posted = message[i].posted
      PROVE  OnePostedIn(new, message')
  <2>1. \A i \in DOMAIN new : i + 1 \in DOMAIN box
    BY <1>4, <1>5, <1>7
  <2>2. \A i \in DOMAIN new : message'[new[i]].posted = message[box[i + 1]].posted
    BY <1>4, <1>5, <1>7, <2>1
  <2>3. QED
    BY <1>3, <1>5, <2>1, <2>2, PostedAdvance
<1>8. CASE QueuesStay
  BY <1>2, <1>6, <1>8 DEF QueuesStay, SameIdentities
<1>9. CASE MessageMoves
  <2>1. PICK from \in Places, to \in Places :
          /\ from # to /\ queue[from] # <<>> /\ IsMove(queue, queue', from, to)
          /\ \A u \in Ordered : to = Outbound(u) => queue[to] = <<>> \/ shuttingDown
    BY <1>9 DEF MessageMoves
  <2>2. message' = message
    BY <1>9 DEF MessageMoves
  <2>3. CASE p = to
    <3>1. box = <<>> /\ Len(new) = Len(box) + 1
      BY <1>2, <1>3, <2>1, <2>3 DEF IsMove
    <3>2. \A i \in DOMAIN new : i = 1
      BY <1>4, <1>5, <3>1
    <3>3. QED
      BY <1>2, <3>2 DEF OnePostedIn
  <2>4. CASE p = from
    BY <1>2, <1>7, <2>1, <2>2, <2>4 DEF IsMove
  <2>5. CASE p \notin {from, to}
    BY <1>2, <1>3, <1>6, <2>1, <2>2, <2>5 DEF IsMove
  <2>6. QED
    BY <2>3, <2>4, <2>5
<1>10. CASE QueueTaken
  BY <1>2, <1>3, <1>6, <1>10 DEF QueueTaken, IsTakeAll
<1>11. CASE MessagePutBack
  BY <1>2, <1>3, <1>6, <1>11 DEF MessagePutBack, IsPutBack
<1>12. CASE MessageLeaves
  <2>1. PICK from \in Places : queue[from] # <<>> /\ IsDiscard(queue, queue', from)
    BY <1>12 DEF MessageLeaves
  <2>2. \A i \in Messages : message'[i].posted = message[i].posted
    BY <1>12 DEF MessageLeaves, SameIdentities
  <2>3. CASE p = from
    BY <1>2, <1>7, <2>1, <2>2, <2>3 DEF IsDiscard
  <2>4. CASE p # from
    BY <1>2, <1>3, <1>6, <2>1, <2>2, <2>4 DEF IsDiscard
  <2>5. QED
    BY <2>3, <2>4
<1>13. CASE MessageJoins
  <2>1. PICK n : n = Len(message) + 1
    OBVIOUS
  <2>2. PICK to \in Places : /\ IsJoin(queue, queue', to, n)
                             /\ \A u \in Topics : to = Outbound(u) => ~message'[n].posted
    BY <1>13, <2>1 DEF MessageJoins
  <2>3. \A i \in Messages : message'[i] = message[i]
    BY <1>13 DEF MessageJoins
  <2>4. CASE p = to
    <3>1. ~message'[n].posted
      BY <1>2, <1>3, <2>2, <2>4
    <3>2. Len(new) = Len(box) + 1 /\ new[Len(box) + 1] = n
          /\ \A i \in DOMAIN box : new[i] = box[i]
      BY <1>2, <1>4, <2>2, <2>4 DEF IsJoin
    <3>3. \A i \in DOMAIN new : i = Len(box) + 1 \/ i \in DOMAIN box
      BY <1>4, <1>5, <3>2
    <3>4. \A i \in DOMAIN new : message'[new[i]].posted =>
                                  i \in DOMAIN box /\ message[box[i]].posted
      <4>1. \A i \in DOMAIN box : message'[new[i]] = message[box[i]]
        BY <1>4, <2>3, <3>2
      <4>2. QED
        BY <3>1, <3>2, <3>3, <4>1
    <3>5. QED
      BY <1>2, <1>3, <3>4, PostedStay
  <2>5. CASE p # to
    BY <1>2, <1>3, <1>6, <2>2, <2>3, <2>5 DEF IsJoin
  <2>6. QED
    BY <2>4, <2>5
<1>14. CASE QueueDropped
  BY <1>2, <1>3, <1>6, <1>14 DEF QueueDropped, IsEmptied
<1>15. QED
  BY <1>1, <1>2, <1>8, <1>9, <1>10, <1>11, <1>12, <1>13, <1>14 DEF Effect

-------------------------------------------------------------------------------
(* Types                                                                   *)

\* What TypeOK says of control alone, ...
ControlOK ==
  /\ poster \in [Posters -> Topics \cup {Idle}]
  /\ postThread \in {"ready", "asleep", "sending", "ended"}
  /\ pollThread \in {"running", "ended"}
  /\ pollTask \in [Ordered -> {"none", "posted", "flushing"}]
  /\ fanout \in BOOLEAN /\ switches \in 0 .. MaxSwitches
  /\ closing \in [Topics -> {"todo", "draining", "done"}]
  /\ shuttingDown \in BOOLEAN
  /\ connector \in {"serving", "joining", "draining", "down"}
  /\ handedOver \in 0 .. Len(message)
  /\ (\E t \in Topics : closing[t] # "todo") => shuttingDown
  /\ Interrupted => Drained
  /\ connector \in {"draining", "down"} => postThread = "ended" /\ pollThread = "ended"

\* ... and of the queues that a thread keeps to itself.
OwnQueuesOK ==
  /\ postThread = "asleep" => queue[MessageQueue] = <<>> /\ ~shuttingDown
  /\ postThread # "sending" => queue[TempQueue] = <<>>
  /\ \A t \in Ordered :
       /\ pollTask[t] # "flushing" => queue[Flush(t)] = <<>>
       /\ closing[t] # "draining" => queue[Drain(t)] = <<>>

LEMMA TypeOKParts == TypeOK <=> DataOK /\ ControlOK /\ OwnQueuesOK
  BY DEF TypeOK, DataOK, ControlOK, OwnQueuesOK, Queues

LEMMA AckedKept ==
  ASSUME DataOK, Next, Messages \subseteq Messages'
  PROVE  acked' \in [Topics -> Seq(Messages')]
<1>1. PICK T : T = Messages' /\ Messages \subseteq T
  OBVIOUS
<1>2. \A t \in Topics : acked[t] \in Seq(T)
  BY <1>1, SeqMonotonic DEF DataOK
<1>3. acked \in [Topics -> Seq(T)]
  <2>1. acked = [t \in Topics |-> acked[t]]
    BY DEF DataOK
  <2>2. QED
    BY <1>2, <2>1
<1>4. CASE acked' = acked
  BY <1>1, <1>3, <1>4
<1>5. ASSUME NEW t \in Topics, BrokerAcks(t)
      PROVE  acked' \in [Topics -> Seq(T)]
  <2>1. queue[Outbound(t)] # <<>> /\ Discard(Outbound(t)) /\ Outbound(t) \in Places
    BY <1>5, MyPlaces DEF BrokerAcks
  <2>2. PICK m : m = Head(queue[Outbound(t)])
    OBVIOUS
  <2>3. m \in T /\ acked' = [acked EXCEPT ![t] = Append(@, m)]
    BY <1>1, <1>5, <2>1, <2>2, DiscardEffect DEF BrokerAcks
  <2>4. Append(acked[t], m) \in Seq(T)
    BY <1>2, <2>3, AtEnd
  <2>5. QED
    BY <1>3, <2>3, <2>4
<1>6. CASE ControlStep
  BY <1>4, <1>6, ControlStays
<1>7. CASE ~ControlStep /\ \A t \in Topics : ~BrokerAcks(t)
  BY <1>4, <1>7, NextSteps DEF Post, Serialized, PostSwaps, PostNext, Send, IoProduce,
     BrokerFails, DrainProducer, PollTask, FlushNext, FlushThrows, DrainNext, DrainRefused,
     history
<1>8. QED
  BY <1>1, <1>5, <1>6, <1>7

LEMMA AbandonedKept ==
  ASSUME DataOK, Next, Messages \subseteq Messages'
  PROVE  abandoned' \subseteq Messages'
<1>1. abandoned \subseteq Messages /\ queue \in Queues(Messages)
  BY DEF DataOK
<1>2. ASSUME NEW t \in Ordered, FlushThrows(t)
      PROVE  abandoned' \subseteq Messages'
  <2>1. \A i \in DOMAIN queue[Flush(t)] : queue[Flush(t)][i] \in Messages
    BY <1>1, Lengths, MyPlaces
  <2>2. QED
    BY <1>1, <1>2, <2>1 DEF FlushThrows
<1>3. CASE ControlStep
  BY <1>1, <1>3, ControlStays
<1>4. CASE ~ControlStep /\ \A t \in Ordered : ~FlushThrows(t)
  BY <1>1, <1>4, NextSteps DEF Post, Serialized, PostSwaps, PostNext, Send, IoProduce,
     BrokerAcks, BrokerFails, DrainProducer, PollTask, FlushNext, DrainNext, DrainRefused,
     history
<1>5. QED
  BY <1>2, <1>3, <1>4

LEMMA ControlKept ==
  ASSUME ControlOK, Next, Len(message) \in Nat, Len(message') \in Nat, Messages \subseteq Messages'
  PROVE  ControlOK'
<1>1. Len(message) <= Len(message') /\ handedOver \in 0 .. Len(message')
  BY DEF Messages, ControlOK
<1>2. ASSUME NEW p \in Posters, NEW t \in Topics, CheckQueueLength(p, t)
      PROVE  ControlOK'
  BY <1>1, <1>2 DEF CheckQueueLength, ControlOK, closeVars, Interrupted, Drained
<1>3. ASSUME NEW p \in Posters, Post(p)
      PROVE  ControlOK'
  BY <1>1, <1>3 DEF Post, ControlOK, closeVars, Interrupted, Drained, Notify, Dispatches
<1>4. ASSUME NEW p \in Posters, PostThrows(p)
      PROVE  ControlOK'
  BY <1>1, <1>4 DEF PostThrows, ControlOK, closeVars, Interrupted, Drained
<1>5. CASE PostSleeps \/ PostSwaps
  BY <1>1, <1>5 DEF PostSleeps, PostSwaps, ControlOK, closeVars, Interrupted, Drained
<1>6. CASE PostEndsBatch \/ PostThreadEnds
  BY <1>1, <1>6 DEF PostEndsBatch, PostThreadEnds, ControlOK, closeVars, Interrupted, Drained
<1>7. ASSUME NEW t \in Ordered, Poll(t) \/ PollTask(t) \/ FlushThrows(t) \/ PollTaskEnds(t)
      PROVE  ControlOK'
  BY <1>1, <1>7
     DEF Poll, PollTask, FlushThrows, PollTaskEnds, ControlOK, closeVars, Interrupted, Drained
<1>8. CASE PollThreadEnds
  BY <1>1, <1>8 DEF PollThreadEnds, ControlOK, closeVars, Interrupted, Drained
<1>9. CASE EnableMessageFanout
  BY <1>1, <1>9, ProducerAssumption
     DEF EnableMessageFanout, ControlOK, closeVars, threadVars, Interrupted, Drained
<1>10. CASE Shutdown
  BY <1>1, <1>10 DEF Shutdown, Notify, ControlOK, Interrupted, Drained
<1>11. ASSUME NEW t \in Topics, DrainProducer(t)
       PROVE  ControlOK'
  BY <1>1, <1>11 DEF DrainProducer, ControlOK, threadVars, Interrupted, Drained
<1>12. ASSUME NEW t \in Topics, DrainEnds(t)
       PROVE  ControlOK'
  BY <1>1, <1>12 DEF DrainEnds, ControlOK, threadVars, Interrupted, Drained
<1>13. CASE Interrupt \/ JoinThreads \/ DrainDispatcher
  BY <1>1, <1>13
     DEF Interrupt, JoinThreads, DrainDispatcher, ControlOK, threadVars, Interrupted, Drained
<1>14. ASSUME UNCHANGED <<threadVars, fanout, switches, closeVars>>
       PROVE  ControlOK'
  BY <1>1, <1>14 DEF ControlOK, threadVars, closeVars, Interrupted, Drained
<1>15. ASSUME NEW t \in Topics, Send(t) \/ IoProduce(t) \/ BrokerAcks(t) \/ BrokerFails(t)
       PROVE  ControlOK'
  BY <1>14, <1>15 DEF Send, IoProduce, BrokerAcks, BrokerFails
<1>16. ASSUME NEW t \in Ordered, FlushNext(t) \/ DrainNext(t) \/ DrainRefused(t)
       PROVE  ControlOK'
  BY <1>14, <1>16 DEF FlushNext, DrainNext, DrainRefused
<1>17. ASSUME NEW m \in Messages, Serialized(m, "ready") \/ Serialized(m, "failed")
       PROVE  ControlOK'
  BY <1>14, <1>17 DEF Serialized
<1>18. CASE PostNext
  BY <1>14, <1>18 DEF PostNext
<1>19. QED
  BY <1>2, <1>3, <1>4, <1>5, <1>6, <1>7, <1>8, <1>9, <1>10, <1>11, <1>12, <1>13, <1>15,
     <1>16, <1>17, <1>18 DEF Next

\* The queues of one thread only stay empty, unless their owner fills them.
EmptyStay ==
  /\ queue[MessageQueue] = <<>> => queue'[MessageQueue] = <<>>
  /\ queue[TempQueue] = <<>> => queue'[TempQueue] = <<>>
  /\ \A t \in Ordered : /\ queue[Flush(t)] = <<>> => queue'[Flush(t)] = <<>>
                        /\ queue[Drain(t)] = <<>> => queue'[Drain(t)] = <<>>

LEMMA OnlyOthersFilled ==
  ASSUME NEW from, NEW to, queue[from] # <<>>,
         \A p \in Places \ {from, to} : queue'[p] = queue[p],
         \E t : to \in {IO(t), Outbound(t), Buffer(t)} \/ to = from
  PROVE  EmptyStay
<1>1. to # from => /\ to # MessageQueue /\ to # TempQueue
                   /\ \A t : to # Flush(t) /\ to # Drain(t)
  BY PlacesDiffer
<1>2. QED
  BY <1>1, MyPlaces DEF EmptyStay

LEMMA MoveLeavesEmpty ==
  ASSUME DataOK, NEW t, NEW from \in Places, NEW to \in Places,
         to \in {IO(t), Outbound(t), Buffer(t)},
         from # to, queue[from] # <<>>, Move(from, to)
  PROVE  EmptyStay
<1>1. IsMove(queue, queue', from, to)
  BY MoveEffect
<1>2. QED
  BY <1>1, OnlyOthersFilled DEF IsMove

LEMMA DiscardLeavesEmpty ==
  ASSUME DataOK, NEW from \in Places, queue[from] # <<>>, Discard(from)
  PROVE  EmptyStay
<1>1. \A p \in Places \ {from, from} : queue'[p] = queue[p]
  BY DiscardEffect DEF IsDiscard
<1>2. QED
  BY <1>1, OnlyOthersFilled

LEMMA ProduceLeavesEmpty ==
  ASSUME DataOK, NEW t \in Topics, NEW from \in {TempQueue, IO(t)}, queue[from] # <<>>,
         ProduceMessage(from, t)
  PROVE  EmptyStay
<1>1. /\ from \in Places /\ Outbound(t) \in Places /\ from # Outbound(t)
      /\ (t \in Ordered => Buffer(t) \in Places /\ from # Buffer(t))
  <2>1. CASE from = IO(t)
    BY <2>1, MyPlaces, PlacesDiffer
  <2>2. CASE from = TempQueue
    BY <2>2, MyPlaces, PlacesDiffer
  <2>3. QED
    BY <2>1, <2>2
<1>2. CASE t \in Ordered /\ Move(from, Buffer(t))
  BY <1>1, <1>2, MoveLeavesEmpty
<1>3. CASE Move(from, Outbound(t))
  BY <1>1, <1>3, MoveLeavesEmpty
<1>4. CASE Discard(from)
  BY <1>1, <1>4, DiscardLeavesEmpty
<1>5. QED
  BY <1>2, <1>3, <1>4 DEF ProduceMessage, Produce, ProduceThrows

LEMMA OwnQueuesKept ==
  ASSUME TypeOK, Next
  PROVE  OwnQueuesOK'
<1>1. DataOK /\ ControlOK /\ OwnQueuesOK
  BY TypeOKParts
<1>2. ASSUME EmptyStay, UNCHANGED <<postThread, shuttingDown, pollTask, closing>>
      PROVE  OwnQueuesOK'
  BY <1>1, <1>2 DEF EmptyStay, OwnQueuesOK
<1>3. CASE ControlStep
  <2>1. queue' = queue
    BY <1>3, ControlStays
  <2>2. CASE Shutdown
    BY <1>1, <2>1, <2>2 DEF Shutdown, Notify, OwnQueuesOK
  <2>3. CASE PostSleeps
    BY <1>1, <2>1, <2>3 DEF PostSleeps, OwnQueuesOK, closeVars
  <2>4. CASE PostEndsBatch \/ PostThreadEnds
    BY <1>1, <2>1, <2>4 DEF PostEndsBatch, PostThreadEnds, OwnQueuesOK, closeVars
  <2>5. ASSUME NEW t \in Ordered, Poll(t) \/ PollTaskEnds(t)
        PROVE  OwnQueuesOK'
    BY <1>1, <2>1, <2>5 DEF Poll, PollTaskEnds, OwnQueuesOK, closeVars, ControlOK
  <2>6. ASSUME NEW t \in Topics, DrainEnds(t)
        PROVE  OwnQueuesOK'
    BY <1>1, <2>1, <2>6 DEF DrainEnds, OwnQueuesOK, threadVars, ControlOK
  <2>7. ASSUME UNCHANGED <<postThread, shuttingDown, pollTask, closing>>
        PROVE  OwnQueuesOK'
    BY <1>2, <2>1, <2>7 DEF EmptyStay
  <2>8. QED
    BY <1>3, <2>2, <2>3, <2>4, <2>5, <2>6, <2>7
       DEF ControlStep, PostThrows, CheckQueueLength, PollThreadEnds, EnableMessageFanout,
           Interrupt, JoinThreads, DrainDispatcher, threadVars, closeVars
<1>4. ASSUME NEW p \in Posters, Post(p)
      PROVE  OwnQueuesOK'
  <2>1. IsJoin(queue, queue', MessageQueue, Len(message) + 1)
    BY <1>1, <1>4, PostEffect
  <2>2. /\ queue'[TempQueue] = queue[TempQueue]
        /\ \A t \in Ordered : queue'[Flush(t)] = queue[Flush(t)] /\ queue'[Drain(t)] = queue[Drain(t)]
    BY <2>1, MyPlaces, PlacesDiffer DEF IsJoin
  <2>3. postThread' # "asleep" /\ (postThread' = "sending" <=> postThread = "sending")
    BY <1>4 DEF Post, Notify
  <2>4. pollTask' = pollTask /\ closing' = closing
    BY <1>4 DEF Post, closeVars
  <2>5. QED
    BY <1>1, <2>2, <2>3, <2>4 DEF OwnQueuesOK
<1>5. ASSUME NEW m \in Messages, NEW outcome \in {"ready", "failed"}, Serialized(m, outcome)
      PROVE  OwnQueuesOK'
  BY <1>2, <1>5 DEF EmptyStay, Serialized, threadVars, closeVars
<1>6. CASE PostSwaps
  <2>1. IsTakeAll(queue, queue', MessageQueue, TempQueue)
    BY <1>1, <1>6, MyPlaces, PlacesDiffer, TakeAllEffect DEF PostSwaps
  <2>2. \A t \in Ordered : queue'[Flush(t)] = queue[Flush(t)] /\ queue'[Drain(t)] = queue[Drain(t)]
    BY <2>1, MyPlaces, PlacesDiffer DEF IsTakeAll
  <2>3. postThread' = "sending" /\ pollTask' = pollTask /\ closing' = closing
    BY <1>6 DEF PostSwaps, closeVars
  <2>4. QED
    BY <1>1, <2>2, <2>3 DEF OwnQueuesOK
<1>7. CASE PostNext
  <2>1. PICK m, t : m = Head(queue[TempQueue]) /\ t = message[m].topic
    OBVIOUS
  <2>2. queue[TempQueue] # <<>> /\ TempQueue \in Places
    BY <1>7, MyPlaces DEF PostNext
  <2>3. m \in Messages /\ t \in Topics
    <3>1. m \in Messages
      BY <1>1, <2>1, <2>2, HeadTailProperties DEF DataOK, Queues
    <3>2. QED
      BY <1>1, <2>1, <3>1, MessageAt DEF DataOK, Message
  <2>4. Discard(TempQueue) \/ Move(TempQueue, IO(t)) \/ ProduceMessage(TempQueue, t)
    BY <1>7, <2>1 DEF PostNext
  <2>5. EmptyStay
    <3>1. IO(t) \in Places /\ TempQueue # IO(t)
      BY <2>3, MyPlaces, PlacesDiffer
    <3>2. QED
      BY <1>1, <2>2, <2>3, <2>4, <3>1, DiscardLeavesEmpty, MoveLeavesEmpty, ProduceLeavesEmpty
  <2>6. QED
    BY <1>2, <1>7, <2>5 DEF PostNext, threadVars, closeVars
<1>8. ASSUME NEW t \in Topics, Send(t)
      PROVE  OwnQueuesOK'
  <2>1. IsJoin(queue, queue', Outbound(t), Len(message) + 1)
    BY <1>1, <1>8, SendEffect
  <2>2. EmptyStay
    BY <2>1, MyPlaces, PlacesDiffer DEF IsJoin, EmptyStay
  <2>3. QED
    BY <1>2, <1>8, <2>2 DEF Send, threadVars, closeVars
<1>9. ASSUME NEW t \in Topics, IoProduce(t)
      PROVE  OwnQueuesOK'
  BY <1>1, <1>2, <1>9, ProduceLeavesEmpty DEF IoProduce, threadVars, closeVars
<1>10. ASSUME NEW t \in Topics, BrokerAcks(t) \/ BrokerFails(t)
       PROVE  OwnQueuesOK'
  BY <1>1, <1>2, <1>10, DiscardLeavesEmpty, MyPlaces
     DEF BrokerAcks, BrokerFails, threadVars, closeVars
<1>11. ASSUME NEW t \in Topics, DrainProducer(t)
       PROVE  OwnQueuesOK'
  <2>1. /\ closing' = [closing EXCEPT ![t] = "draining"] /\ closing \in [Topics -> {"todo", "draining", "done"}]
        /\ UNCHANGED <<postThread, shuttingDown, pollTask>>
    BY <1>1, <1>11 DEF DrainProducer, threadVars, ControlOK
  <2>2. CASE t \in Ordered
    <3>1. IsTakeAll(queue, queue', Buffer(t), Drain(t))
      BY <1>1, <1>11, <2>2, MyPlaces, PlacesDiffer, TakeAllEffect DEF DrainProducer
    <3>2. /\ queue'[MessageQueue] = queue[MessageQueue] /\ queue'[TempQueue] = queue[TempQueue]
          /\ \A u \in Ordered : /\ queue'[Flush(u)] = queue[Flush(u)]
                                /\ u # t => queue'[Drain(u)] = queue[Drain(u)]
      BY <3>1, MyPlaces, PlacesDiffer DEF IsTakeAll
    <3>3. QED
      BY <1>1, <2>1, <3>2, MyPlaces DEF OwnQueuesOK
  <2>3. CASE t \notin Ordered
    <3>1. queue' = queue
      BY <1>11, <2>3 DEF DrainProducer
    <3>2. QED
      BY <1>1, <2>1, <2>3, <3>1, MyPlaces DEF OwnQueuesOK
  <2>4. QED
    BY <2>2, <2>3
<1>12. ASSUME NEW t \in Ordered, PollTask(t)
       PROVE  OwnQueuesOK'
  <2>1. IsTakeAll(queue, queue', Buffer(t), Flush(t))
    BY <1>1, <1>12, MyPlaces, PlacesDiffer, TakeAllEffect DEF PollTask
  <2>2. /\ queue'[MessageQueue] = queue[MessageQueue] /\ queue'[TempQueue] = queue[TempQueue]
        /\ \A u \in Ordered : /\ queue'[Drain(u)] = queue[Drain(u)]
                              /\ u # t => queue'[Flush(u)] = queue[Flush(u)]
    BY <2>1, MyPlaces, PlacesDiffer DEF IsTakeAll
  <2>3. /\ pollTask' = [pollTask EXCEPT ![t] = "flushing"]
        /\ pollTask \in [Ordered -> {"none", "posted", "flushing"}]
        /\ UNCHANGED <<postThread, shuttingDown, closing>>
    BY <1>1, <1>12 DEF PollTask, closeVars, ControlOK
  <2>4. QED
    BY <1>1, <2>2, <2>3 DEF OwnQueuesOK
<1>13. ASSUME NEW t \in Ordered, FlushNext(t) \/ DrainNext(t)
       PROVE  OwnQueuesOK'
  <2>1. /\ Flush(t) \in Places /\ Drain(t) \in Places /\ Outbound(t) \in Places
        /\ Flush(t) # Outbound(t) /\ Drain(t) # Outbound(t)
    BY MyPlaces, PlacesDiffer
  <2>2. EmptyStay
    BY <1>1, <1>13, <2>1, MoveLeavesEmpty DEF FlushNext, DrainNext
  <2>3. QED
    BY <1>2, <1>13, <2>2 DEF FlushNext, DrainNext, threadVars, closeVars
<1>14. ASSUME NEW t \in Ordered, DrainRefused(t)
       PROVE  OwnQueuesOK'
  <2>1. Drain(t) \in Places /\ Buffer(t) \in Places /\ Drain(t) # Buffer(t)
    BY MyPlaces, PlacesDiffer
  <2>2. queue[Drain(t)] # <<>>
    BY <1>14 DEF DrainRefused
  <2>3. CASE queue' = [queue EXCEPT ![Drain(t)] = Tail(@),
                                    ![Buffer(t)] = <<Head(queue[Drain(t)])>> \o @]
    <3>1. IsPutBack(queue, queue', Drain(t), Buffer(t))
      BY <1>1, <2>1, <2>2, <2>3, PutBack DEF DataOK
    <3>2. EmptyStay
      BY <2>2, <3>1, OnlyOthersFilled DEF IsPutBack
    <3>3. QED
      BY <1>2, <1>14, <3>2 DEF DrainRefused, threadVars, closeVars
  <2>4. CASE Discard(Drain(t))
    <3>1. EmptyStay
      BY <1>1, <2>1, <2>2, <2>4, DiscardLeavesEmpty
    <3>2. QED
      BY <1>2, <1>14, <3>1 DEF DrainRefused, threadVars, closeVars
  <2>5. QED
    BY <1>14, <2>3, <2>4 DEF DrainRefused
<1>15. ASSUME NEW t \in Ordered, FlushThrows(t)
       PROVE  OwnQueuesOK'
  <2>1. IsEmptied(queue, queue', Flush(t))
    BY <1>1, <1>15, FlushThrowsEffect
  <2>2. /\ queue'[MessageQueue] = queue[MessageQueue] /\ queue'[TempQueue] = queue[TempQueue]
        /\ \A u \in Ordered : /\ queue'[Drain(u)] = queue[Drain(u)]
                              /\ u # t => queue'[Flush(u)] = queue[Flush(u)]
        /\ queue'[Flush(t)] = <<>>
    BY <2>1, MyPlaces, PlacesDiffer DEF IsEmptied
  <2>3. /\ pollTask' = [pollTask EXCEPT ![t] = "none"]
        /\ pollTask \in [Ordered -> {"none", "posted", "flushing"}]
        /\ UNCHANGED <<postThread, shuttingDown, closing>>
    BY <1>1, <1>15 DEF FlushThrows, closeVars, ControlOK
  <2>4. QED
    BY <1>1, <2>2, <2>3 DEF OwnQueuesOK
<1>16. QED
  BY <1>3, <1>4, <1>5, <1>6, <1>7, <1>8, <1>9, <1>10, <1>11, <1>12, <1>13, <1>14, <1>15,
     NextSteps

LEMMA TypeOKKept == TypeOK /\ Next => TypeOK'
<1> SUFFICES ASSUME TypeOK, Next
             PROVE  TypeOK'
  OBVIOUS
<1>1. DataOK /\ ControlOK /\ Effect
  BY TypeOKParts, StepEffect
<1>2. /\ message' \in Seq(Message) /\ Len(message') <= MaxMessages
      /\ queue' \in Queues(Messages')
      /\ Len(message) \in Nat /\ Len(message') \in Nat /\ Messages \subseteq Messages'
  BY <1>1, EffectTypes
<1>3. acked' \in [Topics -> Seq(Messages')] /\ abandoned' \subseteq Messages'
  BY <1>1, <1>2, AckedKept, AbandonedKept
<1>4. ControlOK' /\ OwnQueuesOK'
  BY <1>1, <1>2, ControlKept, OwnQueuesKept
<1>5. DataOK'
  BY <1>2, <1>3 DEF DataOK, Queues
<1>6. QED
  BY <1>4, <1>5 DEF TypeOK, DataOK, ControlOK, OwnQueuesOK, Queues

LEMMA InitTypeOK == Init => TypeOK
<1> SUFFICES ASSUME Init
             PROVE  TypeOK
  OBVIOUS
<1>1. Len(message) = 0 /\ message \in Seq(Message) /\ 0 <= MaxMessages
  BY ProducerAssumption DEF Init
<1>2. <<>> \in Seq(Messages)
  OBVIOUS
<1>3. DataOK
  BY <1>1, <1>2 DEF Init, DataOK, Queues
<1>4. ControlOK
  <2>1. /\ poster \in [Posters -> Topics \cup {Idle}]
        /\ pollTask \in [Ordered -> {"none", "posted", "flushing"}]
        /\ closing \in [Topics -> {"todo", "draining", "done"}]
        /\ \A t \in Topics : closing[t] = "todo"
    BY DEF Init
  <2>2. switches \in 0 .. MaxSwitches /\ handedOver \in 0 .. Len(message)
    BY <1>1, ProducerAssumption DEF Init
  <2>3. fanout \in BOOLEAN /\ shuttingDown \in BOOLEAN /\ ~Interrupted
    BY DEF Init, Interrupted
  <2>4. QED
    BY <2>1, <2>2, <2>3 DEF Init, ControlOK
<1>5. OwnQueuesOK
  BY MyPlaces DEF Init, OwnQueuesOK
<1>6. QED
  BY <1>3, <1>4, <1>5, TypeOKParts

LEMMA Stutter ==
  ASSUME UNCHANGED vars
  PROVE  /\ TypeOK => TypeOK'
         /\ OneOwner => OneOwner'
         /\ OneInFlight => OneInFlight'
  BY DEF vars, threadVars, closeVars, history, TypeOK, OneOwner, OneInFlight, Messages, Interrupted,
         Drained, Waiting, Posted

-------------------------------------------------------------------------------
(* Order                                                                   *)

\* Every message of new was in line, where came tells, ...
ComesFrom(line, new, came) ==
  \A a \in Stages : \A i \in DOMAIN new[a] : \E c \in Stages : \E k \in DOMAIN line[c] :
    new[a][i] = line[c][k] /\ <<a, i, c, k>> \in came

\* ... and in the same order: then new is in order.
Precedes(a, i, b, j) == a < b \/ (a = b /\ i < j)

KeepsOrder(line, new, came) ==
  \A a, b, c, d \in Stages :
    \A i \in DOMAIN new[a], j \in DOMAIN new[b] : \A k \in DOMAIN line[c], l \in DOMAIN line[d] :
      Precedes(a, i, b, j) /\ <<a, i, c, k>> \in came /\ <<b, j, d, l>> \in came
      => Precedes(c, k, d, l)

LEMMA OrderOfOrigin ==
  ASSUME NEW line, NEW new, NEW set, NEW came, InOrder(line, set),
         ComesFrom(line, new, came), KeepsOrder(line, new, came)
  PROVE  InOrder(new, set)
<1>1. ASSUME NEW a \in Stages, NEW b \in Stages, NEW i \in DOMAIN new[a], NEW j \in DOMAIN new[b],
             a < b \/ (a = b /\ i < j), new[a][i] \in set, new[b][j] \in set
      PROVE  new[a][i] < new[b][j]
  <2>1. PICK c \in Stages : \E k \in DOMAIN line[c] :
               new[a][i] = line[c][k] /\ <<a, i, c, k>> \in came
    BY DEF ComesFrom
  <2>2. PICK k \in DOMAIN line[c] : new[a][i] = line[c][k] /\ <<a, i, c, k>> \in came
    BY <2>1
  <2>3. PICK d \in Stages : \E l \in DOMAIN line[d] :
               new[b][j] = line[d][l] /\ <<b, j, d, l>> \in came
    BY DEF ComesFrom
  <2>4. PICK l \in DOMAIN line[d] : new[b][j] = line[d][l] /\ <<b, j, d, l>> \in came
    BY <2>3
  <2>5. c < d \/ (c = d /\ k < l)
    BY <1>1, <2>1, <2>2, <2>3, <2>4 DEF KeepsOrder, Precedes
  <2>6. line[c][k] \in set /\ line[d][l] \in set
    BY <1>1, <2>2, <2>4
  <2>7. line[c][k] < line[d][l]
    BY <2>1, <2>2, <2>3, <2>4, <2>5, <2>6 DEF InOrder
  <2>8. QED
    BY <2>2, <2>4, <2>7
<1>2. QED
  BY <1>1 DEF InOrder

\* Lines of messages: a sequence in each stage.
IsLine(line) == \A k \in Stages : /\ Len(line[k]) \in Nat /\ DOMAIN line[k] = 1 .. Len(line[k])
                                  /\ line[k] = <<>> <=> Len(line[k]) = 0

LEMMA TwoLines ==
  ASSUME NEW line, NEW new, IsLine(line), IsLine(new)
  PROVE  \A p \in Stages : /\ Len(line[p]) \in Nat /\ DOMAIN line[p] = 1 .. Len(line[p])
                           /\ Len(new[p]) \in Nat /\ DOMAIN new[p] = 1 .. Len(new[p])
                           /\ p \in Nat /\ p <= 7
<1>1. \A p \in Stages : p \in Nat /\ p <= 7
  BY DEF Stages
<1>2. QED
  BY <1>1 DEF IsLine

\* The first of stage b goes out of the line.
Removed(line, new, b) ==
  /\ line[b] # <<>>
  /\ \A c \in Stages \ {b} : new[c] = line[c]
  /\ Len(new[b]) = Len(line[b]) - 1
  /\ \A i \in 1 .. Len(new[b]) : new[b][i] = line[b][i + 1]

\* The first of stage b goes on to stage a, with nothing between.
Advanced(line, new, a, b) ==
  /\ a < b /\ line[b] # <<>>
  /\ \A c \in Stages : a < c /\ c < b => line[c] = <<>>
  /\ \A c \in Stages \ {a, b} : new[c] = line[c]
  /\ Len(new[b]) = Len(line[b]) - 1
  /\ \A i \in 1 .. Len(new[b]) : new[b][i] = line[b][i + 1]
  /\ Len(new[a]) = Len(line[a]) + 1
  /\ \A i \in 1 .. Len(line[a]) : new[a][i] = line[a][i]
  /\ new[a][Len(line[a]) + 1] = line[b][1]

LEMMA OrderAdvances ==
  ASSUME NEW line, NEW new, NEW set, IsLine(line), IsLine(new), InOrder(line, set),
         NEW a \in Stages, NEW b \in Stages, Advanced(line, new, a, b)
  PROVE  InOrder(new, set)
<1> SUFFICES ASSUME a < b, line[b] # <<>>,
                    \A c \in Stages : a < c /\ c < b => line[c] = <<>>,
                    \A c \in Stages \ {a, b} : new[c] = line[c],
                    Len(new[b]) = Len(line[b]) - 1,
                    \A i \in 1 .. Len(new[b]) : new[b][i] = line[b][i + 1],
                    Len(new[a]) = Len(line[a]) + 1,
                    \A i \in 1 .. Len(line[a]) : new[a][i] = line[a][i],
                    new[a][Len(line[a]) + 1] = line[b][1]
             PROVE  InOrder(new, set)
  BY DEF Advanced
<1> DEFINE origin(p, i, s, j) ==
             \/ p = b /\ s = b /\ j = i + 1
             \/ p = a /\ i = Len(line[a]) + 1 /\ s = b /\ j = 1
             \/ p # b /\ (p = a => i <= Len(line[a])) /\ s = p /\ j = i
           came == {x \in Stages \X Nat \X Stages \X Nat : origin(x[1], x[2], x[3], x[4])}
<1>1. \A p \in Stages : /\ Len(line[p]) \in Nat /\ DOMAIN line[p] = 1 .. Len(line[p])
                        /\ Len(new[p]) \in Nat /\ DOMAIN new[p] = 1 .. Len(new[p])
                        /\ p \in Nat
  BY TwoLines
<1>2. Len(line[b]) > 0
  BY <1>1 DEF IsLine
<1>3. ASSUME NEW p \in Stages, NEW i \in DOMAIN new[p]
      PROVE  \E s \in Stages : \E j \in DOMAIN line[s] :
               new[p][i] = line[s][j] /\ <<p, i, s, j>> \in came
  <2>1. \E s \in Stages : \E j \in DOMAIN line[s] : new[p][i] = line[s][j] /\ origin(p, i, s, j)
    <3>1. CASE p = b
      <4>1. i \in 1 .. Len(new[b]) /\ Len(new[b]) = Len(line[b]) - 1
        BY <1>1, <3>1
      <4>2. i + 1 \in DOMAIN line[b]
        BY <1>1, <4>1
      <4>3. new[b][i] = line[b][i + 1]
        BY <4>1
      <4>4. QED
        BY <3>1, <4>2, <4>3
    <3>2. CASE p = a /\ i = Len(line[a]) + 1
      BY <1>1, <1>2, <3>2
    <3>3. CASE p # b /\ (p = a => i <= Len(line[a]))
      <4>1. i \in DOMAIN line[p] /\ new[p][i] = line[p][i]
        <5>1. CASE p = a
          <6>1. i \in 1 .. Len(line[a])
            BY <1>1, <3>3, <5>1
          <6>2. QED
            BY <1>1, <5>1, <6>1
        <5>2. CASE p # a
          BY <3>3, <5>2
        <5>3. QED
          BY <5>1, <5>2
      <4>2. QED
        BY <3>3, <4>1
    <3>4. QED
      BY <1>1, <3>1, <3>2, <3>3
  <2>2. i \in Nat /\ \A s \in Stages : DOMAIN line[s] \subseteq Nat
    <3>1. \A n \in Nat : 1 .. n \subseteq Nat
      OBVIOUS
    <3>2. QED
      BY <1>1, <3>1, Zenon
  <2> HIDE DEF origin
  <2>3. PICK s \in Stages : \E j \in DOMAIN line[s] : new[p][i] = line[s][j] /\ origin(p, i, s, j)
    BY <2>1
  <2>4. PICK j \in DOMAIN line[s] : new[p][i] = line[s][j] /\ origin(p, i, s, j)
    BY <2>3
  <2>5. <<p, i, s, j>> \in came
    BY <2>2, <2>3, <2>4
  <2> HIDE DEF came
  <2>6. QED
    BY <2>3, <2>4, <2>5
<1> HIDE DEF came
<1>4. KeepsOrder(line, new, came)
  <2> SUFFICES ASSUME NEW p \in Stages, NEW u \in Stages, NEW s \in Stages, NEW v \in Stages,
                      NEW i \in DOMAIN new[p], NEW j \in DOMAIN new[u],
                      NEW k \in DOMAIN line[s], NEW l \in DOMAIN line[v],
                      Precedes(p, i, u, j), <<p, i, s, k>> \in came, <<u, j, v, l>> \in came
               PROVE  Precedes(s, k, v, l)
    BY DEF KeepsOrder
  <2> USE DEF Precedes
  <2>1. origin(p, i, s, k) /\ origin(u, j, v, l)
    BY DEF came
  <2>2. /\ p \in Nat /\ u \in Nat /\ a \in Nat /\ b \in Nat
        /\ Len(new[p]) \in Nat /\ Len(new[u]) \in Nat
    BY <1>1
  <2>3. i \in 1 .. Len(new[p]) /\ j \in 1 .. Len(new[u])
    BY <1>1
  <2>4. i \in Nat /\ j \in Nat
    <3>1. \A n \in Nat : 1 .. n \subseteq Nat
      OBVIOUS
    <3>2. QED
      BY <2>2, <2>3, <3>1, Zenon
  <2>5. /\ Len(line[a]) \in Nat
        /\ p = a => i <= Len(line[a]) + 1
        /\ u = a => j <= Len(line[a]) + 1
    <3>1. Len(line[a]) \in Nat
      BY <1>1
    <3>2. p = a => i <= Len(line[a]) + 1
      BY <2>2, <2>3, <3>1
    <3>3. u = a => j <= Len(line[a]) + 1
      BY <2>2, <2>3, <3>1
    <3>4. QED
      BY <3>1, <3>2, <3>3
  <2>6. \A q \in Stages : a < q /\ q < b => DOMAIN new[q] = {}
    <3>1. ASSUME NEW q \in Stages, a < q, q < b
          PROVE  DOMAIN new[q] = {}
      <4>1. line[q] = <<>> /\ q # a /\ q # b
        BY <1>1, <2>2, <3>1
      <4>2. new[q] = line[q] /\ Len(line[q]) = 0
        BY <4>1 DEF IsLine
      <4>3. DOMAIN new[q] = 1 .. 0
        BY <1>1, <4>2
      <4>4. QED
        BY <4>3
    <3>2. QED
      BY <3>1
  <2>7. ~(a < p /\ p < b) /\ ~(a < u /\ u < b)
    BY <2>6
  <2> DEFINE n == Len(line[a])
  <2> HIDE DEF n
  <2>8. n \in Nat /\ (p = a => i <= n + 1) /\ (u = a => j <= n + 1)
    BY <2>4, <2>5 DEF n
  <2>9. /\ \/ p = b /\ s = b /\ k = i + 1
           \/ p = a /\ i = n + 1 /\ s = b /\ k = 1
           \/ p # b /\ (p = a => i <= n) /\ s = p /\ k = i
        /\ \/ u = b /\ v = b /\ l = j + 1
           \/ u = a /\ j = n + 1 /\ v = b /\ l = 1
           \/ u # b /\ (u = a => j <= n) /\ v = u /\ l = j
    BY <2>1 DEF n
  <2> HIDE DEF origin
  <2>10. 1 <= i /\ 1 <= j
    BY <1>1, <2>3
  <2>11. CASE p = b /\ s = b /\ k = i + 1
    <3>1. CASE u = b
      BY <2>2, <2>4, <2>9, <2>11, <3>1
    <3>2. CASE u # b
      <4>1. p < u /\ u # a /\ v = u
        BY <2>2, <2>9, <2>11, <3>2
      <4>2. QED
        BY <2>11, <4>1
    <3>3. QED
      BY <3>1, <3>2
  <2>12. CASE p = a /\ i = n + 1 /\ s = b /\ k = 1
    <3>1. a < u
      <4>1. u # a \/ i < j
        BY <2>2, <2>12
      <4>2. ~(u = a /\ i < j)
        BY <2>4, <2>8, <2>12
      <4>3. QED
        BY <2>2, <2>12, <4>1, <4>2
    <3>2. CASE u = b
      BY <2>4, <2>9, <2>10, <2>12, <3>1, <3>2
    <3>3. CASE u # b
      <4>1. b < u /\ v = u
        BY <2>2, <2>7, <2>9, <3>1, <3>3
      <4>2. QED
        BY <2>12, <4>1
    <3>4. QED
      BY <3>2, <3>3
  <2>13. CASE p # b /\ (p = a => i <= n) /\ s = p /\ k = i
    BY <2>2, <2>4, <2>7, <2>8, <2>9, <2>10, <2>13
  <2>14. QED
    BY <2>9, <2>11, <2>12, <2>13
<1>5. ComesFrom(line, new, came)
  BY <1>3 DEF ComesFrom
<1>6. QED
  BY <1>4, <1>5, OrderOfOrigin

LEMMA OrderRemoves ==
  ASSUME NEW line, NEW new, NEW set, IsLine(line), IsLine(new), InOrder(line, set),
         NEW b \in Stages, Removed(line, new, b)
  PROVE  InOrder(new, set)
<1> SUFFICES ASSUME line[b] # <<>>, \A c \in Stages \ {b} : new[c] = line[c],
                    Len(new[b]) = Len(line[b]) - 1,
                    \A i \in 1 .. Len(new[b]) : new[b][i] = line[b][i + 1]
             PROVE  InOrder(new, set)
  BY DEF Removed
<1> DEFINE origin(p, i, s, j) ==
             \/ p = b /\ s = b /\ j = i + 1
             \/ p # b /\ s = p /\ j = i
           came == {x \in Stages \X Nat \X Stages \X Nat : origin(x[1], x[2], x[3], x[4])}
<1>1. \A p \in Stages : /\ Len(line[p]) \in Nat /\ DOMAIN line[p] = 1 .. Len(line[p])
                        /\ Len(new[p]) \in Nat /\ DOMAIN new[p] = 1 .. Len(new[p])
                        /\ p \in Nat
  BY TwoLines
<1>2. ASSUME NEW p \in Stages, NEW i \in DOMAIN new[p]
      PROVE  \E s \in Stages : \E j \in DOMAIN line[s] :
               new[p][i] = line[s][j] /\ <<p, i, s, j>> \in came
  <2>1. \E s \in Stages : \E j \in DOMAIN line[s] : new[p][i] = line[s][j] /\ origin(p, i, s, j)
    <3>1. CASE p = b
      <4>1. i \in 1 .. Len(new[b]) /\ Len(new[b]) = Len(line[b]) - 1
        BY <1>1, <3>1
      <4>2. i + 1 \in DOMAIN line[b]
        BY <1>1, <4>1
      <4>3. new[b][i] = line[b][i + 1]
        BY <4>1
      <4>4. QED
        BY <3>1, <4>2, <4>3
    <3>2. CASE p # b
      BY <1>1, <3>2
    <3>3. QED
      BY <3>1, <3>2
  <2>2. i \in Nat /\ \A s \in Stages : DOMAIN line[s] \subseteq Nat
    <3>1. \A n \in Nat : 1 .. n \subseteq Nat
      OBVIOUS
    <3>2. QED
      BY <1>1, <3>1, Zenon
  <2> HIDE DEF origin
  <2>3. PICK s \in Stages : \E j \in DOMAIN line[s] : new[p][i] = line[s][j] /\ origin(p, i, s, j)
    BY <2>1
  <2>4. PICK j \in DOMAIN line[s] : new[p][i] = line[s][j] /\ origin(p, i, s, j)
    BY <2>3
  <2>5. <<p, i, s, j>> \in came
    BY <2>2, <2>3, <2>4
  <2> HIDE DEF came
  <2>6. QED
    BY <2>3, <2>4, <2>5
<1> HIDE DEF came
<1>3. KeepsOrder(line, new, came)
  <2> SUFFICES ASSUME NEW p \in Stages, NEW u \in Stages, NEW s \in Stages, NEW v \in Stages,
                      NEW i \in DOMAIN new[p], NEW j \in DOMAIN new[u],
                      NEW k \in DOMAIN line[s], NEW l \in DOMAIN line[v],
                      Precedes(p, i, u, j), <<p, i, s, k>> \in came, <<u, j, v, l>> \in came
               PROVE  Precedes(s, k, v, l)
    BY DEF KeepsOrder
  <2> USE DEF Precedes
  <2>1. origin(p, i, s, k) /\ origin(u, j, v, l)
    BY DEF came
  <2>2. /\ p \in Nat /\ u \in Nat
        /\ Len(new[p]) \in Nat /\ Len(new[u]) \in Nat
    BY <1>1
  <2>3. i \in 1 .. Len(new[p]) /\ j \in 1 .. Len(new[u])
    BY <1>1
  <2>4. i \in Nat /\ j \in Nat
    <3>1. \A n \in Nat : 1 .. n \subseteq Nat
      OBVIOUS
    <3>2. QED
      BY <2>2, <2>3, <3>1, Zenon
  <2>5. p # b => s = p /\ k = i
    BY <2>1
  <2>6. p = b => s = b /\ k = i + 1
    BY <2>1
  <2>7. u # b => v = u /\ l = j
    BY <2>1
  <2>8. u = b => v = b /\ l = j + 1
    BY <2>1
  <2> HIDE DEF origin
  <2>9. QED
    BY <2>2, <2>4, <2>5, <2>6, <2>7, <2>8
<1>4. ComesFrom(line, new, came)
  BY <1>2 DEF ComesFrom
<1>5. QED
  BY <1>3, <1>4, OrderOfOrigin

\* A stage is emptied into an earlier one, with nothing there or between.
LEMMA OrderTakes ==
  ASSUME NEW line, NEW new, NEW set, IsLine(line), IsLine(new), InOrder(line, set),
         NEW a \in Stages, NEW b \in Stages, a < b,
         \A c \in Stages : a <= c /\ c < b => line[c] = <<>>,
         \A c \in Stages \ {a, b} : new[c] = line[c],
         new[a] = line[b], new[b] = <<>>
  PROVE  InOrder(new, set)
<1> DEFINE origin(p, i, s, j) ==
             \/ p = a /\ s = b /\ j = i
             \/ p # a /\ s = p /\ j = i
           came == {x \in Stages \X Nat \X Stages \X Nat : origin(x[1], x[2], x[3], x[4])}
<1>1. \A p \in Stages : /\ Len(line[p]) \in Nat /\ DOMAIN line[p] = 1 .. Len(line[p])
                        /\ Len(new[p]) \in Nat /\ DOMAIN new[p] = 1 .. Len(new[p])
                        /\ p \in Nat
  BY TwoLines
<1>2. ASSUME NEW p \in Stages, NEW i \in DOMAIN new[p]
      PROVE  \E s \in Stages : \E j \in DOMAIN line[s] :
               new[p][i] = line[s][j] /\ <<p, i, s, j>> \in came
  <2>1. \E s \in Stages : \E j \in DOMAIN line[s] : new[p][i] = line[s][j] /\ origin(p, i, s, j)
    <3>1. CASE p = a
      BY <1>1, <3>1
    <3>2. CASE p = b
      <4>1. DOMAIN new[b] = 1 .. 0
        BY <1>1 DEF IsLine
      <4>2. QED
        BY <3>2, <4>1
    <3>3. CASE p \notin {a, b}
      BY <1>1, <3>3
    <3>4. QED
      BY <3>1, <3>2, <3>3
  <2>2. i \in Nat /\ \A s \in Stages : DOMAIN line[s] \subseteq Nat
    <3>1. \A n \in Nat : 1 .. n \subseteq Nat
      OBVIOUS
    <3>2. QED
      BY <1>1, <3>1, Zenon
  <2> HIDE DEF origin
  <2>3. PICK s \in Stages : \E j \in DOMAIN line[s] : new[p][i] = line[s][j] /\ origin(p, i, s, j)
    BY <2>1
  <2>4. PICK j \in DOMAIN line[s] : new[p][i] = line[s][j] /\ origin(p, i, s, j)
    BY <2>3
  <2>5. <<p, i, s, j>> \in came
    BY <2>2, <2>3, <2>4
  <2> HIDE DEF came
  <2>6. QED
    BY <2>3, <2>4, <2>5
<1> HIDE DEF came
<1>3. KeepsOrder(line, new, came)
  <2> SUFFICES ASSUME NEW p \in Stages, NEW u \in Stages, NEW s \in Stages, NEW v \in Stages,
                      NEW i \in DOMAIN new[p], NEW j \in DOMAIN new[u],
                      NEW k \in DOMAIN line[s], NEW l \in DOMAIN line[v],
                      Precedes(p, i, u, j), <<p, i, s, k>> \in came, <<u, j, v, l>> \in came
               PROVE  Precedes(s, k, v, l)
    BY DEF KeepsOrder
  <2> USE DEF Precedes
  <2>1. origin(p, i, s, k) /\ origin(u, j, v, l)
    BY DEF came
  <2>2. /\ p \in Nat /\ u \in Nat /\ a \in Nat /\ b \in Nat
        /\ Len(new[p]) \in Nat /\ Len(new[u]) \in Nat
    BY <1>1
  <2>3. i \in 1 .. Len(new[p]) /\ j \in 1 .. Len(new[u])
    BY <1>1
  <2>4. i \in Nat /\ j \in Nat
    <3>1. \A n \in Nat : 1 .. n \subseteq Nat
      OBVIOUS
    <3>2. QED
      BY <2>2, <2>3, <3>1, Zenon
  <2>5. \A q \in Stages : a < q /\ q <= b => DOMAIN new[q] = {}
    <3>1. ASSUME NEW q \in Stages, a < q, q <= b
          PROVE  DOMAIN new[q] = {}
      <4>1. new[q] = <<>>
        <5>1. CASE q = b
          BY <5>1
        <5>2. CASE q # b
          <6>1. q \in Nat /\ a <= q /\ q < b /\ q # a
            BY <1>1, <2>2, <3>1, <5>2
          <6>2. QED
            BY <5>2, <6>1
        <5>3. QED
          BY <5>1, <5>2
      <4>2. DOMAIN new[q] = 1 .. 0
        BY <1>1, <4>1 DEF IsLine
      <4>3. QED
        BY <4>2
    <3>2. QED
      BY <3>1
  <2>6. ~(a < p /\ p <= b) /\ ~(a < u /\ u <= b)
    BY <2>5
  <2>7. QED
    BY <2>1, <2>2, <2>4, <2>6
<1>4. ComesFrom(line, new, came)
  BY <1>2 DEF ComesFrom
<1>5. QED
  BY <1>3, <1>4, OrderOfOrigin

\* A message joins a stage: either it is none of those in order, or it is larger than
\* every other and joins the last stage.
Joined(line, new, a, e) ==
  /\ \A c \in Stages \ {a} : new[c] = line[c]
  /\ Len(new[a]) = Len(line[a]) + 1
  /\ \A i \in 1 .. Len(line[a]) : new[a][i] = line[a][i]
  /\ new[a][Len(line[a]) + 1] = e

Before(line, e) ==
  \A c \in Stages : \A k \in DOMAIN line[c] : line[c][k] \in Nat /\ line[c][k] < e

LEMMA OrderJoins ==
  ASSUME NEW line, NEW new, NEW set, NEW newSet, IsLine(line), IsLine(new), InOrder(line, set),
         NEW a \in Stages, NEW e \in Nat, newSet \subseteq set \union {e},
         e \in newSet => a = 7 /\ Before(line, e), Joined(line, new, a, e)
  PROVE  InOrder(new, newSet)
<1> SUFFICES ASSUME \A c \in Stages \ {a} : new[c] = line[c],
                    Len(new[a]) = Len(line[a]) + 1,
                    \A i \in 1 .. Len(line[a]) : new[a][i] = line[a][i],
                    new[a][Len(line[a]) + 1] = e,
                    e \in newSet => /\ a = 7
                                    /\ \A c \in Stages : \A k \in DOMAIN line[c] :
                                         line[c][k] \in Nat /\ line[c][k] < e
             PROVE  InOrder(new, newSet)
  BY DEF Joined, Before
<1>1. \A p \in Stages : /\ Len(line[p]) \in Nat /\ DOMAIN line[p] = 1 .. Len(line[p])
                        /\ Len(new[p]) \in Nat /\ DOMAIN new[p] = 1 .. Len(new[p])
                        /\ p \in Nat /\ p <= 7
  BY TwoLines
<1>2. ASSUME NEW p \in Stages, NEW i \in DOMAIN new[p]
      PROVE  \/ p = a /\ i = Len(line[a]) + 1 /\ new[p][i] = e
             \/ i \in DOMAIN line[p] /\ new[p][i] = line[p][i]
  <2>1. CASE p = a
    <3>1. i \in 1 .. Len(line[a]) + 1
      BY <1>1, <2>1
    <3>2. i = Len(line[a]) + 1 \/ i \in 1 .. Len(line[a])
      BY <1>1, <3>1
    <3>3. QED
      BY <1>1, <2>1, <3>2
  <2>2. CASE p # a
    BY <2>2
  <2>3. QED
    BY <2>1, <2>2
<1>3. ASSUME NEW p \in Stages, NEW u \in Stages, NEW i \in DOMAIN new[p], NEW j \in DOMAIN new[u],
             p < u \/ (p = u /\ i < j), new[p][i] \in newSet, new[u][j] \in newSet
      PROVE  new[p][i] < new[u][j]
  <2>1. p \in Nat /\ u \in Nat /\ p <= 7 /\ u <= 7 /\ Len(line[a]) \in Nat /\ Len(new[u]) \in Nat
    BY <1>1
  <2>2. i \in DOMAIN line[p] /\ new[p][i] = line[p][i]
    <3>1. SUFFICES ASSUME p = a, i = Len(line[a]) + 1, new[p][i] = e
                   PROVE  FALSE
      BY <1>2
    <3>2. p = 7 /\ u = 7 /\ i < j
      BY <1>3, <2>1, <3>1
    <3>3. j \in 1 .. Len(line[a]) + 1
      BY <1>1, <3>1, <3>2
    <3>4. QED
      BY <2>1, <3>1, <3>2, <3>3
  <2>3. CASE new[u][j] = e
    BY <1>3, <2>2, <2>3
  <2>4. CASE new[u][j] # e
    <3>1. j \in DOMAIN line[u] /\ new[u][j] = line[u][j] /\ line[u][j] \in set
      BY <1>2, <1>3, <2>4
    <3>2. line[p][i] \in set
      <4>1. line[p][i] # e
        <5>1. e \in newSet => line[p][i] < e /\ line[p][i] \in Nat
          BY <2>2
        <5>2. e \in Nat /\ line[p][i] \in newSet
          BY <1>3, <2>2
        <5>3. QED
          BY <5>1, <5>2
      <4>2. QED
        BY <1>3, <2>2, <4>1
    <3>3. QED
      BY <1>3, <2>2, <3>1, <3>2 DEF InOrder
  <2>5. QED
    BY <2>3, <2>4
<1>4. QED
  BY <1>3 DEF InOrder

\* The places behind the stages; what has been accepted is in none.
Stage(t) ==
  <<"acked", Outbound(t), Flush(t), Buffer(t), IO(t), TempQueue, MessageQueue>>

LEMMA StagesOf ==
  ASSUME NEW t \in Ordered
  PROVE  /\ \A k \in 2 .. 7 : Stage(t)[k] \in Places
         /\ \A k, l \in 2 .. 7 : Stage(t)[k] = Stage(t)[l] => k = l
<1>1. \A k \in 2 .. 7 : k = 2 \/ k = 3 \/ k = 4 \/ k = 5 \/ k = 6 \/ k = 7
  OBVIOUS
<1> DEFINE o == Outbound(t)  f == Flush(t)  b == Buffer(t)  i == IO(t)
<1>2. /\ Stage(t)[2] = o /\ Stage(t)[3] = f /\ Stage(t)[4] = b
      /\ Stage(t)[5] = i /\ Stage(t)[6] = TempQueue /\ Stage(t)[7] = MessageQueue
  BY DEF Stage
<1>3. {o, f, b, i, TempQueue, MessageQueue} \subseteq Places
  BY MyPlaces
<1>4. /\ o \notin {f, b, i, TempQueue, MessageQueue} /\ f \notin {b, i, TempQueue, MessageQueue}
      /\ b \notin {i, TempQueue, MessageQueue} /\ i \notin {TempQueue, MessageQueue}
      /\ TempQueue # MessageQueue
  BY PlacesDiffer
<1> HIDE DEF o, f, b, i
<1>5. \A k \in 2 .. 7 : Stage(t)[k] \in Places
  BY <1>1, <1>2, <1>3
<1>6. ASSUME NEW k \in 2 .. 7, NEW l \in 2 .. 7, Stage(t)[k] = Stage(t)[l]
      PROVE  k = l
  BY <1>1, <1>2, <1>4, <1>6
<1>7. QED
  BY <1>5, <1>6

LEMMA LineStages ==
  ASSUME NEW a, NEW q, NEW t
  PROVE  /\ Line(a, q, t)[1] = a[t]
         /\ \A k \in 2 .. 7 : Line(a, q, t)[k] = q[Stage(t)[k]]
         /\ \A k \in Stages : k = 1 \/ k \in 2 .. 7
<1>1. \A k \in 2 .. 7 : k = 2 \/ k = 3 \/ k = 4 \/ k = 5 \/ k = 6 \/ k = 7
  OBVIOUS
<1>2. QED
  BY <1>1 DEF Line, Stage, Stages

LEMMA LineOK ==
  ASSUME NEW S, NEW a \in [Topics -> Seq(S)], NEW q \in Queues(S), NEW t \in Ordered
  PROVE  /\ IsLine(Line(a, q, t))
         /\ \A c \in Stages : \A k \in DOMAIN Line(a, q, t)[c] : Line(a, q, t)[c][k] \in S
<1>1. \A c \in Stages : Line(a, q, t)[c] \in Seq(S)
  <2>1. a[t] \in Seq(S)
    BY ProducerAssumption
  <2>2. \A c \in 2 .. 7 : q[Stage(t)[c]] \in Seq(S)
    BY StagesOf DEF Queues
  <2>3. \A c \in 2 .. 7 : Line(a, q, t)[c] \in Seq(S)
    <3>1. \A c \in 2 .. 7 : Line(a, q, t)[c] = q[Stage(t)[c]]
      BY LineStages
    <3>2. QED
      BY <2>2, <3>1
  <2>4. Line(a, q, t)[1] \in Seq(S)
    BY <2>1, LineStages
  <2>5. \A c \in Stages : c = 1 \/ c \in 2 .. 7
    BY LineStages
  <2>6. QED
    BY <2>3, <2>4, <2>5
<1>2. \A s \in Seq(S) : /\ Len(s) \in Nat /\ DOMAIN s = 1 .. Len(s) /\ (s = <<>> <=> Len(s) = 0)
                        /\ \A k \in DOMAIN s : s[k] \in S
  BY LenProperties, ElementOfSeq, EmptySeq
<1>3. QED
  BY <1>1, <1>2 DEF IsLine

\* What happens between two stages of the line, or to one of them.
LEMMA LineAdvances ==
  ASSUME NEW S, NEW a \in [Topics -> Seq(S)], NEW q \in Queues(S), NEW r \in Queues(S),
         NEW t \in Ordered, NEW set, InOrder(Line(a, q, t), set),
         NEW k \in 2 .. 7, NEW l \in 2 .. 7, k < l, q[Stage(t)[l]] # <<>>,
         \A c \in 2 .. 7 : k < c /\ c < l => q[Stage(t)[c]] = <<>>,
         IsMove(q, r, Stage(t)[l], Stage(t)[k])
  PROVE  InOrder(Line(a, r, t), set)
<1>1. PICK line, new : line = Line(a, q, t) /\ new = Line(a, r, t)
  OBVIOUS
<1>2. IsLine(line) /\ IsLine(new) /\ InOrder(line, set)
  BY <1>1, LineOK
<1>3. /\ k \in Stages /\ l \in Stages /\ line[l] # <<>>
      /\ line[l] = q[Stage(t)[l]] /\ line[k] = q[Stage(t)[k]]
      /\ new[l] = r[Stage(t)[l]] /\ new[k] = r[Stage(t)[k]]
  BY <1>1, LineStages DEF Stages
<1>4. \A c \in Stages : k < c /\ c < l => line[c] = <<>>
  BY <1>1, LineStages
<1>5. \A c \in Stages \ {k, l} : new[c] = line[c]
  <2>1. ASSUME NEW c \in 2 .. 7, c # k, c # l
        PROVE  new[c] = line[c]
    <3>1. Stage(t)[c] \in Places \ {Stage(t)[k], Stage(t)[l]}
      BY <2>1, StagesOf
    <3>2. r[Stage(t)[c]] = q[Stage(t)[c]]
      BY <3>1 DEF IsMove
    <3>3. QED
      BY <1>1, <3>2, LineStages
  <2>2. new[1] = line[1]
    BY <1>1, LineStages
  <2>3. QED
    BY <2>1, <2>2, LineStages
<1>6. /\ Len(new[l]) = Len(line[l]) - 1
      /\ \A i \in 1 .. Len(new[l]) : new[l][i] = line[l][i + 1]
      /\ Len(new[k]) = Len(line[k]) + 1
      /\ \A i \in 1 .. Len(line[k]) : new[k][i] = line[k][i]
      /\ new[k][Len(line[k]) + 1] = line[l][1]
  BY <1>3 DEF IsMove
<1>7. InOrder(new, set)
  <2>1. Advanced(line, new, k, l)
    BY <1>3, <1>4, <1>5, <1>6 DEF Advanced
  <2>2. QED
    BY <1>2, <1>3, <2>1, OrderAdvances
<1>8. QED
  BY <1>1, <1>7

LEMMA LineRemoves ==
  ASSUME NEW S, NEW a \in [Topics -> Seq(S)], NEW q \in Queues(S), NEW r \in Queues(S),
         NEW t \in Ordered, NEW set, InOrder(Line(a, q, t), set),
         NEW l \in 2 .. 7, q[Stage(t)[l]] # <<>>,
         \A c \in 2 .. 7 : c # l => r[Stage(t)[c]] = q[Stage(t)[c]],
         Len(r[Stage(t)[l]]) = Len(q[Stage(t)[l]]) - 1,
         \A i \in 1 .. Len(r[Stage(t)[l]]) : r[Stage(t)[l]][i] = q[Stage(t)[l]][i + 1]
  PROVE  InOrder(Line(a, r, t), set)
<1>1. PICK line, new : line = Line(a, q, t) /\ new = Line(a, r, t)
  OBVIOUS
<1>2. IsLine(line) /\ IsLine(new) /\ InOrder(line, set)
  BY <1>1, LineOK
<1>3. /\ l \in Stages /\ line[l] # <<>>
      /\ line[l] = q[Stage(t)[l]] /\ new[l] = r[Stage(t)[l]]
  BY <1>1, LineStages DEF Stages
<1>4. \A c \in Stages \ {l} : new[c] = line[c]
  BY <1>1, LineStages
<1>5. /\ Len(new[l]) = Len(line[l]) - 1
      /\ \A i \in 1 .. Len(new[l]) : new[l][i] = line[l][i + 1]
  BY <1>3
<1>6. InOrder(new, set)
  <2>1. Removed(line, new, l)
    BY <1>3, <1>4, <1>5 DEF Removed
  <2>2. QED
    BY <1>2, <1>3, <2>1, OrderRemoves
<1>7. QED
  BY <1>1, <1>6

LEMMA LineTakes ==
  ASSUME NEW S, NEW a \in [Topics -> Seq(S)], NEW q \in Queues(S), NEW r \in Queues(S),
         NEW t \in Ordered, NEW set, InOrder(Line(a, q, t), set),
         NEW k \in 2 .. 6, q[Stage(t)[k]] = <<>>,
         IsTakeAll(q, r, Stage(t)[k + 1], Stage(t)[k])
  PROVE  InOrder(Line(a, r, t), set)
<1>1. PICK line, new, l : line = Line(a, q, t) /\ new = Line(a, r, t) /\ l = k + 1
  OBVIOUS
<1>2. IsLine(line) /\ IsLine(new) /\ InOrder(line, set)
  BY <1>1, LineOK
<1>3. k \in 2 .. 7 /\ l \in 2 .. 7 /\ k \in Stages /\ l \in Stages /\ k < l
  BY <1>1 DEF Stages
<1>4. /\ line[l] = q[Stage(t)[l]] /\ line[k] = <<>>
      /\ new[l] = r[Stage(t)[l]] /\ new[k] = r[Stage(t)[k]]
  BY <1>1, <1>3, LineStages
<1>5. \A c \in Stages : k <= c /\ c < l => line[c] = <<>>
  BY <1>1, <1>3, <1>4 DEF Stages
<1>6. \A c \in Stages \ {k, l} : new[c] = line[c]
  <2>1. ASSUME NEW c \in 2 .. 7, c # k, c # l
        PROVE  new[c] = line[c]
    <3>1. Stage(t)[c] \in Places \ {Stage(t)[k], Stage(t)[l]}
      BY <1>3, <2>1, StagesOf
    <3>2. r[Stage(t)[c]] = q[Stage(t)[c]]
      BY <1>1, <3>1 DEF IsTakeAll
    <3>3. QED
      BY <1>1, <3>2, LineStages
  <2>2. new[1] = line[1]
    BY <1>1, LineStages
  <2>3. QED
    BY <2>1, <2>2, LineStages
<1>7. new[k] = line[l] /\ new[l] = <<>>
  BY <1>1, <1>4 DEF IsTakeAll
<1>8. InOrder(new, set)
  BY <1>2, <1>3, <1>5, <1>6, <1>7, OrderTakes
<1>9. QED
  BY <1>1, <1>8

\* A step elsewhere leaves a line alone.
LEMMA LineStays ==
  ASSUME NEW a, NEW b, NEW q, NEW r, NEW t, a[t] = b[t],
         \A c \in 2 .. 7 : r[Stage(t)[c]] = q[Stage(t)[c]]
  PROVE  Line(b, r, t) = Line(a, q, t)
<1>1. /\ r[Stage(t)[2]] = q[Stage(t)[2]] /\ r[Stage(t)[3]] = q[Stage(t)[3]]
      /\ r[Stage(t)[4]] = q[Stage(t)[4]] /\ r[Stage(t)[5]] = q[Stage(t)[5]]
      /\ r[Stage(t)[6]] = q[Stage(t)[6]] /\ r[Stage(t)[7]] = q[Stage(t)[7]]
  OBVIOUS
<1>2. /\ Stage(t)[2] = Outbound(t) /\ Stage(t)[3] = Flush(t) /\ Stage(t)[4] = Buffer(t)
      /\ Stage(t)[5] = IO(t) /\ Stage(t)[6] = TempQueue /\ Stage(t)[7] = MessageQueue
  BY DEF Stage
<1>3. /\ r[Outbound(t)] = q[Outbound(t)] /\ r[Flush(t)] = q[Flush(t)]
      /\ r[Buffer(t)] = q[Buffer(t)] /\ r[IO(t)] = q[IO(t)]
      /\ r[TempQueue] = q[TempQueue] /\ r[MessageQueue] = q[MessageQueue]
  BY <1>1, <1>2
<1>4. QED
  BY <1>3 DEF Line

\* The stages of one topic are apart from what is another's own.
LEMMA OthersApart ==
  ASSUME NEW t \in Ordered, NEW u, u # t, NEW c \in 2 .. 7
  PROVE  Stage(t)[c] \notin {IO(u), Outbound(u), Buffer(u), Flush(u)}
<1>1. c = 2 \/ c = 3 \/ c = 4 \/ c = 5 \/ c = 6 \/ c = 7
  OBVIOUS
<1>2. /\ Stage(t)[2] = Outbound(t) /\ Stage(t)[3] = Flush(t) /\ Stage(t)[4] = Buffer(t)
      /\ Stage(t)[5] = IO(t) /\ Stage(t)[6] = TempQueue /\ Stage(t)[7] = MessageQueue
  BY DEF Stage
<1> DEFINE mine == {Outbound(t), Flush(t), Buffer(t), IO(t), TempQueue, MessageQueue}
<1>3. mine \intersect {IO(u), Outbound(u), Buffer(u), Flush(u)} = {}
  <2>1. {TempQueue, MessageQueue} \intersect {IO(u), Outbound(u), Buffer(u), Flush(u)} = {}
    BY PlacesDiffer
  <2>2. /\ Outbound(t) \notin {IO(u), Outbound(u), Buffer(u), Flush(u)}
        /\ Flush(t) \notin {IO(u), Outbound(u), Buffer(u), Flush(u)}
        /\ Buffer(t) \notin {IO(u), Outbound(u), Buffer(u), Flush(u)}
        /\ IO(t) \notin {IO(u), Outbound(u), Buffer(u), Flush(u)}
    BY PlacesDiffer
  <2>3. QED
    BY <2>1, <2>2
<1>4. Stage(t)[c] \in mine
  BY <1>1, <1>2
<1>5. QED
  BY <1>3, <1>4

LEMMA LineJoins ==
  ASSUME NEW S \in SUBSET Nat, NEW T, S \subseteq T, NEW a \in [Topics -> Seq(S)],
         NEW q \in Queues(S), NEW r \in Queues(T), NEW t \in Ordered,
         NEW set, NEW newSet, InOrder(Line(a, q, t), set),
         NEW k \in 2 .. 7, NEW e \in Nat, IsJoin(q, r, Stage(t)[k], e),
         newSet \subseteq set \union {e}, e \in newSet => k = 7 /\ \A m \in S : m < e
  PROVE  InOrder(Line(a, r, t), newSet)
<1>1. PICK line, new : line = Line(a, q, t) /\ new = Line(a, r, t)
  OBVIOUS
<1>2. a \in [Topics -> Seq(T)]
  <2>1. \A u \in Topics : a[u] \in Seq(T)
    BY SeqMonotonic
  <2>2. QED
    BY <2>1
<1>3. IsLine(line) /\ IsLine(new) /\ InOrder(line, set)
  BY <1>1, <1>2, LineOK
<1>4. e \in newSet => k = 7 /\ Before(line, e)
  <2>1. \A c \in Stages : \A i \in DOMAIN line[c] : line[c][i] \in S
    BY <1>1, LineOK
  <2>2. QED
    BY <2>1 DEF Before
<1>5. k \in Stages /\ line[k] = q[Stage(t)[k]] /\ new[k] = r[Stage(t)[k]]
  BY <1>1, LineStages DEF Stages
<1>6. \A c \in Stages \ {k} : new[c] = line[c]
  <2>1. ASSUME NEW c \in 2 .. 7, c # k
        PROVE  new[c] = line[c]
    <3>1. Stage(t)[c] \in Places \ {Stage(t)[k]}
      BY <2>1, StagesOf
    <3>2. r[Stage(t)[c]] = q[Stage(t)[c]]
      BY <3>1 DEF IsJoin
    <3>3. QED
      BY <1>1, <3>2, LineStages
  <2>2. new[1] = line[1]
    BY <1>1, LineStages
  <2>3. QED
    BY <2>1, <2>2, LineStages
<1>7. Joined(line, new, k, e)
  BY <1>5, <1>6 DEF Joined, IsJoin
<1>8. InOrder(new, newSet)
  BY <1>3, <1>4, <1>5, <1>7, OrderJoins
<1>9. QED
  BY <1>1, <1>8

\* The broker accepts the message that is first in Outbound.
LEMMA LineAcked ==
  ASSUME NEW S, NEW a \in [Topics -> Seq(S)], NEW q \in Queues(S), NEW r \in Queues(S),
         NEW t \in Ordered, NEW set, InOrder(Line(a, q, t), set),
         q[Outbound(t)] # <<>>, IsDiscard(q, r, Outbound(t)),
         NEW m \in S, m = q[Outbound(t)][1],
         NEW b \in [Topics -> Seq(S)], b = [a EXCEPT ![t] = Append(@, m)]
  PROVE  InOrder(Line(b, r, t), set)
<1>1. PICK line, new : line = Line(a, q, t) /\ new = Line(b, r, t)
  OBVIOUS
<1>2. IsLine(line) /\ IsLine(new) /\ InOrder(line, set)
  BY <1>1, LineOK
<1>3. /\ line[1] = a[t] /\ new[1] = b[t] /\ line[2] = q[Outbound(t)] /\ new[2] = r[Outbound(t)]
  BY <1>1 DEF Line
<1>4. \A c \in Stages \ {1, 2} : new[c] = line[c]
  <2>1. ASSUME NEW c \in 2 .. 7, c # 2
        PROVE  new[c] = line[c]
    <3>1. Stage(t)[2] = Outbound(t)
      BY DEF Stage
    <3>2. Stage(t)[c] \in Places \ {Outbound(t)}
      BY <2>1, <3>1, StagesOf
    <3>3. r[Stage(t)[c]] = q[Stage(t)[c]]
      BY <3>2 DEF IsDiscard
    <3>4. QED
      BY <1>1, <3>3, LineStages
  <2>2. QED
    BY <2>1, LineStages
<1>5. /\ Len(new[1]) = Len(line[1]) + 1
      /\ \A i \in 1 .. Len(line[1]) : new[1][i] = line[1][i]
      /\ new[1][Len(line[1]) + 1] = m
  <2>1. t \in Topics /\ a[t] \in Seq(S)
    BY ProducerAssumption
  <2>2. b[t] = Append(a[t], m)
    BY <2>1
  <2>3. QED
    BY <1>3, <2>1, <2>2, AtEnd
<1>6. /\ Len(new[2]) = Len(line[2]) - 1
      /\ \A i \in 1 .. Len(new[2]) : new[2][i] = line[2][i + 1]
      /\ m = line[2][1] /\ line[2] # <<>>
  BY <1>3 DEF IsDiscard
<1>7. Advanced(line, new, 1, 2)
  <2>1. \A c \in Stages : ~(1 < c /\ c < 2)
    BY DEF Stages
  <2>2. QED
    BY <1>4, <1>5, <1>6, <2>1 DEF Advanced
<1>8. 1 \in Stages /\ 2 \in Stages
  BY DEF Stages
<1>9. InOrder(new, set)
  BY <1>2, <1>7, <1>8, OrderAdvances
<1>10. QED
  BY <1>1, <1>9

LEMMA StageNames ==
  ASSUME NEW t
  PROVE  /\ Stage(t)[2] = Outbound(t) /\ Stage(t)[3] = Flush(t) /\ Stage(t)[4] = Buffer(t)
         /\ Stage(t)[5] = IO(t) /\ Stage(t)[6] = TempQueue /\ Stage(t)[7] = MessageQueue
  BY DEF Stage

LEMMA LineApart ==
  ASSUME NEW a, NEW q, NEW r, NEW t \in Ordered, NEW away,
         \A p \in Places \ away : r[p] = q[p], \A c \in 2 .. 7 : Stage(t)[c] \notin away
  PROVE  Line(a, r, t) = Line(a, q, t)
<1>1. \A c \in 2 .. 7 : r[Stage(t)[c]] = q[Stage(t)[c]]
  BY StagesOf
<1>2. QED
  BY <1>1, LineStays

\* What is taken from the stage of all topics, and is not for this one, leaves its line.
LEMMA LineLeft ==
  ASSUME NEW S, NEW a \in [Topics -> Seq(S)], NEW q \in Queues(S), NEW r \in Queues(S),
         NEW t \in Ordered, NEW set, InOrder(Line(a, q, t), set),
         NEW l \in 2 .. 7, q[Stage(t)[l]] # <<>>,
         \/ IsDiscard(q, r, Stage(t)[l])
         \/ \E to : /\ IsMove(q, r, Stage(t)[l], to)
                    /\ \A c \in 2 .. 7 : Stage(t)[c] # to
  PROVE  InOrder(Line(a, r, t), set)
<1>1. \A c \in 2 .. 7 : c # l => r[Stage(t)[c]] = q[Stage(t)[c]]
  <2>1. ASSUME NEW c \in 2 .. 7, c # l
        PROVE  r[Stage(t)[c]] = q[Stage(t)[c]]
    <3>1. Stage(t)[c] \in Places \ {Stage(t)[l]}
      BY <2>1, StagesOf
    <3>2. QED
      BY <3>1 DEF IsMove, IsDiscard
  <2>2. QED
    BY <2>1
<1>2. /\ Len(r[Stage(t)[l]]) = Len(q[Stage(t)[l]]) - 1
      /\ \A i \in 1 .. Len(r[Stage(t)[l]]) : r[Stage(t)[l]][i] = q[Stage(t)[l]][i + 1]
  BY DEF IsMove, IsDiscard
<1>3. QED
  BY <1>1, <1>2, LineRemoves

\* The lines that a step of the manager has to keep in order.
LinesInOrder == \A t \in Ordered : InOrder(Line(acked, queue, t), PostedOnes)

LinesAhead == \A t \in Ordered : InOrder(Line(acked', queue', t), PostedOnes)

LEMMA SwapsInOrder ==
  ASSUME TypeOK, DataOK, LinesInOrder, PostSwaps
  PROVE  LinesAhead
<1>1. /\ MessageQueue \in Places /\ TempQueue \in Places /\ MessageQueue # TempQueue
      /\ TakeAll(MessageQueue, TempQueue) /\ acked' = acked /\ queue[TempQueue] = <<>>
  BY MyPlaces, PlacesDiffer DEF PostSwaps, TypeOK, history
<1>2. queue' \in Queues(Messages) /\ IsTakeAll(queue, queue', MessageQueue, TempQueue)
  BY <1>1, TakeAllEffect
<1>3. ASSUME NEW t \in Ordered
      PROVE  InOrder(Line(acked, queue', t), PostedOnes)
  <2>1. PICK r, k : r = queue' /\ k = 6
    OBVIOUS
  <2>2. /\ k \in 2 .. 6 /\ queue[Stage(t)[k]] = <<>> /\ r \in Queues(Messages)
        /\ IsTakeAll(queue, r, Stage(t)[k + 1], Stage(t)[k])
    BY <1>1, <1>2, <2>1, StageNames
  <2>3. InOrder(Line(acked, r, t), PostedOnes)
    BY <2>2, LineTakes DEF DataOK, LinesInOrder
  <2>4. QED
    BY <2>1, <2>3
<1>4. QED
  BY <1>1, <1>3 DEF LinesAhead

LEMMA PollTaskInOrder ==
  ASSUME TypeOK, DataOK, LinesInOrder, NEW u \in Ordered, PollTask(u)
  PROVE  LinesAhead
<1>1. /\ Buffer(u) \in Places /\ Flush(u) \in Places /\ Buffer(u) # Flush(u)
      /\ TakeAll(Buffer(u), Flush(u)) /\ acked' = acked /\ queue[Flush(u)] = <<>>
  BY MyPlaces, PlacesDiffer DEF PollTask, TypeOK, history
<1>2. queue' \in Queues(Messages) /\ IsTakeAll(queue, queue', Buffer(u), Flush(u))
  BY <1>1, TakeAllEffect
<1>3. InOrder(Line(acked, queue', u), PostedOnes)
  <2>1. PICK r, k : r = queue' /\ k = 3
    OBVIOUS
  <2>2. /\ k \in 2 .. 6 /\ queue[Stage(u)[k]] = <<>> /\ r \in Queues(Messages)
        /\ IsTakeAll(queue, r, Stage(u)[k + 1], Stage(u)[k])
    BY <1>1, <1>2, <2>1, StageNames
  <2>3. InOrder(Line(acked, r, u), PostedOnes)
    BY <2>2, LineTakes DEF DataOK, LinesInOrder
  <2>4. QED
    BY <2>1, <2>3
<1>4. ASSUME NEW t \in Ordered, t # u
      PROVE  Line(acked, queue', t) = Line(acked, queue, t)
  <2>1. \A p \in Places \ {Buffer(u), Flush(u)} : queue'[p] = queue[p]
    BY <1>2 DEF IsTakeAll
  <2>2. \A c \in 2 .. 7 : Stage(t)[c] \notin {Buffer(u), Flush(u)}
    BY <1>4, OthersApart
  <2>3. PICK r, away : r = queue' /\ away = {Buffer(u), Flush(u)}
    OBVIOUS
  <2>4. Line(acked, r, t) = Line(acked, queue, t)
    BY <2>1, <2>2, <2>3, LineApart
  <2>5. QED
    BY <2>3, <2>4
<1>5. QED
  BY <1>1, <1>3, <1>4 DEF LinesAhead, LinesInOrder

LEMMA FlushInOrder ==
  ASSUME DataOK, LinesInOrder, NEW u \in Ordered, FlushNext(u)
  PROVE  LinesAhead
<1>1. /\ Flush(u) \in Places /\ Outbound(u) \in Places /\ Flush(u) # Outbound(u)
      /\ Move(Flush(u), Outbound(u)) /\ acked' = acked /\ queue[Flush(u)] # <<>>
  BY MyPlaces, PlacesDiffer DEF FlushNext, history
<1>2. queue' \in Queues(Messages) /\ IsMove(queue, queue', Flush(u), Outbound(u))
  BY <1>1, MoveEffect
<1>3. InOrder(Line(acked, queue', u), PostedOnes)
  <2>1. PICK r, k, l : r = queue' /\ k = 2 /\ l = 3
    OBVIOUS
  <2>2. /\ k \in 2 .. 7 /\ l \in 2 .. 7 /\ k < l /\ queue[Stage(u)[l]] # <<>>
        /\ \A c \in 2 .. 7 : k < c /\ c < l => queue[Stage(u)[c]] = <<>>
        /\ r \in Queues(Messages) /\ IsMove(queue, r, Stage(u)[l], Stage(u)[k])
    BY <1>1, <1>2, <2>1, StageNames
  <2>3. InOrder(Line(acked, r, u), PostedOnes)
    BY <2>2, LineAdvances DEF DataOK, LinesInOrder
  <2>4. QED
    BY <2>1, <2>3
<1>4. ASSUME NEW t \in Ordered, t # u
      PROVE  Line(acked, queue', t) = Line(acked, queue, t)
  <2>1. \A p \in Places \ {Flush(u), Outbound(u)} : queue'[p] = queue[p]
    BY <1>2 DEF IsMove
  <2>2. \A c \in 2 .. 7 : Stage(t)[c] \notin {Flush(u), Outbound(u)}
    BY <1>4, OthersApart
  <2>3. PICK r, away : r = queue' /\ away = {Flush(u), Outbound(u)}
    OBVIOUS
  <2>4. Line(acked, r, t) = Line(acked, queue, t)
    BY <2>1, <2>2, <2>3, LineApart
  <2>5. QED
    BY <2>3, <2>4
<1>5. QED
  BY <1>1, <1>3, <1>4 DEF LinesAhead, LinesInOrder

\* What a flush drops leaves the line of its topic.
LEMMA FlushThrowsInOrder ==
  ASSUME DataOK, LinesInOrder, NEW u \in Ordered, FlushThrows(u)
  PROVE  LinesAhead
<1>1. PICK r : r = queue'
  OBVIOUS
<1>2. acked' = acked /\ \A p \in Places : r[p] = queue[p] \/ r[p] = <<>>
  BY <1>1, FlushThrowsEffect DEF FlushThrows, IsEmptied
<1>3. ASSUME NEW t \in Ordered
      PROVE  InOrder(Line(acked, r, t), PostedOnes)
  <2>1. PICK line, new : line = Line(acked, queue, t) /\ new = Line(acked, r, t)
    OBVIOUS
  <2>2. \A c \in Stages : new[c] = line[c] \/ new[c] = <<>>
    BY <1>2, <2>1, LineStages, StagesOf
  <2>3. \A c \in Stages : \A i \in DOMAIN new[c] : new[c] = line[c]
    BY <2>2
  <2>4. QED
    BY <2>1, <2>3 DEF LinesInOrder, InOrder
<1>4. QED
  BY <1>1, <1>2, <1>3 DEF LinesAhead

LEMMA AnswerInOrder ==
  ASSUME DataOK, LinesInOrder, NEW u \in Topics, BrokerAcks(u) \/ BrokerFails(u)
  PROVE  LinesAhead
<1>1. Outbound(u) \in Places /\ Discard(Outbound(u)) /\ queue[Outbound(u)] # <<>>
  BY MyPlaces DEF BrokerAcks, BrokerFails
<1>2. PICK m : m = Head(queue[Outbound(u)])
  OBVIOUS
<1>3. /\ queue' \in Queues(Messages) /\ IsDiscard(queue, queue', Outbound(u))
      /\ m = queue[Outbound(u)][1] /\ m \in Messages
  BY <1>1, <1>2, DiscardEffect
<1>4. acked' = acked \/ acked' = [acked EXCEPT ![u] = Append(@, m)]
  BY <1>2 DEF BrokerAcks, BrokerFails, history
<1>5. ASSUME NEW t \in Ordered, t = u, acked' = acked
      PROVE  InOrder(Line(acked', queue', t), PostedOnes)
  <2>1. PICK r, l : r = queue' /\ l = 2
    OBVIOUS
  <2>2. /\ l \in 2 .. 7 /\ queue[Stage(t)[l]] # <<>> /\ r \in Queues(Messages)
        /\ IsDiscard(queue, r, Stage(t)[l])
    BY <1>1, <1>3, <1>5, <2>1, StageNames
  <2>3. InOrder(Line(acked, r, t), PostedOnes)
    BY <2>2, LineLeft DEF DataOK, LinesInOrder
  <2>4. QED
    BY <1>5, <2>1, <2>3
<1>6. ASSUME NEW t \in Ordered, t = u, acked' = [acked EXCEPT ![u] = Append(@, m)]
      PROVE  InOrder(Line(acked', queue', t), PostedOnes)
  <2>1. PICK r, b : r = queue' /\ b = acked'
    OBVIOUS
  <2>2. b = [acked EXCEPT ![t] = Append(@, m)] /\ b \in [Topics -> Seq(Messages)]
    <3>1. acked[t] \in Seq(Messages) /\ acked \in [Topics -> Seq(Messages)] /\ t \in Topics
      BY <1>6 DEF DataOK
    <3>2. Append(acked[t], m) \in Seq(Messages)
      BY <1>3, <3>1, AtEnd
    <3>3. QED
      BY <1>6, <2>1, <3>1, <3>2
  <2>3. /\ r \in Queues(Messages) /\ queue[Outbound(t)] # <<>> /\ m = queue[Outbound(t)][1]
        /\ IsDiscard(queue, r, Outbound(t)) /\ InOrder(Line(acked, queue, t), PostedOnes)
    BY <1>1, <1>3, <1>6, <2>1 DEF LinesInOrder
  <2>4. InOrder(Line(b, r, t), PostedOnes)
    BY <1>3, <2>2, <2>3, LineAcked DEF DataOK
  <2>5. QED
    BY <2>1, <2>4
<1>7. ASSUME NEW t \in Ordered, t # u
      PROVE  Line(acked', queue', t) = Line(acked, queue, t)
  <2>1. \A c \in 2 .. 7 : queue'[Stage(t)[c]] = queue[Stage(t)[c]]
    <3>1. \A c \in 2 .. 7 : Stage(t)[c] \in Places \ {Outbound(u)}
      BY <1>7, OthersApart, StagesOf
    <3>2. QED
      BY <1>3, <3>1 DEF IsDiscard
  <2>2. acked'[t] = acked[t]
    <3>1. t \in Topics /\ acked \in [Topics -> Seq(Messages)]
      BY ProducerAssumption DEF DataOK
    <3>2. QED
      BY <1>4, <1>7, <3>1
  <2>3. QED
    BY <2>1, <2>2, LineStays
<1>8. QED
  BY <1>4, <1>5, <1>6, <1>7 DEF LinesAhead, LinesInOrder

\* Messages on their way into the buffer of a topic, or past it.
LEMMA ProduceInOrder ==
  ASSUME DataOK, LinesInOrder, NEW t \in Ordered, NEW u \in Topics,
         NEW l \in {5, 6}, NEW from, from = IF l = 5 THEN IO(u) ELSE TempQueue,
         queue[from] # <<>>, l = 6 => queue[IO(t)] = <<>>, ProduceMessage(from, u)
  PROVE  InOrder(Line(acked, queue', t), PostedOnes)
<1>1. /\ from \in Places /\ from \notin {Buffer(u), Outbound(u)} /\ Outbound(u) \in Places
      /\ u \in Ordered => Buffer(u) \in Places
  BY MyPlaces, PlacesDiffer
<1>2. /\ queue' \in Queues(Messages)
      /\ \/ IsDiscard(queue, queue', from) /\ u \notin Ordered
         \/ IsMove(queue, queue', from, Buffer(u)) /\ u \in Ordered
         \/ IsMove(queue, queue', from, Outbound(u)) /\ u \notin Ordered
  <2>1. CASE ProduceThrows(from, u)
    BY <1>1, <2>1, DiscardEffect DEF ProduceThrows
  <2>2. CASE u \in Ordered /\ Produce(from, u)
    BY <1>1, <2>2, MoveEffect DEF Produce
  <2>3. CASE u \notin Ordered /\ Produce(from, u)
    BY <1>1, <2>3, MoveEffect DEF Produce
  <2>4. QED
    BY <2>1, <2>2, <2>3 DEF ProduceMessage
<1>3. PICK r : r = queue'
  OBVIOUS
<1>4. CASE u = t
  <2>1. PICK k : k = 4
    OBVIOUS
  <2>2. /\ k \in 2 .. 7 /\ l \in 2 .. 7 /\ k < l
        /\ \A c \in 2 .. 7 : k < c /\ c < l => c = 5 /\ l = 6
    BY <2>1
  <2>3. Stage(t)[l] = from /\ Stage(t)[k] = Buffer(t) /\ Stage(t)[5] = IO(t)
    BY <1>4, <2>1, StageNames
  <2>4. /\ queue[Stage(t)[l]] # <<>> /\ r \in Queues(Messages)
        /\ \A c \in 2 .. 7 : k < c /\ c < l => queue[Stage(t)[c]] = <<>>
        /\ IsMove(queue, r, Stage(t)[l], Stage(t)[k])
    BY <1>2, <1>3, <1>4, <2>2, <2>3
  <2>5. InOrder(Line(acked, r, t), PostedOnes)
    BY <2>2, <2>4, LineAdvances DEF DataOK, LinesInOrder
  <2>6. QED
    BY <1>3, <2>5
<1>5. CASE u # t /\ l = 5
  <2>1. PICK away : away = {IO(u), Buffer(u), Outbound(u)}
    OBVIOUS
  <2>2. \A p \in Places \ away : r[p] = queue[p]
    BY <1>2, <1>3, <1>5, <2>1 DEF IsMove, IsDiscard
  <2>3. \A c \in 2 .. 7 : Stage(t)[c] \notin away
    BY <1>5, <2>1, OthersApart
  <2>4. Line(acked, r, t) = Line(acked, queue, t)
    BY <2>2, <2>3, LineApart
  <2>5. QED
    BY <1>3, <2>4 DEF LinesInOrder
<1>6. CASE u # t /\ l = 6
  <2>1. l \in 2 .. 7 /\ Stage(t)[l] = from
    BY <1>6, StageNames
  <2>2. \A c \in 2 .. 7 : Stage(t)[c] # Buffer(u) /\ Stage(t)[c] # Outbound(u)
    BY <1>6, OthersApart
  <2>3. \/ IsDiscard(queue, r, Stage(t)[l])
        \/ \E to : IsMove(queue, r, Stage(t)[l], to) /\ \A c \in 2 .. 7 : Stage(t)[c] # to
    BY <1>2, <1>3, <2>1, <2>2
  <2>4. queue[Stage(t)[l]] # <<>> /\ r \in Queues(Messages)
    BY <1>2, <1>3, <2>1
  <2>5. InOrder(Line(acked, r, t), PostedOnes)
    BY <2>1, <2>3, <2>4, LineLeft DEF DataOK, LinesInOrder
  <2>6. QED
    BY <1>3, <2>5
<1>7. QED
  BY <1>4, <1>5, <1>6

LEMMA IoProduceInOrder ==
  ASSUME DataOK, LinesInOrder, NEW u \in Topics, IoProduce(u)
  PROVE  LinesAhead
<1>1. queue[IO(u)] # <<>> /\ ProduceMessage(IO(u), u) /\ acked' = acked
  BY DEF IoProduce, history
<1>2. PICK l, from : l = 5 /\ from = IO(u)
  OBVIOUS
<1>3. /\ l \in {5, 6} /\ from = IF l = 5 THEN IO(u) ELSE TempQueue
      /\ queue[from] # <<>> /\ l # 6 /\ ProduceMessage(from, u)
  BY <1>1, <1>2
<1>4. \A t \in Ordered : InOrder(Line(acked, queue', t), PostedOnes)
  BY <1>3, ProduceInOrder
<1>5. QED
  BY <1>1, <1>4 DEF LinesAhead

LEMMA PostNextInOrder ==
  ASSUME DataOK, FanoutInv, switches \in 0 .. 1, LinesInOrder, PostNext
  PROVE  LinesAhead
<1>1. /\ queue[TempQueue] # <<>> /\ TempQueue \in Places /\ acked' = acked
      /\ queue[TempQueue] \in Seq(Messages)
  BY MyPlaces DEF PostNext, DataOK, Queues, history
<1>2. PICK m, u : m = Head(queue[TempQueue]) /\ u = message[m].topic
  OBVIOUS
<1>3. m \in Messages
  BY <1>1, <1>2, HeadTailProperties
<1>4. u \in Topics
  BY <1>2, <1>3, MessageAt DEF DataOK, Message
<1>5. IO(u) \in Places /\ IO(u) # TempQueue
  BY <1>4, MyPlaces, PlacesDiffer
<1>6. \/ Discard(TempQueue)
      \/ fanout /\ Move(TempQueue, IO(u))
      \/ ~fanout /\ ProduceMessage(TempQueue, u)
  BY <1>2 DEF PostNext
<1>7. PICK r, l : r = queue' /\ l = 6
  OBVIOUS
<1>8. ASSUME NEW t \in Ordered
      PROVE  InOrder(Line(acked, queue', t), PostedOnes)
  <2>1. l \in 2 .. 7 /\ Stage(t)[l] = TempQueue
    BY <1>7, StageNames
  <2>2. CASE Discard(TempQueue)
    <3>1. r \in Queues(Messages) /\ IsDiscard(queue, r, Stage(t)[l])
      BY <1>1, <1>7, <2>1, <2>2, DiscardEffect
    <3>2. InOrder(Line(acked, r, t), PostedOnes)
      BY <1>1, <2>1, <3>1, LineLeft DEF DataOK, LinesInOrder
    <3>3. QED
      BY <1>7, <3>2
  <2>3. CASE Move(TempQueue, IO(u)) /\ u = t
    <3>1. PICK k : k = 5
      OBVIOUS
    <3>2. /\ k \in 2 .. 7 /\ k < l /\ \A c \in 2 .. 7 : ~(k < c /\ c < l)
          /\ Stage(t)[k] = IO(u)
      BY <1>7, <2>3, <3>1, StageNames
    <3>3. r \in Queues(Messages) /\ IsMove(queue, r, Stage(t)[l], Stage(t)[k])
      BY <1>1, <1>5, <1>7, <2>1, <2>3, <3>2, MoveEffect
    <3>4. InOrder(Line(acked, r, t), PostedOnes)
      BY <1>1, <2>1, <3>2, <3>3, LineAdvances DEF DataOK, LinesInOrder
    <3>5. QED
      BY <1>7, <3>4
  <2>4. CASE Move(TempQueue, IO(u)) /\ u # t
    <3>1. r \in Queues(Messages) /\ IsMove(queue, r, Stage(t)[l], IO(u))
      BY <1>1, <1>5, <1>7, <2>1, <2>4, MoveEffect
    <3>2. \A c \in 2 .. 7 : Stage(t)[c] # IO(u)
      BY <2>4, OthersApart
    <3>3. InOrder(Line(acked, r, t), PostedOnes)
      BY <1>1, <2>1, <3>1, <3>2, LineLeft DEF DataOK, LinesInOrder
    <3>4. QED
      BY <1>7, <3>3
  <2>5. CASE ~fanout /\ ProduceMessage(TempQueue, u)
    <3>1. switches = 0
      BY <2>5 DEF FanoutInv
    <3>2. queue[IO(t)] = <<>>
      BY <3>1, ProducerAssumption DEF FanoutInv
    <3>3. PICK from : from = TempQueue
      OBVIOUS
    <3>4. /\ l \in {5, 6} /\ from = IF l = 5 THEN IO(u) ELSE TempQueue
          /\ queue[from] # <<>> /\ ProduceMessage(from, u)
      BY <1>1, <1>7, <2>5, <3>3
    <3>5. QED
      BY <1>4, <3>2, <3>4, ProduceInOrder
  <2>6. QED
    BY <1>6, <2>2, <2>3, <2>4, <2>5
<1>9. QED
  BY <1>1, <1>8 DEF LinesAhead

\* A new message is larger than all others, and alone to be new among the posted ones.
LEMMA NewestOfAll ==
  ASSUME DataOK, NEW u \in Topics, NEW posted \in BOOLEAN, NEW builder \in {"running", "ready"},
         NewMessage(u, posted, builder), NEW e, e = Len(message) + 1
  PROVE  /\ e \in Nat /\ Messages \in SUBSET Nat /\ Messages \subseteq Messages'
         /\ \A m \in Messages : m < e
         /\ PostedOnes' \subseteq PostedOnes \union (IF posted THEN {e} ELSE {})
<1>1. /\ Len(message) \in Nat /\ Len(message') = Len(message) + 1
      /\ \A i \in Messages : message'[i] = message[i]
      /\ message'[e].posted = posted
  BY MessageAt, NewMessageFacts DEF DataOK
<1>2. /\ e \in Nat /\ Messages \in SUBSET Nat /\ Messages \subseteq Messages'
      /\ \A m \in Messages : m < e
      /\ \A m \in Messages' : m \in Messages \/ m = e
  BY <1>1 DEF Messages
<1>3. ASSUME NEW m \in PostedOnes'
      PROVE  m \in PostedOnes \/ (m = e /\ posted)
  BY <1>1, <1>2 DEF PostedOnes
<1>4. QED
  BY <1>2, <1>3

LEMMA PostInOrder ==
  ASSUME TypeOK, DataOK, LinesInOrder, NEW p \in Posters, Post(p)
  PROVE  LinesInOrder'
<1>1. PICK e, u : e = Len(message) + 1 /\ u = poster[p]
  OBVIOUS
<1>2. u \in Topics /\ NewMessage(u, TRUE, "running") /\ acked' = acked
  BY <1>1 DEF Post, TypeOK, history
<1>3. /\ e \in Nat /\ Messages \in SUBSET Nat /\ Messages \subseteq Messages'
      /\ \A m \in Messages : m < e
      /\ PostedOnes' \subseteq PostedOnes \union {e}
  BY <1>1, <1>2, NewestOfAll
<1>4. queue' \in Queues(Messages') /\ IsJoin(queue, queue', MessageQueue, e)
  BY <1>1, PostEffect DEF MessageJoins
<1>5. PICK r, S, T, k, newSet :
        r = queue' /\ S = Messages /\ T = Messages' /\ k = 7 /\ newSet = PostedOnes'
  OBVIOUS
<1>6. ASSUME NEW t \in Ordered
      PROVE  InOrder(Line(acked, queue', t), PostedOnes')
  <2>1. k \in 2 .. 7 /\ IsJoin(queue, r, Stage(t)[k], e)
    BY <1>4, <1>5, StageNames
  <2>2. /\ S \in SUBSET Nat /\ S \subseteq T /\ r \in Queues(T) /\ queue \in Queues(S)
        /\ acked \in [Topics -> Seq(S)] /\ \A m \in S : m < e
        /\ newSet \subseteq PostedOnes \union {e}
    BY <1>3, <1>4, <1>5 DEF DataOK
  <2>3. InOrder(Line(acked, r, t), newSet)
    BY <1>3, <1>5, <2>1, <2>2, LineJoins DEF LinesInOrder
  <2>4. QED
    BY <1>5, <2>3
<1>7. QED
  BY <1>2, <1>6 DEF LinesInOrder

LEMMA SendInOrder ==
  ASSUME TypeOK, DataOK, LinesInOrder, NEW u \in Topics, Send(u)
  PROVE  LinesInOrder'
<1>1. PICK e : e = Len(message) + 1
  OBVIOUS
<1>2. NewMessage(u, FALSE, "ready") /\ acked' = acked
  BY DEF Send, history
<1>3. /\ e \in Nat /\ Messages \in SUBSET Nat /\ Messages \subseteq Messages'
      /\ \A m \in Messages : m < e
      /\ PostedOnes' \subseteq PostedOnes
  BY <1>1, <1>2, NewestOfAll
<1>4. queue' \in Queues(Messages') /\ IsJoin(queue, queue', Outbound(u), e)
  BY <1>1, SendEffect DEF MessageJoins
<1>5. PICK r, S, T, k, newSet :
        r = queue' /\ S = Messages /\ T = Messages' /\ k = 2 /\ newSet = PostedOnes'
  OBVIOUS
<1>6. ASSUME NEW t \in Ordered, t = u
      PROVE  InOrder(Line(acked, queue', t), PostedOnes')
  <2>1. k \in 2 .. 7 /\ IsJoin(queue, r, Stage(t)[k], e)
    BY <1>4, <1>5, <1>6, StageNames
  <2>2. /\ S \in SUBSET Nat /\ S \subseteq T /\ r \in Queues(T) /\ queue \in Queues(S)
        /\ acked \in [Topics -> Seq(S)] /\ \A m \in S : m < e
    BY <1>3, <1>4, <1>5 DEF DataOK
  <2>3. newSet \subseteq PostedOnes \union {e} /\ e \notin newSet
    <3>1. PostedOnes \subseteq Messages
      BY DEF PostedOnes
    <3>2. e \notin PostedOnes
      BY <1>3, <3>1
    <3>3. QED
      BY <1>3, <1>5, <3>2
  <2>4. InOrder(Line(acked, r, t), newSet)
    BY <1>3, <1>5, <2>1, <2>2, <2>3, LineJoins DEF LinesInOrder
  <2>5. QED
    BY <1>5, <2>4
<1>7. ASSUME NEW t \in Ordered, t # u
      PROVE  InOrder(Line(acked, queue', t), PostedOnes')
  <2>1. PICK away : away = {Outbound(u)}
    OBVIOUS
  <2>2. \A p \in Places \ away : r[p] = queue[p]
    BY <1>4, <1>5, <2>1 DEF IsJoin
  <2>3. \A c \in 2 .. 7 : Stage(t)[c] \notin away
    BY <1>7, <2>1, OthersApart
  <2>4. Line(acked, r, t) = Line(acked, queue, t)
    BY <2>2, <2>3, LineApart
  <2>5. PICK line : line = Line(acked, queue, t)
    OBVIOUS
  <2>6. InOrder(line, newSet)
    BY <1>3, <1>5, <2>5 DEF InOrder, LinesInOrder
  <2>7. QED
    BY <1>5, <2>4, <2>5, <2>6
<1>8. QED
  BY <1>2, <1>6, <1>7 DEF LinesInOrder

\* As long as no message is new, those posted are the same.
LEMMA AheadIsNext ==
  ASSUME LinesAhead, SameIdentities
  PROVE  LinesInOrder'
<1>1. PostedOnes' = PostedOnes
  BY DEF PostedOnes, SameIdentities, Messages
<1>2. QED
  BY <1>1 DEF LinesAhead, LinesInOrder

LEMMA LinesStay ==
  ASSUME LinesInOrder, queue' = queue, acked' = acked
  PROVE  LinesAhead
  BY DEF LinesInOrder, LinesAhead

LEMMA LinesKept ==
  ASSUME TypeOK, DataOK, FanoutInv, switches \in 0 .. 1, LinesInOrder, ~shuttingDown, Next
  PROVE  LinesInOrder'
<1>1. ASSUME NEW p \in Posters, Post(p)
      PROVE  LinesInOrder'
  BY <1>1, PostInOrder
<1>2. ASSUME NEW u \in Topics, Send(u)
      PROVE  LinesInOrder'
  BY <1>2, SendInOrder
<1>3. SUFFICES ASSUME \A p \in Posters : ~Post(p), \A u \in Topics : ~Send(u)
               PROVE  LinesInOrder'
  BY <1>1, <1>2
<1>4. UNCHANGED message => SameIdentities
  BY DEF SameIdentities, DataOK
<1>5. CASE ControlStep
  BY <1>4, <1>5, ControlStays, LinesStay, AheadIsNext
<1>6. ASSUME NEW m \in Messages, NEW outcome \in {"ready", "failed"}, Serialized(m, outcome)
      PROVE  LinesInOrder'
  <2>1. SameIdentities
    BY <1>6, SerializedFacts DEF DataOK
  <2>2. queue' = queue /\ acked' = acked
    BY <1>6 DEF Serialized, history
  <2>3. QED
    BY <2>1, <2>2, LinesStay, AheadIsNext
<1>7. CASE PostSwaps
  <2>1. UNCHANGED message
    BY <1>7 DEF PostSwaps
  <2>2. QED
    BY <1>4, <1>7, <2>1, SwapsInOrder, AheadIsNext
<1>8. CASE PostNext
  <2>1. SameIdentities
    BY <1>8, PostNextEffect, <1>4 DEF MessageMoves, MessageLeaves
  <2>2. QED
    BY <1>8, <2>1, PostNextInOrder, AheadIsNext
<1>9. ASSUME NEW u \in Topics, IoProduce(u)
      PROVE  LinesInOrder'
  <2>1. SameIdentities
    <3>1. queue[IO(u)] # <<>> /\ ProduceMessage(IO(u), u) /\ IO(u) \in {TempQueue, IO(u)}
      BY <1>9 DEF IoProduce
    <3>2. QED
      BY <1>4, <3>1, ProduceEffect DEF MessageMoves, MessageLeaves
  <2>2. QED
    BY <1>9, <2>1, IoProduceInOrder, AheadIsNext
<1>10. ASSUME NEW u \in Topics, BrokerAcks(u) \/ BrokerFails(u)
       PROVE  LinesInOrder'
  <2>1. SameIdentities
    BY <1>10, LeavesEffect, MyPlaces DEF MessageLeaves, BrokerAcks, BrokerFails
  <2>2. QED
    BY <1>10, <2>1, AnswerInOrder, AheadIsNext
<1>11. ASSUME NEW u \in Ordered, PollTask(u)
       PROVE  LinesInOrder'
  <2>1. UNCHANGED message
    BY <1>11 DEF PollTask
  <2>2. QED
    BY <1>4, <1>11, <2>1, PollTaskInOrder, AheadIsNext
<1>12. ASSUME NEW u \in Ordered, FlushNext(u)
       PROVE  LinesInOrder'
  <2>1. UNCHANGED message
    BY <1>12 DEF FlushNext
  <2>2. QED
    BY <1>4, <1>12, <2>1, FlushInOrder, AheadIsNext
<1>13. /\ \A u \in Topics : ~DrainProducer(u)
       /\ \A u \in Ordered : ~DrainNext(u) /\ ~DrainRefused(u)
  <2>1. \A u \in Topics : closing[u] = "todo"
    BY DEF TypeOK
  <2>2. \A u \in Ordered : queue[Drain(u)] = <<>>
    BY <2>1, MyPlaces DEF TypeOK
  <2>3. QED
    BY <2>2 DEF DrainProducer, DrainNext, DrainRefused
<1>14. ASSUME NEW u \in Ordered, FlushThrows(u)
       PROVE  LinesInOrder'
  <2>1. UNCHANGED message
    BY <1>14 DEF FlushThrows
  <2>2. QED
    BY <1>4, <1>14, <2>1, FlushThrowsInOrder, AheadIsNext
<1>15. QED
  BY <1>3, <1>5, <1>6, <1>7, <1>8, <1>9, <1>10, <1>11, <1>12, <1>13, <1>14, NextSteps

\* Only a turn of the post thread with fan-out on puts anything on an IO thread.
LEMMA IoStaysEmpty ==
  ASSUME DataOK, ~fanout, Next, NEW t \in Topics, queue[IO(t)] = <<>>
  PROVE  queue'[IO(t)] = <<>>
<1>1. /\ IO(t) \in Places /\ DOMAIN queue = Places /\ queue = [p \in Places |-> queue[p]]
      /\ IO(t) # MessageQueue /\ IO(t) # TempQueue
      /\ \A u : /\ IO(t) # Outbound(u) /\ IO(t) # Buffer(u) /\ IO(t) # Flush(u)
                /\ IO(t) # Drain(u)
  BY MyPlaces, PlacesDiffer DEF DataOK, Queues
<1>2. ASSUME NEW from, NEW to, from # IO(t), to # IO(t),
             Move(from, to) \/ TakeAll(from, to) \/ Discard(from)
      PROVE  queue'[IO(t)] = <<>>
  BY <1>1, <1>2 DEF Move, TakeAll, Discard
<1>3. ASSUME NEW to, to # IO(t), NEW e, queue' = [queue EXCEPT ![to] = Append(@, e)]
      PROVE  queue'[IO(t)] = <<>>
  BY <1>1, <1>3
<1>4. ASSUME NEW from, from # IO(t), NEW u, ProduceMessage(from, u)
      PROVE  queue'[IO(t)] = <<>>
  <2>1. Move(from, Buffer(u)) \/ Move(from, Outbound(u)) \/ Discard(from)
    BY <1>4 DEF ProduceMessage, Produce, ProduceThrows
  <2>2. QED
    BY <1>1, <1>2, <1>4, <2>1
<1>5. CASE ControlStep
  BY <1>5, ControlStays
<1>6. ASSUME NEW p \in Posters, Post(p)
      PROVE  queue'[IO(t)] = <<>>
  BY <1>1, <1>3, <1>6 DEF Post
<1>7. ASSUME NEW m \in Messages, NEW outcome \in {"ready", "failed"}, Serialized(m, outcome)
      PROVE  queue'[IO(t)] = <<>>
  BY <1>7 DEF Serialized
<1>8. CASE PostSwaps
  BY <1>1, <1>2, <1>8 DEF PostSwaps
<1>9. CASE PostNext
  <2>1. PICK u : Discard(TempQueue) \/ ProduceMessage(TempQueue, u)
    BY <1>9 DEF PostNext
  <2>2. QED
    BY <1>1, <1>2, <1>4, <2>1
<1>10. ASSUME NEW u \in Topics, Send(u)
       PROVE  queue'[IO(t)] = <<>>
  BY <1>1, <1>3, <1>10 DEF Send
<1>11. ASSUME NEW u \in Topics, IoProduce(u)
       PROVE  queue'[IO(t)] = <<>>
  <2>1. IO(u) # IO(t) /\ ProduceMessage(IO(u), u)
    BY <1>11 DEF IoProduce
  <2>2. QED
    BY <1>4, <2>1
<1>12. ASSUME NEW u \in Topics, BrokerAcks(u) \/ BrokerFails(u)
       PROVE  queue'[IO(t)] = <<>>
  BY <1>1, <1>2, <1>12 DEF BrokerAcks, BrokerFails
<1>13. ASSUME NEW u \in Topics, DrainProducer(u)
       PROVE  queue'[IO(t)] = <<>>
  BY <1>1, <1>2, <1>13 DEF DrainProducer
<1>14. ASSUME NEW u \in Ordered, PollTask(u) \/ FlushNext(u) \/ DrainNext(u)
       PROVE  queue'[IO(t)] = <<>>
  BY <1>1, <1>2, <1>14 DEF PollTask, FlushNext, DrainNext
<1>15. ASSUME NEW u \in Ordered, DrainRefused(u)
       PROVE  queue'[IO(t)] = <<>>
  <2>1. CASE Discard(Drain(u))
    BY <1>1, <1>2, <2>1
  <2>2. CASE queue' = [queue EXCEPT ![Drain(u)] = Tail(@),
                                    ![Buffer(u)] = <<Head(queue[Drain(u)])>> \o @]
    BY <1>1, <2>2
  <2>3. QED
    BY <1>15, <2>1, <2>2 DEF DrainRefused
<1>16. ASSUME NEW u \in Ordered, FlushThrows(u)
       PROVE  queue'[IO(t)] = <<>>
  BY <1>1, <1>16 DEF FlushThrows
<1>17. QED
  BY <1>5, <1>6, <1>7, <1>8, <1>9, <1>10, <1>11, <1>12, <1>13, <1>14, <1>15, <1>16, NextSteps

LEMMA FanoutKept ==
  ASSUME TypeOK, DataOK, FanoutInv, Next
  PROVE  FanoutInv'
<1>1. CASE EnableMessageFanout
  <2>1. switches' = switches + 1 /\ fanout' = ~fanout /\ switches \in Nat
    BY <1>1, ProducerAssumption DEF EnableMessageFanout, TypeOK
  <2>2. switches' # 0 /\ (switches' = 1 => switches = 0)
    BY <2>1
  <2>3. QED
    BY <2>1, <2>2 DEF FanoutInv
<1>2. CASE ~EnableMessageFanout
  <2>1. switches' = switches /\ fanout' = fanout
    <3>1. CASE ControlStep
      BY <1>2, <3>1 DEF ControlStep, PostThrows, CheckQueueLength, PostSleeps, PostEndsBatch,
         PostThreadEnds, Poll, PollTaskEnds, DrainEnds, PollThreadEnds, Shutdown, Interrupt,
         JoinThreads, DrainDispatcher
    <3>2. CASE ~ControlStep
      BY <3>2, NextSteps DEF Post, Serialized, PostSwaps, PostNext, Send, IoProduce, BrokerAcks,
         BrokerFails, DrainProducer, PollTask, FlushNext, FlushThrows, DrainNext, DrainRefused
    <3>3. QED
      BY <3>1, <3>2
  <2>2. ASSUME switches = 0, NEW t \in Topics
        PROVE  queue'[IO(t)] = <<>>
    BY <2>2, IoStaysEmpty DEF FanoutInv
  <2>3. QED
    BY <2>1, <2>2 DEF FanoutInv
<1>3. QED
  BY <1>1, <1>2

LEMMA SwitchesGrow ==
  ASSUME TypeOK, Next
  PROVE  /\ switches \in Nat /\ switches' \in Nat
         /\ switches' <= 1 => switches \in 0 .. 1
<1>1. switches \in Nat
  BY ProducerAssumption DEF TypeOK
<1>2. switches' = switches \/ switches' = switches + 1
  <2>1. CASE ControlStep
    BY <2>1 DEF ControlStep, PostThrows, CheckQueueLength, PostSleeps, PostEndsBatch,
       PostThreadEnds, Poll, PollTaskEnds, DrainEnds, PollThreadEnds, EnableMessageFanout,
       Shutdown, Interrupt, JoinThreads, DrainDispatcher
  <2>2. CASE ~ControlStep
    BY <2>2, NextSteps DEF Post, Serialized, PostSwaps, PostNext, Send, IoProduce, BrokerAcks,
       BrokerFails, DrainProducer, PollTask, FlushNext, FlushThrows, DrainNext, DrainRefused
  <2>3. QED
    BY <2>1, <2>2
<1>3. QED
  BY <1>1, <1>2

LEMMA OrderKept ==
  ASSUME TypeOK, OrderInv, Next
  PROVE  OrderInv'
<1>1. DataOK /\ FanoutInv
  BY TypeImpliesData DEF OrderInv
<1>2. ASSUME ~shuttingDown', switches' <= 1
      PROVE  LinesInOrder'
  <2>1. ~shuttingDown
    BY <1>2, ShutdownIsForGood
  <2>2. switches \in 0 .. 1 /\ switches <= 1
    BY <1>2, SwitchesGrow
  <2>3. LinesInOrder
    BY <2>1, <2>2 DEF OrderInv, LinesInOrder
  <2>4. QED
    BY <1>1, <2>1, <2>2, <2>3, LinesKept
<1>3. QED
  BY <1>1, <1>2, FanoutKept DEF OrderInv, LinesInOrder

LEMMA InitOrder == Init => OrderInv
<1>1. SUFFICES ASSUME Init
               PROVE  OrderInv
  OBVIOUS
<1>2. PostedOnes = {}
  <2>1. message = <<>>
    BY <1>1 DEF Init
  <2>2. Messages = 1 .. 0
    BY <2>1, EmptySeq DEF Messages
  <2>3. QED
    BY <2>2 DEF PostedOnes
<1>3. \A line : InOrder(line, {})
  BY DEF InOrder
<1>4. FanoutInv
  <2>1. switches = 0 /\ fanout = FALSE /\ queue = [p \in Places |-> <<>>]
    BY <1>1 DEF Init
  <2>2. \A t \in Topics : queue[IO(t)] = <<>>
    BY <2>1, MyPlaces
  <2>3. ~fanout /\ switches # 1
    BY <2>1
  <2>4. QED
    BY <2>2, <2>3 DEF FanoutInv
<1>5. QED
  BY <1>2, <1>3, <1>4 DEF OrderInv

\* What the broker accepted is the first stage.
LEMMA OrderOfAcked == TypeOK /\ OrderInv => OrderPreserved
<1>1. SUFFICES ASSUME TypeOK, OrderInv, ~shuttingDown, switches <= 1, NEW t \in Ordered,
                      NEW i \in DOMAIN acked[t], NEW j \in DOMAIN acked[t], i < j,
                      Posted(acked[t][i]), Posted(acked[t][j])
               PROVE  acked[t][i] < acked[t][j]
  BY DEF OrderPreserved
<1>2. PICK line : line = Line(acked, queue, t)
  OBVIOUS
<1>3. InOrder(line, PostedOnes) /\ line[1] = acked[t] /\ 1 \in Stages
  <2>1. line[1] = acked[t]
    BY <1>2, LineStages
  <2>2. InOrder(line, PostedOnes)
    BY <1>1, <1>2 DEF OrderInv
  <2>3. QED
    BY <2>1, <2>2 DEF Stages
<1>4. acked[t][i] \in Messages /\ acked[t][j] \in Messages
  <2>1. acked[t] \in Seq(Messages)
    BY <1>1, MyPlaces DEF TypeOK
  <2>2. QED
    BY <1>1, <2>1, ElementOfSeq
<1>5. acked[t][i] \in PostedOnes /\ acked[t][j] \in PostedOnes
  BY <1>1, <1>4 DEF PostedOnes, Posted
<1>6. QED
  BY <1>1, <1>3, <1>5 DEF InOrder

-------------------------------------------------------------------------------
(* Theorems                                                                *)

\* Every variable keeps its type, the post thread never sleeps on a message or through
\* a shutdown, and the queues that a thread keeps to itself are empty while it is idle.
THEOREM ManagerTypeCorrect == Spec => []TypeOK
<1>1. TypeOK /\ [Next]_vars => TypeOK'
  BY TypeOKKept, Stutter
<1>2. QED
  BY <1>1, InitTypeOK, PTL DEF Spec

\* Whatever the order of posts, batches, fan-outs, flushes, answers and a shutdown, a
\* message is in one queue at most, and its PackedOpaque is freed at most once and never
\* while a queue still holds the pointer to it.
THEOREM OneOwnerAlways == Spec => []OneOwner
<1>1. Init => OneOwner
  BY DEF Init, OneOwner, Messages
<1>2. TypeOK /\ OneOwner /\ [Next]_vars => OneOwner'
  BY OneOwnerKept, Stutter
<1>3. QED
  BY <1>1, <1>2, ManagerTypeCorrect, PTL DEF Spec

\* Until a shutdown begins, an ordered topic has one posted message at most that the
\* broker has not answered, whatever send() puts beside it.
THEOREM OneInFlightAlways == Spec => []OneInFlight
<1>1. Init => OneInFlight
  BY MyPlaces DEF Init, OneInFlight
<1>2. TypeOK /\ OneInFlight /\ [Next]_vars => OneInFlight'
  BY OneInFlightKept, Stutter
<1>3. QED
  BY <1>1, <1>2, ManagerTypeCorrect, PTL DEF Spec

\* Until a shutdown begins, and unless fan-out is switched off again, the broker accepts
\* what was posted to an ordered topic in the order of post(), whatever batches, IO
\* threads, flushes and failures came between.
THEOREM OrderPreservedAlways == Spec => []OrderPreserved
<1>1. TypeOK /\ OrderInv /\ [Next]_vars => OrderInv'
  <2>1. UNCHANGED vars /\ OrderInv => OrderInv'
    <3>1. UNCHANGED vars => /\ UNCHANGED <<queue, acked, switches, fanout, shuttingDown>>
                            /\ PostedOnes' = PostedOnes
      BY DEF vars, threadVars, closeVars, history, PostedOnes, Messages
    <3>2. QED
      BY <3>1 DEF OrderInv, FanoutInv
  <2>2. QED
    BY <2>1, OrderKept
<1>2. QED
  BY <1>1, InitOrder, OrderOfAcked, ManagerTypeCorrect, PTL DEF Spec

===============================================================================
