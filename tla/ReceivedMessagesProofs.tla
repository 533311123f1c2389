------------------------- MODULE ReceivedMessagesProofs -------------------------
(***************************************************************************)
(* Proofs about ReceivedMessages: its type invariant, with the threads     *)
(* that wait for an answer, that a message whose receiver threw is not     *)
(* persisted, and that an opaque is passed back once and for its message,  *)
(* for any messages, options, retries, commits and failures.               *)
(***************************************************************************)
EXTENDS ReceivedMessages, FiniteSetTheorems, SequenceTheorems, TLAPS

-------------------------------------------------------------------------------
(* The inductive invariant                                                 *)

\* What setup() makes of any options.
ConfigOK ==
  /\ config.api \in {"message", "manager"} /\ config.exec \in {"sync", "async"}
  /\ ~config.rdkafkaStores

Numbers == Opaques \union {NoOpaque}

Call == [how : {"none", "store", "sync", "async"}, list : Seq(Messages), opaque : Numbers,
         retries : 0 .. MaxRetries]

Entries == {Entry(m) : m \in Messages}

RequestRecord == [entries : Seq(Entries) \ {<<>>}, sync : BOOLEAN, opaque : Numbers]

Report == [position : {Position(e) : e \in Entries}, commitOf : Messages, inPlace : BOOLEAN]

CallsOK ==
  /\ state \in [Messages -> {"held", "committing", "dying", "waits", "dyingWaits", "gone"}]
  /\ persisted \in [Messages -> BOOLEAN]
  /\ call \in [Messages -> Call]
  /\ \A m \in Messages :
       Running(m) \/ Waits(m) => call[m].list # <<>> /\ Head(call[m].list) = m

OpaquesOK ==
  /\ offsets \in [Positions -> Numbers]
  /\ given \in Seq(Seq(Positions) \ {<<>>}) /\ Len(given) = calls /\ calls <= MaxCommits
  /\ reports \in [Opaques -> Seq(Report)]
  /\ callback \in [handled : Nat, opaques : Seq([opaque : Numbers, of : Nat])]

RdKafkaOK ==
  /\ requests \in Seq(RequestRecord) /\ events \in Seq(RequestRecord)
  /\ stored \in SUBSET Entries /\ IsFiniteSet(stored)
  /\ failures \in Nat /\ failures <= MaxFailures

DataOK == ConfigOK /\ CallsOK /\ OpaquesOK /\ RdKafkaOK

\* A synchronous commit and its caller, who waits for it.
WaitInv ==
  /\ \A m \in Messages :
       Waits(m) <=> \E i \in DOMAIN requests : IsCommitOf(requests[i], m)
  /\ \A i, j \in DOMAIN requests : \A m \in Messages :
       IsCommitOf(requests[i], m) /\ IsCommitOf(requests[j], m) => i = j

IsGivenTo(m) == \E o \in DOMAIN given : m \in Range(given[o])

IsIn(m, request) == \E i \in DOMAIN request.entries : request.entries[i].message = m

Unpersisted(m) ==
  /\ ~persisted[m] /\ \A e \in stored : e.message # m
  /\ \A i \in DOMAIN requests : ~IsIn(m, requests[i])

\* A message that the application has not committed is persisted only by its own
\* destructor, which leaves it alone if its receiver threw.
CleanInv ==
  \A m \in Messages : ~IsGivenTo(m) =>
    /\ state[m] = "held" => Unpersisted(m)
    /\ m \in threw /\ ~config.onException => Unpersisted(m) /\ state[m] = "gone"
    /\ \A n \in Messages :
         m \in Range(call[n].list) => n = m /\ state[m] \in {"dying", "dyingWaits"}

\* Where an opaque is: in the OffsetMap, under the position it was given with; in the
\* callback's vector, which knows the partition it was found for; or reported.
OpaqueInv ==
  /\ callback.handled > 0 =>
       events # <<>> /\ callback.handled < Len(Head(events).entries)
  /\ Len(callback.opaques) <= callback.handled
  /\ \A o \in Opaques :
       /\ \A p \in Positions : offsets[p] = o =>
            o <= calls /\ p = Head(given[o]) /\ reports[o] = <<>>
       /\ \A k \in DOMAIN callback.opaques : callback.opaques[k].opaque = o =>
            /\ o <= calls /\ reports[o] = <<>> /\ \A p \in Positions : offsets[p] # o
            /\ callback.opaques[k].of \in 1 .. callback.handled
            /\ Position(Head(events).entries[callback.opaques[k].of]) = Head(given[o])
            /\ \A l \in DOMAIN callback.opaques : callback.opaques[l].opaque = o => k = l
       /\ Len(reports[o]) <= 1 /\ (reports[o] # <<>> => o <= calls)
       /\ \A i \in DOMAIN reports[o] : reports[o][i].inPlace =>
            /\ reports[o][i].position = Head(given[o])
            /\ config.api = "message" => reports[o][i].commitOf = Head(given[o])

-------------------------------------------------------------------------------
(* The initial states                                                      *)

LEMMA MyMessages ==
  ASSUME NEW m \in Messages \union Ends
  PROVE  /\ m = [partition |-> m.partition, offset |-> m.offset]
         /\ m.partition \in Nat /\ m.offset \in Nat /\ m \in Positions
         /\ Preceding(Following(m)) = m
<1>1. m \in [partition : Nat, offset : Nat]
  BY ReceivedAssumption
<1>2. m = [partition |-> m.partition, offset |-> m.offset] /\ m.partition \in Nat /\ m.offset \in Nat
  BY <1>1
<1>3. Following(m) = [partition |-> m.partition, offset |-> m.offset + 1]
  BY <1>2 DEF Following
<1>4. Preceding([partition |-> m.partition, offset |-> m.offset + 1])
        = [partition |-> m.partition, offset |-> (m.offset + 1) - 1]
  BY DEF Preceding
<1>5. (m.offset + 1) - 1 = m.offset
  BY <1>2
<1>6. QED
  BY <1>2, <1>3, <1>4, <1>5 DEF Positions

LEMMA ConfigFacts == config \in Config => ConfigOK
<1> SUFFICES ASSUME config \in Config PROVE ConfigOK
  OBVIOUS
<1>1. PICK a \in {"message", "manager"}, callbacks \in SUBSET {"offsetCommit"},
           o \in {x \in Options : Accepted(Brokers ++ x, 1)} :
        config = [api |-> a] ++ PersistSettings(o, callbacks)
  BY DEF Config
<1>2. /\ config.api = a /\ config.autoPersist = AutoPersist(o)
      /\ config.exec = Given(o, "commit.exec", "async") /\ config.rdkafkaStores = RdKafkaStores(o)
  BY <1>1 DEF PersistSettings, ++
<1>3. ~config.rdkafkaStores
  <2>1. ~config.autoPersist => ~config.rdkafkaStores
    BY DEF Config
  <2>2. QED
    BY <1>2, <2>1 DEF RdKafkaStores
<1>4. config.exec \in {"sync", "async"}
  <2>1. AcceptsPersistence(Brokers ++ o)
    BY <1>1 DEF Accepted
  <2>2. Given(Brokers ++ o, "commit.exec", "async") = Given(o, "commit.exec", "async")
    BY DEF Given, IsGiven, Brokers, Option, ++
  <2>3. QED
    BY <1>2, <2>1, <2>2 DEF AcceptsPersistence
<1>5. QED
  BY <1>1, <1>2, <1>3, <1>4 DEF ConfigOK

LEMMA InitInv == Init => DataOK /\ WaitInv /\ CleanInv /\ OpaqueInv
<1> SUFFICES ASSUME Init PROVE DataOK /\ WaitInv /\ CleanInv /\ OpaqueInv
  OBVIOUS
<1>1. ConfigOK
  BY ConfigFacts DEF Init
<1>2. stored = {}
  BY <1>1 DEF Init, StoredByRdKafka, ConfigOK
<1>3. PICK received : state = [m \in Messages |-> IF m \in received THEN "held" ELSE "gone"]
  BY DEF Init
<1>4. /\ MaxRetries \in Nat /\ MaxCommits \in Nat /\ MaxFailures \in Nat
      /\ <<>> \in Seq(Messages) /\ Len(<<>>) = 0 /\ DOMAIN <<>> = {}
      /\ NoOpaque \in Numbers /\ NoOpaque \notin Opaques
  BY ReceivedAssumption DEF NoOpaque, Opaques, Numbers
<1>5. NoCall \in Call
  BY <1>4 DEF NoCall, Call
<1>6. CallsOK
  BY <1>3, <1>5 DEF Init, CallsOK, Running, Waits
<1>7. OpaquesOK
  BY <1>4 DEF Init, OpaquesOK, Idle
<1>8. RdKafkaOK
  BY <1>2, <1>4, FS_EmptySet DEF Init, RdKafkaOK
<1>9. WaitInv
  BY <1>3, <1>4 DEF Init, WaitInv, Waits
<1>10. CleanInv
  <2>1. /\ threw = {} /\ requests = <<>> /\ \A m \in Messages : ~persisted[m]
        /\ \A n \in Messages : call[n].list = <<>>
    BY DEF Init, NoCall
  <2>2. Range(<<>>) = {}
    BY <1>4 DEF Range
  <2>3. QED
    BY <1>2, <1>4, <2>1, <2>2 DEF CleanInv, Unpersisted
<1>11. OpaqueInv
  BY <1>4 DEF Init, OpaqueInv, Idle
<1>12. QED
  BY <1>1, <1>6, <1>7, <1>8, <1>9, <1>10, <1>11 DEF DataOK

-------------------------------------------------------------------------------
(* Parts of the steps                                                      *)

LEMMA SequenceFacts ==
  ASSUME NEW S, NEW s \in Seq(S)
  PROVE  /\ Len(s) \in Nat /\ DOMAIN s = 1 .. Len(s) /\ \A i \in DOMAIN s : s[i] \in S
         /\ s # <<>> => Len(s) > 0 /\ 1 \in DOMAIN s /\ Head(s) = s[1] /\ s[1] \in S
  BY LenProperties, ElementOfSeq, EmptySeq, HeadTailProperties

LEMMA AppendedFacts ==
  ASSUME NEW S, NEW s \in Seq(S), NEW e \in S
  PROVE  /\ Append(s, e) \in Seq(S) /\ Len(Append(s, e)) = Len(s) + 1
         /\ DOMAIN Append(s, e) = DOMAIN s \union {Len(s) + 1}
         /\ \A i \in DOMAIN s : Append(s, e)[i] = s[i] /\ i # Len(s) + 1
         /\ Append(s, e)[Len(s) + 1] = e
<1>1. /\ Append(s, e) \in Seq(S) /\ Len(Append(s, e)) = Len(s) + 1
      /\ \A i \in 1 .. Len(s) : Append(s, e)[i] = s[i]
      /\ Append(s, e)[Len(s) + 1] = e
  BY AppendProperties
<1>2. /\ Len(s) \in Nat /\ DOMAIN s = 1 .. Len(s)
      /\ DOMAIN Append(s, e) = 1 .. Len(Append(s, e))
  BY <1>1, LenProperties
<1>3. 1 .. Len(s) + 1 = (1 .. Len(s)) \union {Len(s) + 1}
  BY <1>2
<1>4. \A i \in 1 .. Len(s) : i # Len(s) + 1
  BY <1>2
<1>5. QED
  BY <1>1, <1>2, <1>3, <1>4

LEMMA TailFacts ==
  ASSUME NEW S, NEW s \in Seq(S), s # <<>>
  PROVE  /\ Tail(s) \in Seq(S)
         /\ \A i \in DOMAIN Tail(s) : i + 1 \in DOMAIN s /\ Tail(s)[i] = s[i + 1] /\ i + 1 # 1
         /\ \A i \in DOMAIN s : i # 1 => i - 1 \in DOMAIN Tail(s) /\ Tail(s)[i - 1] = s[i]
         /\ \A i, j \in DOMAIN Tail(s) : i + 1 = j + 1 => i = j
<1>1. /\ Tail(s) \in Seq(S) /\ Len(Tail(s)) = Len(s) - 1
      /\ \A i \in 1 .. Len(Tail(s)) : Tail(s)[i] = s[i + 1]
  BY HeadTailProperties
<1>2. /\ Len(s) \in Nat /\ Len(s) > 0 /\ DOMAIN s = 1 .. Len(s)
      /\ DOMAIN Tail(s) = 1 .. Len(Tail(s))
  BY <1>1, LenProperties, EmptySeq
<1>3. \A i \in 1 .. Len(Tail(s)) : i + 1 \in 1 .. Len(s) /\ i + 1 # 1
  BY <1>1, <1>2
<1>4. \A i \in 1 .. Len(s) : i # 1 => i - 1 \in 1 .. Len(Tail(s)) /\ (i - 1) + 1 = i
  BY <1>1, <1>2
<1>5. \A i, j \in 1 .. Len(Tail(s)) : i + 1 = j + 1 => i = j
  BY <1>1, <1>2
<1>6. QED
  BY <1>1, <1>2, <1>3, <1>4, <1>5

\* What rdkafka is given for a call: an entry for each message of its list.
LEMMA RequestFacts ==
  ASSUME NEW m \in Messages, call[m] \in Call, call[m].list # <<>>
  PROVE  /\ Request(m) \in RequestRecord
         /\ Request(m).sync <=> call[m].how = "sync"
         /\ Request(m).entries[1].message = Head(call[m].list)
         /\ \A n : IsIn(n, Request(m)) <=> n \in Range(call[m].list)
         /\ \A n : (\E e \in Range(Request(m).entries) : e.message = n) <=> n \in Range(call[m].list)
         /\ Range(Request(m).entries) \in SUBSET Entries /\ IsFiniteSet(Range(Request(m).entries))
<1> DEFINE l == call[m].list
           e == [i \in DOMAIN l |-> Entry(l[i])]
<1>1. l \in Seq(Messages) /\ l # <<>> /\ call[m].opaque \in Numbers
  BY DEF Call
<1>2. /\ Len(l) \in Nat /\ Len(l) > 0 /\ DOMAIN l = 1 .. Len(l) /\ 1 \in DOMAIN l
      /\ Head(l) = l[1] /\ \A i \in DOMAIN l : l[i] \in Messages
  BY <1>1, SequenceFacts
<1>3. Request(m) = [entries |-> e, sync |-> call[m].how = "sync", opaque |-> call[m].opaque]
  BY DEF Request
<1> HIDE DEF l
<1>4. DOMAIN e = DOMAIN l /\ \A i \in DOMAIN l : e[i] = Entry(l[i]) /\ e[i].message = l[i]
  BY DEF Entry
<1>5. e \in [1 .. Len(l) -> Entries]
  BY <1>2 DEF Entries
<1> HIDE DEF e
<1>6. e \in Seq(Entries) /\ e # <<>>
  BY <1>2, <1>4, <1>5, IsASeq, EmptySeq
<1>7. Request(m) \in RequestRecord
  BY <1>1, <1>3, <1>6 DEF RequestRecord
<1>8. \A n : (\E i \in DOMAIN e : e[i].message = n) <=> \E i \in DOMAIN l : l[i] = n
  BY <1>4
<1>9. Range(e) \in SUBSET Entries /\ IsFiniteSet(Range(e))
  <2>1. Range(e) \in SUBSET Entries
    BY <1>2, <1>4, <1>5 DEF Range
  <2>2. e \in Surjection(1 .. Len(l), Range(e))
    BY <1>2, <1>4, <1>5 DEF Range, Surjection
  <2>3. IsFiniteSet(1 .. Len(l))
    BY <1>2, FS_Interval
  <2>4. QED
    BY <2>1, <2>2, <2>3, FS_Surjection
<1>10. \A n : (\E x \in Range(e) : x.message = n) <=> \E i \in DOMAIN l : l[i] = n
  BY <1>8 DEF Range
<1>11. \A n : n \in Range(l) <=> \E i \in DOMAIN l : l[i] = n
  BY DEF Range
<1>12. e[1].message = Head(l)
  <2>1. 1 \in DOMAIN l /\ l[1] = Head(l)
    BY <1>2
  <2>2. QED
    BY <1>4, <2>1
<1>13. Request(m).entries = e /\ Request(m).sync = (call[m].how = "sync")
  <2> DEFINE sync == call[m].how = "sync"
  <2> HIDE DEF sync
  <2>1. Request(m) = [entries |-> e, sync |-> sync, opaque |-> call[m].opaque]
    BY <1>3 DEF sync
  <2>2. Request(m).entries = e /\ Request(m).sync = sync
    BY <2>1
  <2>3. QED
    BY <2>2 DEF sync
<1>14. QED
  BY <1>7, <1>8, <1>9, <1>10, <1>11, <1>12, <1>13 DEF IsIn, l

\* A call that ends, or is tried again; nothing else of it changes.
Ended(m) ==
  /\ state' = [state EXCEPT ![m] = IF state[m] \in {"dying", "dyingWaits"} THEN "gone" ELSE "held"]
  /\ call' = [call EXCEPT ![m] = NoCall]

TriedAgain(m) ==
  /\ state' = [state EXCEPT ![m] =
                 IF state[m] \in {"dying", "dyingWaits"} THEN "dying" ELSE "committing"]
  /\ call' = [call EXCEPT ![m].retries = @ - 1] /\ call[m].retries > 0

LEMMA CallGoesOn ==
  ASSUME CallsOK, NEW m \in Messages, Ended(m) \/ (TriedAgain(m) /\ (Running(m) \/ Waits(m)))
  PROVE  /\ state' \in [Messages -> {"held", "committing", "dying", "waits", "dyingWaits", "gone"}]
         /\ call' \in [Messages -> Call]
         /\ \A n \in Messages : n # m => state'[n] = state[n] /\ call'[n] = call[n]
         /\ ~Waits(m)'
         /\ state[m] \in {"dying", "dyingWaits"} => state'[m] \in {"dying", "gone"}
         /\ state[m] \notin {"dying", "dyingWaits"} => state'[m] \in {"committing", "held"}
         /\ state'[m] \in {"committing", "dying"} => call'[m].list = call[m].list /\ (Running(m) \/ Waits(m))
         /\ state'[m] \in {"held", "gone"} => call'[m].list = <<>>
<1>1. /\ state \in [Messages -> {"held", "committing", "dying", "waits", "dyingWaits", "gone"}]
      /\ call \in [Messages -> Call]
  BY DEF CallsOK
<1>2. NoCall \in Call /\ NoCall.list = <<>>
  BY ReceivedAssumption DEF NoCall, Call, Numbers, NoOpaque
<1>3. CASE Ended(m)
  <2>1. call' = [call EXCEPT ![m] = NoCall] /\ call'[m] = NoCall
    BY <1>1, <1>3 DEF Ended
  <2>2. state'[m] = IF state[m] \in {"dying", "dyingWaits"} THEN "gone" ELSE "held"
    BY <1>1, <1>3 DEF Ended
  <2>3. QED
    BY <1>1, <1>2, <1>3, <2>1, <2>2 DEF Ended, Waits
<1>4. CASE TriedAgain(m) /\ (Running(m) \/ Waits(m))
  <2>1. call[m] \in Call /\ call[m].retries \in 0 .. MaxRetries /\ call[m].retries > 0
    BY <1>1, <1>4 DEF TriedAgain, Call
  <2>2. call[m].retries - 1 \in 0 .. MaxRetries
    BY <2>1, ReceivedAssumption
  <2> DEFINE c == [call[m] EXCEPT !.retries = @ - 1]
  <2>3. c \in Call /\ c.list = call[m].list
    BY <2>1, <2>2 DEF Call
  <2>4. call' = [call EXCEPT ![m] = c]
    BY <1>1, <1>4 DEF TriedAgain
  <2> HIDE DEF c
  <2>5. call' \in [Messages -> Call] /\ call'[m].list = call[m].list
    BY <1>1, <2>3, <2>4
  <2>6. \A n \in Messages : n # m => call'[n] = call[n]
    BY <1>1, <2>4
  <2>7. state'[m] = IF state[m] \in {"dying", "dyingWaits"} THEN "dying" ELSE "committing"
    BY <1>1, <1>4 DEF TriedAgain
  <2>8. QED
    BY <1>1, <1>4, <2>5, <2>6, <2>7 DEF TriedAgain, Waits
<1>5. QED
  BY <1>3, <1>4

LEMMA ReturnedEnds ==
  ASSUME NEW m, Returned(m)
  PROVE  Ended(m)
  BY DEF Returned, Ended

LEMMA AttemptFacts ==
  ASSUME CallsOK, NEW m \in Messages, NEW result, AttemptEnds(m, result)
  PROVE  /\ Ended(m) \/ TriedAgain(m)
         /\ persisted' \in [Messages -> BOOLEAN]
         /\ \A n \in Messages : n # m \/ result # "ok" => persisted'[n] = persisted[n]
<1>1. persisted' \in [Messages -> BOOLEAN] /\ \A n \in Messages : n # m \/ result # "ok" => persisted'[n] = persisted[n]
  BY DEF AttemptEnds, MarkPersisted, CallsOK
<1>2. Ended(m) \/ TriedAgain(m)
  BY ReturnedEnds DEF AttemptEnds, TriedAgain
<1>3. QED
  BY <1>1, <1>2

\* What rdkafka is given, and gives back, depends on whose commit() is called.
LEMMA ConfigKept ==
  ASSUME config' = config
  PROVE  /\ Entries' = Entries /\ RequestRecord' = RequestRecord /\ Report' = Report
         /\ ConfigOK => ConfigOK'
  BY DEF Entries, Entry, RequestRecord, Report, ConfigOK

\* What the beginning of commit() leaves of the opaques' state.
LEMMA TakeOpaqueFacts ==
  ASSUME OpaquesOK, config' = config, NEW list \in Seq(Positions) \ {<<>>}, NEW o \in Numbers,
         TakeOpaque(list, o), UNCHANGED <<callback, reports>>
  PROVE  /\ OpaquesOK' /\ calls' = calls + 1 /\ calls \in Nat
         /\ \A q \in 1 .. calls : q \in DOMAIN given' /\ given'[q] = given[q]
         /\ calls + 1 \in DOMAIN given' /\ given'[calls + 1] = list /\ Head(list) \in Positions
         /\ o \in {NoOpaque, calls + 1}
         /\ offsets' = offsets \/ (offsets' = [offsets EXCEPT ![Head(list)] = o] /\ o # NoOpaque)
<1>1. /\ given \in Seq(Seq(Positions) \ {<<>>}) /\ Len(given) = calls
      /\ offsets \in [Positions -> Numbers]
  BY DEF OpaquesOK
<1>2. /\ calls < MaxCommits /\ o \in {NoOpaque, calls + 1} /\ calls' = calls + 1
      /\ given' = Append(given, list)
      /\ offsets' = IF TakesOpaque(o) THEN [offsets EXCEPT ![Head(list)] = o] ELSE offsets
  BY DEF TakeOpaque, Key
<1>3. /\ given' \in Seq(Seq(Positions) \ {<<>>}) /\ Len(given') = Len(given) + 1
      /\ \A i \in DOMAIN given : i \in DOMAIN given' /\ given'[i] = given[i]
      /\ Len(given) + 1 \in DOMAIN given' /\ given'[Len(given) + 1] = list
  <2>1. list \in Seq(Positions) \ {<<>>}
    OBVIOUS
  <2>2. QED
    BY <1>1, <1>2, <2>1, AppendedFacts
<1>4. DOMAIN given = 1 .. calls /\ calls \in Nat
  BY <1>1, SequenceFacts
<1>5. Head(list) \in Positions
  BY SequenceFacts
<1>6. /\ offsets' \in [Positions -> Numbers]
      /\ offsets' = offsets \/ (offsets' = [offsets EXCEPT ![Head(list)] = o] /\ o # NoOpaque)
  BY <1>1, <1>2, <1>5 DEF TakesOpaque
<1>7. calls' <= MaxCommits
  BY <1>2, <1>4, ReceivedAssumption
<1>8. OpaquesOK'
  BY <1>1, <1>2, <1>3, <1>6, <1>7, ConfigKept DEF OpaquesOK
<1>9. QED
  BY <1>1, <1>2, <1>3, <1>4, <1>5, <1>6, <1>8

\* The list of a commit() call.
LEMMA ListFacts ==
  ASSUME NEW m \in Messages, NEW rest \in {<<>>} \union {<<n>> : n \in Messages}
  PROVE  /\ <<m>> \o rest \in Seq(Messages) /\ <<m>> \o rest \in Seq(Positions) \ {<<>>}
         /\ Head(<<m>> \o rest) = m /\ m \in Range(<<m>> \o rest)
<1> DEFINE list == <<m>> \o rest
<1>1. <<m>> \in Seq(Messages) /\ Len(<<m>>) = 1 /\ <<m>>[1] = m
  OBVIOUS
<1>2. rest \in Seq(Messages) /\ Len(rest) \in Nat
  <2>1. CASE rest = <<>>
    BY <2>1
  <2>2. CASE rest # <<>>
    <3>1. PICK n \in Messages : rest = <<n>>
      BY <2>2
    <3>2. <<n>> \in Seq(Messages) /\ Len(<<n>>) \in Nat
      OBVIOUS
    <3>3. QED
      BY <3>1, <3>2
  <2>3. QED
    BY <2>1, <2>2
<1>3. /\ list \in Seq(Messages) /\ Len(list) = 1 + Len(rest)
      /\ \A i \in 1 .. 1 + Len(rest) : list[i] = IF i <= 1 THEN <<m>>[i] ELSE rest[i - 1]
  BY <1>1, <1>2, ConcatProperties
<1>4. 1 \in 1 .. 1 + Len(rest)
  BY <1>2
<1> HIDE DEF list
<1>5. list[1] = m /\ list # <<>> /\ Head(list) = list[1] /\ 1 \in DOMAIN list
  BY <1>1, <1>2, <1>3, <1>4
<1>6. \A n \in Messages : n \in Positions
  BY DEF Positions
<1>7. list \in Seq(Positions)
  BY <1>3, <1>6
<1>8. m \in Range(list)
  BY <1>5 DEF Range
<1>9. QED
  BY <1>3, <1>5, <1>7, <1>8 DEF list

LEMMA HowSetFacts ==
  ASSUME ConfigOK
  PROVE  HowSet \in {"store", "sync", "async"}
  BY DEF HowSet, ConfigOK

-------------------------------------------------------------------------------
(* The types                                                               *)

LEMMA CommitCallData ==
  ASSUME DataOK, NEW m \in Messages, NEW rest \in {<<>>} \union {<<n>> : n \in Messages},
         NEW o \in {NoOpaque} \union Opaques, NEW forceSync \in BOOLEAN,
         CommitCall(m, rest, o, forceSync)
  PROVE  DataOK'
<1> DEFINE list == <<m>> \o rest
           how  == IF forceSync THEN "sync" ELSE HowSet
           c    == [how |-> how, list |-> list, opaque |-> o, retries |-> MaxRetries]
<1>1. /\ TakeOpaque(list, o) /\ state' = [state EXCEPT ![m] = "committing"]
      /\ call' = [call EXCEPT ![m] = c]
      /\ UNCHANGED <<config, persisted, rdkafka, callback, failures, reports>>
  BY DEF CommitCall
<1>2. list \in Seq(Messages) /\ list \in Seq(Positions) \ {<<>>} /\ Head(list) = m
  BY ListFacts
<1>3. o \in Numbers /\ MaxRetries \in 0 .. MaxRetries
  BY ReceivedAssumption DEF Numbers
<1>4. how \in {"none", "store", "sync", "async"}
  BY HowSetFacts DEF DataOK
<1> HIDE DEF list, how
<1>5. c \in Call /\ c.list = list
  BY <1>2, <1>3, <1>4 DEF Call
<1> HIDE DEF c
<1>6. OpaquesOK'
  BY <1>1, <1>2, <1>3, TakeOpaqueFacts DEF DataOK
<1>7. CallsOK'
  <2>1. CallsOK
    BY DEF DataOK
  <2>2. call' \in [Messages -> Call] /\ call'[m] = c /\ \A n \in Messages \ {m} : call'[n] = call[n]
    BY <1>1, <1>5, <2>1 DEF CallsOK
  <2>3. \A n \in Messages \ {m} : state'[n] = state[n]
    BY <1>1, <2>1 DEF CallsOK
  <2>4. c.list # <<>> /\ Head(c.list) = m
    BY <1>2, <1>5
  <2>5. QED
    BY <1>1, <2>1, <2>2, <2>3, <2>4 DEF CallsOK, Running, Waits
<1>8. QED
  BY <1>1, <1>6, <1>7, ConfigKept DEF DataOK, RdKafkaOK, rdkafka

LEMMA CommitAtEndData ==
  ASSUME DataOK, NEW end \in Ends, NEW o \in {NoOpaque} \union Opaques, CommitAtEnd(end, o)
  PROVE  DataOK'
<1>1. /\ TakeOpaque(<<end>>, o)
      /\ UNCHANGED <<config, callVars, rdkafka, callback, failures, reports>>
  BY DEF CommitAtEnd
<1>2. <<end>> \in Seq(Positions) \ {<<>>} /\ o \in Numbers
  BY DEF Positions, Numbers
<1>3. OpaquesOK'
  BY <1>1, <1>2, TakeOpaqueFacts DEF DataOK
<1>4. CallsOK'
  BY <1>1 DEF DataOK, CallsOK, callVars, Running, Waits
<1>5. QED
  BY <1>1, <1>3, <1>4, ConfigKept DEF DataOK, RdKafkaOK, rdkafka

LEMMA DestroyData ==
  ASSUME DataOK, NEW m \in Messages, NEW exception \in BOOLEAN, Destroy(m, exception)
  PROVE  DataOK'
<1> DEFINE c == IF Persists(m, exception)
                THEN [how |-> HowSet, list |-> <<m>>, opaque |-> NoOpaque, retries |-> MaxRetries]
                ELSE NoCall
<1>1. /\ state' = [state EXCEPT ![m] = IF Persists(m, exception) THEN "dying" ELSE "gone"]
      /\ call' = [call EXCEPT ![m] = c]
      /\ UNCHANGED <<config, persisted, offsets, rdkafka, callback, calls, failures, given, reports>>
  BY DEF Destroy
<1>2. CallsOK
  BY DEF DataOK
<1>3. c \in Call /\ (Persists(m, exception) => c.list = <<m>>)
  <2>1. NoOpaque \in Numbers /\ MaxRetries \in 0 .. MaxRetries /\ 0 \in 0 .. MaxRetries
    BY ReceivedAssumption DEF Numbers
  <2>2. HowSet \in {"none", "store", "sync", "async"} /\ <<m>> \in Seq(Messages) /\ <<>> \in Seq(Messages)
    BY HowSetFacts DEF DataOK
  <2>3. QED
    BY <2>1, <2>2 DEF Call, NoCall
<1> HIDE DEF c
<1>4. call' \in [Messages -> Call] /\ call'[m] = c /\ \A n \in Messages \ {m} : call'[n] = call[n]
  BY <1>1, <1>2, <1>3 DEF CallsOK
<1>5. /\ \A n \in Messages \ {m} : state'[n] = state[n]
      /\ state'[m] = IF Persists(m, exception) THEN "dying" ELSE "gone"
  BY <1>1, <1>2 DEF CallsOK
<1>6. <<m>> # <<>> /\ Head(<<m>>) = m
  OBVIOUS
<1>7. CallsOK'
  <2>1. state' \in [Messages -> {"held", "committing", "dying", "waits", "dyingWaits", "gone"}]
    BY <1>1, <1>2 DEF CallsOK
  <2>2. persisted' \in [Messages -> BOOLEAN]
    BY <1>1, <1>2 DEF CallsOK
  <2>3. Running(m)' \/ Waits(m)' => call'[m].list # <<>> /\ Head(call'[m].list) = m
    BY <1>3, <1>4, <1>5, <1>6 DEF Running, Waits
  <2>4. \A n \in Messages \ {m} : Running(n)' \/ Waits(n)' => call'[n].list # <<>> /\ Head(call'[n].list) = n
    BY <1>2, <1>4, <1>5 DEF CallsOK, Running, Waits
  <2>5. QED
    BY <1>4, <2>1, <2>2, <2>3, <2>4 DEF CallsOK
<1>8. QED
  BY <1>1, <1>7, ConfigKept DEF DataOK, OpaquesOK, RdKafkaOK, rdkafka

\* A step of the call on m, or an answer it waited for.
LEMMA CallsKept ==
  ASSUME CallsOK, NEW m \in Messages, Ended(m) \/ (TriedAgain(m) /\ (Running(m) \/ Waits(m))),
         persisted' \in [Messages -> BOOLEAN]
  PROVE  CallsOK'
<1>1. /\ state' \in [Messages -> {"held", "committing", "dying", "waits", "dyingWaits", "gone"}]
      /\ call' \in [Messages -> Call]
      /\ \A n \in Messages : n # m => state'[n] = state[n] /\ call'[n] = call[n]
      /\ ~Waits(m)'
      /\ state'[m] \in {"committing", "dying"} => call'[m].list = call[m].list /\ (Running(m) \/ Waits(m))
  BY CallGoesOn
<1>2. \A n \in Messages : Running(n) \/ Waits(n) => call[n].list # <<>> /\ Head(call[n].list) = n
  BY DEF CallsOK
<1>3. Running(m)' \/ Waits(m)' => call'[m].list # <<>> /\ Head(call'[m].list) = m
  BY <1>1, <1>2 DEF Running
<1>4. \A n \in Messages : n # m =>
        (Running(n)' \/ Waits(n)' => call'[n].list # <<>> /\ Head(call'[n].list) = n)
  BY <1>1, <1>2 DEF Running, Waits
<1>5. QED
  BY <1>1, <1>3, <1>4 DEF CallsOK

LEMMA RunningFacts ==
  ASSUME CallsOK, NEW m \in Messages, Running(m) \/ Waits(m)
  PROVE  call[m] \in Call /\ call[m].list # <<>> /\ Head(call[m].list) = m /\ m \in Range(call[m].list)
<1>1. call[m] \in Call /\ call[m].list # <<>> /\ Head(call[m].list) = m
  BY DEF CallsOK
<1>2. call[m].list \in Seq(Messages)
  BY <1>1 DEF Call
<1>3. 1 \in DOMAIN call[m].list /\ call[m].list[1] = m
  BY <1>1, <1>2, SequenceFacts
<1>4. QED
  BY <1>1, <1>3 DEF Range

LEMMA StoreOffsetData ==
  ASSUME DataOK, NEW m \in Messages, StoreOffset(m)
  PROVE  DataOK'
<1> DEFINE new == Range(Request(m).entries)
           old == {e \in stored : \A n \in new : n.position.partition # e.position.partition}
<1>1. /\ Running(m) /\ stored' = new \union old /\ MarkPersisted(m) /\ Returned(m)
      /\ UNCHANGED <<config, offsets, requests, events, callback, calls, failures, given, reports>>
  BY DEF StoreOffset
<1>2. CallsOK /\ RdKafkaOK
  BY DEF DataOK
<1>3. new \in SUBSET Entries /\ IsFiniteSet(new)
  BY <1>1, <1>2, RunningFacts, RequestFacts
<1>4. old \in SUBSET Entries /\ IsFiniteSet(old)
  BY <1>2, FS_Subset DEF RdKafkaOK
<1> HIDE DEF new, old
<1>5. stored' \in SUBSET Entries /\ IsFiniteSet(stored')
  BY <1>1, <1>3, <1>4, FS_Union
<1>6. persisted' \in [Messages -> BOOLEAN]
  BY <1>1, <1>2 DEF MarkPersisted, CallsOK
<1>7. CallsOK'
  BY <1>1, <1>2, <1>6, ReturnedEnds, CallsKept
<1>8. QED
  BY <1>1, <1>5, <1>7, ConfigKept DEF DataOK, OpaquesOK, RdKafkaOK

LEMMA AsyncCommitData ==
  ASSUME DataOK, NEW m \in Messages, AsyncCommit(m)
  PROVE  DataOK'
<1>1. /\ Running(m) /\ requests' = Append(requests, Request(m)) /\ MarkPersisted(m) /\ Returned(m)
      /\ UNCHANGED <<config, offsets, events, stored, callback, calls, failures, given, reports>>
  BY DEF AsyncCommit
<1>2. CallsOK /\ requests \in Seq(RequestRecord)
  BY DEF DataOK, RdKafkaOK
<1>3. Request(m) \in RequestRecord
  BY <1>1, <1>2, RunningFacts, RequestFacts
<1>4. requests' \in Seq(RequestRecord)
  BY <1>1, <1>2, <1>3, AppendedFacts
<1>5. persisted' \in [Messages -> BOOLEAN]
  BY <1>1, <1>2 DEF MarkPersisted, CallsOK
<1>6. CallsOK'
  BY <1>1, <1>2, <1>5, ReturnedEnds, CallsKept
<1>7. QED
  BY <1>1, <1>4, <1>6, ConfigKept DEF DataOK, OpaquesOK, RdKafkaOK

LEMMA SyncCommitData ==
  ASSUME DataOK, NEW m \in Messages, SyncCommit(m)
  PROVE  DataOK'
<1>1. /\ Running(m) /\ requests' = Append(requests, Request(m))
      /\ state' = [state EXCEPT ![m] = IF state[m] = "dying" THEN "dyingWaits" ELSE "waits"]
      /\ UNCHANGED <<config, persisted, call, offsets, events, stored, callback, calls, failures,
                     given, reports>>
  BY DEF SyncCommit
<1>2. CallsOK /\ requests \in Seq(RequestRecord)
  BY DEF DataOK, RdKafkaOK
<1>3. Request(m) \in RequestRecord
  BY <1>1, <1>2, RunningFacts, RequestFacts
<1>4. requests' \in Seq(RequestRecord)
  BY <1>1, <1>2, <1>3, AppendedFacts
<1>5. CallsOK'
  BY <1>1, <1>2 DEF CallsOK, Running, Waits
<1>6. QED
  BY <1>1, <1>4, <1>5, ConfigKept DEF DataOK, OpaquesOK, RdKafkaOK

LEMMA CommitThrowsData ==
  ASSUME DataOK, NEW m \in Messages, NEW result, CommitThrows(m, result)
  PROVE  DataOK'
<1>1. /\ Running(m) /\ failures < MaxFailures /\ failures' = failures + 1 /\ AttemptEnds(m, result)
      /\ UNCHANGED <<config, offsets, rdkafka, callback, calls, given, reports>>
  BY DEF CommitThrows
<1>2. CallsOK /\ failures \in Nat
  BY DEF DataOK, RdKafkaOK
<1>3. CallsOK'
  BY <1>1, <1>2, AttemptFacts, CallsKept
<1>4. failures' \in Nat /\ failures' <= MaxFailures
  BY <1>1, <1>2, ReceivedAssumption
<1>5. QED
  BY <1>1, <1>3, <1>4, ConfigKept DEF DataOK, OpaquesOK, RdKafkaOK, rdkafka

\* The head of the requests, and who waits for its answer.
LEMMA HeadFacts ==
  ASSUME DataOK, WaitInv, requests # <<>>
  PROVE  /\ Head(requests) = requests[1] /\ 1 \in DOMAIN requests /\ Head(requests) \in RequestRecord
         /\ Head(requests).entries[1].message \in Messages
         /\ Head(requests).sync => Waits(Head(requests).entries[1].message)
<1>1. requests \in Seq(RequestRecord)
  BY DEF DataOK, RdKafkaOK
<1>2. /\ Head(requests) = requests[1] /\ 1 \in DOMAIN requests /\ requests[1] \in RequestRecord
  BY <1>1, SequenceFacts
<1>3. requests[1].entries \in Seq(Entries) /\ requests[1].entries # <<>>
  BY <1>2 DEF RequestRecord
<1>4. requests[1].entries[1] \in Entries
  BY <1>3, SequenceFacts
<1>5. requests[1].entries[1].message \in Messages
  BY <1>4 DEF Entries, Entry
<1>6. requests[1].sync => Waits(requests[1].entries[1].message)
  BY <1>2, <1>5 DEF WaitInv, IsCommitOf
<1>7. QED
  BY <1>2, <1>5, <1>6

LEMMA AnswerData ==
  ASSUME DataOK, WaitInv, NEW result, Answer(result)
  PROVE  DataOK'
<1> DEFINE r == Head(requests)
           m == r.entries[1].message
<1>1. /\ requests # <<>> /\ requests' = Tail(requests)
      /\ result # "ok" => failures < MaxFailures
      /\ failures' = failures + IF result = "ok" THEN 0 ELSE 1
      /\ events' = IF config.callback THEN Append(events, r) ELSE events
      /\ IF r.sync THEN AttemptEnds(m, result) ELSE UNCHANGED callVars
      /\ UNCHANGED <<config, offsets, stored, callback, calls, given, reports>>
  BY DEF Answer
<1>2. CallsOK /\ RdKafkaOK
  BY DEF DataOK
<1>3. r \in RequestRecord /\ m \in Messages /\ (r.sync => Waits(m))
  BY <1>1, HeadFacts
<1> HIDE DEF r, m
<1>4. CallsOK'
  <2>1. CASE r.sync
    BY <1>1, <1>2, <1>3, <2>1, AttemptFacts, CallsKept
  <2>2. CASE ~r.sync
    BY <1>1, <1>2, <2>2 DEF CallsOK, callVars, Running, Waits
  <2>3. QED
    BY <2>1, <2>2
<1>5. failures' \in Nat /\ failures' <= MaxFailures
  BY <1>1, <1>2, ReceivedAssumption DEF RdKafkaOK
<1>6. requests' \in Seq(RequestRecord)
  BY <1>1, <1>2, TailFacts DEF RdKafkaOK
<1>7. events' \in Seq(RequestRecord)
  BY <1>1, <1>2, <1>3, AppendedFacts DEF RdKafkaOK
<1>8. QED
  BY <1>1, <1>2, <1>4, <1>5, <1>6, <1>7, ConfigKept DEF DataOK, OpaquesOK, RdKafkaOK

\* What rdkafka's timer commits has an entry for what is stored, and no other.
LEMMA AutoCommitFacts ==
  ASSUME DataOK, AutoCommit
  PROVE  \E r \in RequestRecord :
           /\ requests' = Append(requests, r) /\ ~r.sync
           /\ \A m : IsIn(m, r) => \E e \in stored : e.message = m
<1>1. PICK entries \in SetToSeqs(stored) :
        requests' = Append(requests, [entries |-> entries, sync |-> FALSE, opaque |-> NoOpaque])
  BY DEF AutoCommit
<1>2. stored \in SUBSET Entries /\ IsFiniteSet(stored) /\ stored # {}
  BY DEF DataOK, RdKafkaOK, AutoCommit
<1>3. Cardinality(stored) \in Nat /\ Cardinality(stored) # 0
  BY <1>2, FS_CardinalityType, FS_EmptySet
<1>4. entries \in [1 .. Cardinality(stored) -> stored]
  BY DEF SetToSeqs
<1>5. entries \in Seq(stored) /\ entries # <<>>
  BY <1>3, <1>4, IsASeq, EmptySeq
<1>6. entries \in Seq(Entries) \ {<<>>}
  BY <1>2, <1>5
<1> DEFINE r == [entries |-> entries, sync |-> FALSE, opaque |-> NoOpaque]
<1>7. r \in RequestRecord
  BY <1>6 DEF RequestRecord, Numbers
<1>8. \A m : IsIn(m, r) => \E e \in stored : e.message = m
  BY <1>4 DEF IsIn
<1>9. ~r.sync
  OBVIOUS
<1>10. QED
  BY <1>1, <1>7, <1>8, <1>9

LEMMA AutoCommitData ==
  ASSUME DataOK, AutoCommit
  PROVE  DataOK'
<1>1. /\ stored' = {}
      /\ UNCHANGED <<config, callVars, offsets, events, callback, calls, failures, given, reports>>
  BY DEF AutoCommit
<1>2. CallsOK /\ RdKafkaOK
  BY DEF DataOK
<1>3. requests' \in Seq(RequestRecord)
  BY <1>2, AutoCommitFacts, AppendedFacts DEF RdKafkaOK
<1>4. CallsOK'
  BY <1>1, <1>2 DEF CallsOK, callVars, Running, Waits
<1>5. IsFiniteSet({})
  BY FS_EmptySet
<1>6. QED
  BY <1>1, <1>2, <1>3, <1>4, <1>5, ConfigKept DEF DataOK, OpaquesOK, RdKafkaOK

-------------------------------------------------------------------------------
(* The callback                                                            *)

\* The event that the callback is told, and the vector of opaques once the partition
\* at hand was looked up.
EntriesNow  == Head(events).entries
PositionNow == Position(EntriesNow[callback.handled + 1])
OpaquesNow  == OpaquesAt(callback.handled + 1, PositionNow)

\* Of an opaque at k in that vector: it was given for its partition's position, it is
\* there once, and nowhere else.
FoundAt(k, o) ==
  /\ o <= calls /\ reports[o] = <<>>
  /\ \A p \in Positions : offsets[p] = o => p = PositionNow
  /\ OpaquesNow[k].of \in 1 .. callback.handled + 1
  /\ Position(EntriesNow[OpaquesNow[k].of]) = Head(given[o])
  /\ \A l \in DOMAIN OpaquesNow : OpaquesNow[l].opaque = o => k = l

LEMMA EventFacts ==
  ASSUME DataOK, OpaqueInv, events # <<>>
  PROVE  /\ EntriesNow \in Seq(Entries) /\ DOMAIN EntriesNow = 1 .. Len(EntriesNow)
         /\ Len(EntriesNow) \in Nat /\ callback.handled \in Nat
         /\ callback.handled + 1 <= Len(EntriesNow)
         /\ \A i \in DOMAIN EntriesNow : EntriesNow[i] \in Entries
<1>1. events \in Seq(RequestRecord)
  BY DEF DataOK, RdKafkaOK
<1>2. Head(events) \in RequestRecord
  BY <1>1, SequenceFacts
<1>3. EntriesNow \in Seq(Entries) /\ EntriesNow # <<>>
  BY <1>2 DEF EntriesNow, RequestRecord
<1>4. /\ DOMAIN EntriesNow = 1 .. Len(EntriesNow) /\ Len(EntriesNow) \in Nat /\ Len(EntriesNow) > 0
      /\ \A i \in DOMAIN EntriesNow : EntriesNow[i] \in Entries
  BY <1>3, SequenceFacts
<1>5. callback.handled \in Nat
  BY DEF DataOK, OpaquesOK
<1>6. callback.handled > 0 => callback.handled < Len(EntriesNow)
  BY DEF OpaqueInv, EntriesNow
<1>7. callback.handled + 1 <= Len(EntriesNow)
  BY <1>4, <1>5, <1>6
<1>8. QED
  BY <1>3, <1>4, <1>5, <1>7

LEMMA VectorFacts ==
  ASSUME DataOK, OpaqueInv, events # <<>>
  PROVE  /\ OpaquesNow \in Seq([opaque : Numbers, of : Nat]) /\ Len(OpaquesNow) <= callback.handled + 1
         /\ \A o \in Opaques : \A k \in DOMAIN OpaquesNow :
              OpaquesNow[k].opaque = o => FoundAt(k, o)
<1> DEFINE i == callback.handled + 1
           x == [opaque |-> IF PositionNow \in Positions THEN offsets[PositionNow] ELSE NoOpaque,
                 of |-> i]
           old == callback.opaques
           Vector == [opaque : Numbers, of : Nat]
<1>1. /\ callback.handled \in Nat /\ old \in Seq(Vector) /\ offsets \in [Positions -> Numbers]
  BY DEF DataOK, OpaquesOK
<1>2. Len(old) <= callback.handled
  BY DEF OpaqueInv
<1>3. Len(old) \in Nat /\ i \in Nat
  BY <1>1, SequenceFacts
<1>4. ASSUME NEW o \in Opaques, NEW k \in DOMAIN old, old[k].opaque = o
      PROVE  /\ o <= calls /\ reports[o] = <<>> /\ \A p \in Positions : offsets[p] # o
             /\ old[k].of \in 1 .. i /\ Position(EntriesNow[old[k].of]) = Head(given[o])
             /\ \A l \in DOMAIN old : old[l].opaque = o => k = l
  <2>1. /\ o <= calls /\ reports[o] = <<>> /\ \A p \in Positions : offsets[p] # o
        /\ old[k].of \in 1 .. callback.handled
        /\ Position(EntriesNow[old[k].of]) = Head(given[o])
        /\ \A l \in DOMAIN old : old[l].opaque = o => k = l
    BY <1>4 DEF OpaqueInv, EntriesNow
  <2>2. old[k].of \in 1 .. i
    BY <1>1, <2>1
  <2>3. QED
    BY <2>1, <2>2
<1>5. x.of = i /\ x \in Vector
  BY <1>1, <1>3 DEF Numbers
<1>6. ASSUME NEW o \in Opaques, x.opaque = o
      PROVE  /\ o <= calls /\ reports[o] = <<>> /\ PositionNow = Head(given[o])
             /\ \A p \in Positions : offsets[p] = o => p = PositionNow
             /\ \A k \in DOMAIN old : old[k].opaque # o
  <2>1. o # NoOpaque
    BY ReceivedAssumption DEF Opaques, NoOpaque
  <2>2. PositionNow \in Positions /\ offsets[PositionNow] = o
    BY <1>6, <2>1
  <2>3. \A p \in Positions : offsets[p] = o => o <= calls /\ p = Head(given[o]) /\ reports[o] = <<>>
    BY DEF OpaqueInv
  <2>4. \A k \in DOMAIN old : old[k].opaque # o
    BY <1>4, <2>2
  <2>5. QED
    BY <2>2, <2>3, <2>4
<1> HIDE DEF x, Vector, old
<1>7. CASE OpaquesNow = old
  <2>1. Len(old) <= i
    BY <1>1, <1>2, <1>3
  <2>2. \A o \in Opaques : \A k \in DOMAIN OpaquesNow : OpaquesNow[k].opaque = o => FoundAt(k, o)
    BY <1>4, <1>7 DEF FoundAt
  <2>3. QED
    BY <1>1, <1>7, <2>1, <2>2 DEF Vector
<1>8. CASE OpaquesNow = Append(old, x)
  <2>1. /\ OpaquesNow \in Seq(Vector) /\ Len(OpaquesNow) = Len(old) + 1
        /\ DOMAIN OpaquesNow = DOMAIN old \union {Len(old) + 1}
        /\ \A k \in DOMAIN old : OpaquesNow[k] = old[k] /\ k # Len(old) + 1
        /\ OpaquesNow[Len(old) + 1] = x
    BY <1>1, <1>5, <1>8, AppendedFacts
  <2>2. Len(OpaquesNow) <= i
    BY <1>1, <1>2, <1>3, <2>1
  <2>3. ASSUME NEW o \in Opaques, NEW k \in DOMAIN OpaquesNow, OpaquesNow[k].opaque = o
        PROVE  FoundAt(k, o)
    <3>1. CASE k \in DOMAIN old
      <4>1. OpaquesNow[k] = old[k] /\ old[k].opaque = o
        BY <2>1, <2>3, <3>1
      <4>2. x.opaque # o
        BY <1>6, <3>1, <4>1
      <4>3. /\ o <= calls /\ reports[o] = <<>> /\ \A p \in Positions : offsets[p] # o
            /\ old[k].of \in 1 .. i /\ Position(EntriesNow[old[k].of]) = Head(given[o])
            /\ \A l \in DOMAIN old : old[l].opaque = o => k = l
        BY <1>4, <3>1, <4>1
      <4>4. \A l \in DOMAIN OpaquesNow : OpaquesNow[l].opaque = o => k = l
        BY <2>1, <4>2, <4>3
      <4>5. QED
        BY <4>1, <4>3, <4>4 DEF FoundAt
    <3>2. CASE k = Len(old) + 1
      <4>1. OpaquesNow[k] = x /\ x.opaque = o
        BY <2>1, <2>3, <3>2
      <4>2. /\ o <= calls /\ reports[o] = <<>> /\ PositionNow = Head(given[o])
            /\ \A p \in Positions : offsets[p] = o => p = PositionNow
            /\ \A l \in DOMAIN old : old[l].opaque # o
        BY <1>6, <4>1
      <4>3. \A l \in DOMAIN OpaquesNow : OpaquesNow[l].opaque = o => k = l
        BY <2>1, <3>2, <4>2
      <4>4. OpaquesNow[k].of = i /\ i \in 1 .. i /\ Position(EntriesNow[i]) = PositionNow
        BY <1>1, <1>5, <4>1 DEF PositionNow
      <4>5. QED
        BY <4>2, <4>3, <4>4 DEF FoundAt
    <3>3. QED
      BY <2>1, <3>1, <3>2
  <2>4. QED
    BY <2>1, <2>2, <2>3 DEF Vector
<1>9. OpaquesNow = old \/ OpaquesNow = Append(old, x)
  BY DEF OpaquesNow, OpaquesAt, old, x
<1>10. QED
  BY <1>7, <1>8, <1>9

LEMMA SmallSetsAsSequences ==
  SetToSeq({}) = <<>> /\ \A x : SetToSeq({x}) = <<x>>
<1>1. SetToSeq({}) = <<>>
  <2>1. Cardinality({}) = 0 /\ 1 .. 0 = {}
    BY FS_EmptySet
  <2>2. \A f \in [{} -> {}] : f = <<>>
    OBVIOUS
  <2>3. <<>> \in [{} -> {}] /\ IsInjective(<<>>)
    BY DEF IsInjective
  <2>4. QED
    BY <2>1, <2>2, <2>3 DEF SetToSeq
<1>2. ASSUME NEW x PROVE SetToSeq({x}) = <<x>>
  <2>1. Cardinality({x}) = 1
    BY FS_Singleton
  <2>2. \A f \in [1 .. 1 -> {x}] : f = <<x>>
    OBVIOUS
  <2>3. <<x>> \in [1 .. 1 -> {x}] /\ IsInjective(<<x>>)
    BY DEF IsInjective
  <2>4. QED
    BY <2>1, <2>2, <2>3 DEF SetToSeq
<1>3. QED
  BY <1>1, <1>2

\* What the event tells of the opaque found for the partition at k.
ReportAt(k) ==
  [position |-> Position(EntriesNow[k]), commitOf |-> EntriesNow[k].message,
   inPlace |-> OpaquesNow[k].of = k]

LEMMA ToldFacts ==
  ASSUME DataOK, OpaqueInv, events # <<>>, NEW o \in Opaques
  PROVE  \/ /\ Told(o, EntriesNow, OpaquesNow) = {}
            /\ \A k \in DOMAIN OpaquesNow : OpaquesNow[k].opaque # o
         \/ \E k \in DOMAIN OpaquesNow :
              OpaquesNow[k].opaque = o /\ Told(o, EntriesNow, OpaquesNow) = {ReportAt(k)}
<1> DEFINE At == {k \in DOMAIN OpaquesNow : OpaquesNow[k].opaque = o}
<1>1. Told(o, EntriesNow, OpaquesNow) = {ReportAt(j) : j \in At}
  BY DEF Told, ReportAt
<1>2. CASE At = {}
  BY <1>1, <1>2
<1>3. CASE At # {}
  <2>1. PICK k : k \in At
    BY <1>3
  <2>2. FoundAt(k, o)
    BY <2>1, VectorFacts
  <2>3. At = {k}
    BY <2>1, <2>2 DEF FoundAt
  <2>4. QED
    BY <1>1, <2>1, <2>3
<1>4. QED
  BY <1>2, <1>3

\* A report is of its message, unless the opaque is out of its place.
LEMMA ReportFacts ==
  ASSUME DataOK, OpaqueInv, events # <<>>, callback.handled + 1 = Len(EntriesNow),
         NEW o \in Opaques, NEW k \in DOMAIN OpaquesNow, OpaquesNow[k].opaque = o
  PROVE  /\ ReportAt(k) \in Report
         /\ ReportAt(k).inPlace =>
              /\ ReportAt(k).position = Head(given[o])
              /\ config.api = "message" => ReportAt(k).commitOf = Head(given[o])
<1>1. FoundAt(k, o)
  BY VectorFacts
<1>2. k \in 1 .. Len(OpaquesNow) /\ Len(OpaquesNow) \in Nat /\ Len(OpaquesNow) <= callback.handled + 1
  BY VectorFacts, SequenceFacts
<1>3. k \in DOMAIN EntriesNow /\ EntriesNow[k] \in Entries
  BY <1>2, EventFacts
<1>4. PICK n \in Messages : EntriesNow[k] = Entry(n)
  BY <1>3 DEF Entries
<1>5. EntriesNow[k].message = n /\ (config.api = "message" => Position(EntriesNow[k]) = n)
  BY <1>4, MyMessages DEF Entry, Position
<1> DEFINE there == OpaquesNow[k].of = k
           position == Position(EntriesNow[k])
<1>6. ReportAt(k) = [position |-> position, commitOf |-> n, inPlace |-> there]
  BY <1>5 DEF ReportAt
<1>7. there \in BOOLEAN /\ position \in {Position(e) : e \in Entries}
  BY <1>3
<1>8. there => position = Head(given[o])
  BY <1>1 DEF FoundAt
<1>9. config.api = "message" => position = n
  BY <1>5
<1> HIDE DEF there, position
<1>10. ReportAt(k) \in Report
  BY <1>6, <1>7 DEF Report
<1>11. QED
  BY <1>6, <1>8, <1>9, <1>10

\* What the callback leaves in the OffsetMap.
LEMMA LookupFacts ==
  ASSUME DataOK, OpaqueInv, OffsetCommitCallback
  PROVE  /\ offsets' \in [Positions -> Numbers]
         /\ \A p \in Positions : \A o \in Opaques : offsets'[p] = o =>
              /\ offsets[p] = o /\ p # PositionNow
              /\ \A k \in DOMAIN OpaquesNow : OpaquesNow[k].opaque # o
<1>1. offsets' = IF PositionNow \in Positions THEN Without(PositionNow) ELSE offsets
  BY DEF OffsetCommitCallback, PositionNow, EntriesNow
<1>2. offsets \in [Positions -> Numbers]
  BY DEF DataOK, OpaquesOK
<1>3. \A o \in Opaques : o # NoOpaque
  BY ReceivedAssumption DEF Opaques, NoOpaque
<1>4. offsets' \in [Positions -> Numbers]
  BY <1>1, <1>2 DEF Without, Numbers
<1>5. \A p \in Positions : \A o \in Opaques : offsets'[p] = o => offsets[p] = o /\ p # PositionNow
  BY <1>1, <1>2, <1>3 DEF Without
<1>6. events # <<>>
  BY DEF OffsetCommitCallback
<1>7. \A o \in Opaques : \A k \in DOMAIN OpaquesNow : OpaquesNow[k].opaque = o =>
        \A p \in Positions : offsets[p] = o => p = PositionNow
  BY <1>6, VectorFacts DEF FoundAt
<1>8. QED
  BY <1>4, <1>5, <1>7

\* A partition of the event that is not its last.
LEMMA CallbackGoesOn ==
  ASSUME DataOK, OpaqueInv, OffsetCommitCallback, callback.handled + 1 < Len(EntriesNow)
  PROVE  DataOK' /\ OpaqueInv'
<1>1. /\ events # <<>> /\ callback' = [handled |-> callback.handled + 1, opaques |-> OpaquesNow]
      /\ UNCHANGED <<events, reports>>
      /\ UNCHANGED <<config, callVars, requests, stored, calls, failures, given>>
  BY DEF OffsetCommitCallback, OpaquesNow, PositionNow, EntriesNow
<1>2. /\ OpaquesNow \in Seq([opaque : Numbers, of : Nat]) /\ Len(OpaquesNow) <= callback.handled + 1
      /\ callback.handled \in Nat
  BY <1>1, VectorFacts, EventFacts
<1>3. OpaquesOK'
  BY <1>1, <1>2, LookupFacts, ConfigKept DEF DataOK, OpaquesOK
<1>4. DataOK'
  BY <1>1, <1>3, ConfigKept DEF DataOK, CallsOK, RdKafkaOK, callVars, Running, Waits
<1>5. callback'.handled = callback.handled + 1 /\ callback'.opaques = OpaquesNow
  BY <1>1
<1>6. callback'.handled > 0 => events' # <<>> /\ callback'.handled < Len(Head(events').entries)
  BY <1>1, <1>5 DEF EntriesNow
<1>7. ASSUME NEW o \in Opaques, NEW p \in Positions, offsets'[p] = o
      PROVE  o <= calls' /\ p = Head(given'[o]) /\ reports'[o] = <<>>
  BY <1>1, <1>7, LookupFacts DEF OpaqueInv
<1>8. ASSUME NEW o \in Opaques, NEW k \in DOMAIN OpaquesNow, OpaquesNow[k].opaque = o
      PROVE  /\ o <= calls' /\ reports'[o] = <<>> /\ \A p \in Positions : offsets'[p] # o
             /\ OpaquesNow[k].of \in 1 .. callback'.handled
             /\ Position(Head(events').entries[OpaquesNow[k].of]) = Head(given'[o])
             /\ \A l \in DOMAIN OpaquesNow : OpaquesNow[l].opaque = o => k = l
  <2>1. FoundAt(k, o)
    BY <1>1, <1>8, VectorFacts
  <2>2. \A p \in Positions : offsets'[p] # o
    BY <1>8, LookupFacts
  <2>3. QED
    BY <1>1, <1>5, <2>1, <2>2 DEF FoundAt, EntriesNow
<1>9. \A o \in Opaques :
        /\ Len(reports'[o]) <= 1 /\ (reports'[o] # <<>> => o <= calls')
        /\ \A i \in DOMAIN reports'[o] : reports'[o][i].inPlace =>
             /\ reports'[o][i].position = Head(given'[o])
             /\ config'.api = "message" => reports'[o][i].commitOf = Head(given'[o])
  BY <1>1 DEF OpaqueInv
<1>10. QED
  BY <1>2, <1>4, <1>5, <1>6, <1>7, <1>8, <1>9 DEF OpaqueInv, Position

\* The last partition of the event.
LEMMA CallbackEnds ==
  ASSUME DataOK, OpaqueInv, OffsetCommitCallback, ~(callback.handled + 1 < Len(EntriesNow))
  PROVE  DataOK' /\ OpaqueInv'
<1>1. /\ events # <<>> /\ callback' = Idle /\ events' = Tail(events)
      /\ reports' = [o \in Opaques |->
                      reports[o] \o SetToSeq(Told(o, EntriesNow, OpaquesNow))]
      /\ UNCHANGED <<config, callVars, requests, stored, calls, failures, given>>
  BY DEF OffsetCommitCallback, OpaquesNow, PositionNow, EntriesNow
<1>2. callback.handled + 1 = Len(EntriesNow)
  BY <1>1, EventFacts
<1>3. reports \in [Opaques -> Seq(Report)] /\ events \in Seq(RequestRecord)
  BY DEF DataOK, OpaquesOK, RdKafkaOK
<1>4. ASSUME NEW o \in Opaques
      PROVE  \/ /\ reports'[o] = reports[o]
                /\ \A k \in DOMAIN OpaquesNow : OpaquesNow[k].opaque # o
             \/ \E k \in DOMAIN OpaquesNow :
                  /\ OpaquesNow[k].opaque = o /\ o <= calls
                  /\ reports'[o] = <<ReportAt(k)>>
  <2>1. reports'[o] = reports[o] \o SetToSeq(Told(o, EntriesNow, OpaquesNow)) /\ reports[o] \in Seq(Report)
    BY <1>1, <1>3
  <2>2. CASE /\ Told(o, EntriesNow, OpaquesNow) = {}
             /\ \A k \in DOMAIN OpaquesNow : OpaquesNow[k].opaque # o
    <3>1. reports[o] \o <<>> = reports[o]
      BY <2>1, ConcatEmptySeq
    <3>2. QED
      BY <2>1, <2>2, <3>1, SmallSetsAsSequences
  <2>3. ASSUME NEW k \in DOMAIN OpaquesNow, OpaquesNow[k].opaque = o,
               Told(o, EntriesNow, OpaquesNow) = {ReportAt(k)}
        PROVE  o <= calls /\ reports'[o] = <<ReportAt(k)>>
    <3>1. reports[o] = <<>> /\ o <= calls
      BY <1>1, <2>3, VectorFacts DEF FoundAt
    <3>2. <<ReportAt(k)>> \in Seq({ReportAt(k)})
      OBVIOUS
    <3>3. <<>> \o <<ReportAt(k)>> = <<ReportAt(k)>>
      BY <3>2, ConcatEmptySeq
    <3>4. QED
      BY <2>1, <2>3, <3>1, <3>3, SmallSetsAsSequences
  <2>4. QED
    BY <1>1, <2>2, <2>3, ToldFacts
<1>5. ASSUME NEW r
      PROVE  /\ r \in Report => <<r>> \in Seq(Report)
             /\ Len(<<r>>) = 1 /\ DOMAIN <<r>> = {1} /\ <<r>>[1] = r /\ <<r>> # <<>>
  OBVIOUS
<1>6. ASSUME NEW o \in Opaques
      PROVE  /\ reports'[o] \in Seq(Report) /\ Len(reports'[o]) <= 1
             /\ reports'[o] # <<>> => o <= calls
             /\ \A i \in DOMAIN reports'[o] : reports'[o][i].inPlace =>
                  /\ reports'[o][i].position = Head(given[o])
                  /\ config.api = "message" => reports'[o][i].commitOf = Head(given[o])
  <2>1. CASE reports'[o] = reports[o]
    BY <1>3, <2>1 DEF OpaqueInv
  <2>2. ASSUME NEW k \in DOMAIN OpaquesNow, OpaquesNow[k].opaque = o, reports'[o] = <<ReportAt(k)>>
        PROVE  /\ reports'[o] \in Seq(Report) /\ Len(reports'[o]) <= 1
               /\ \A i \in DOMAIN reports'[o] : reports'[o][i].inPlace =>
                    /\ reports'[o][i].position = Head(given[o])
                    /\ config.api = "message" => reports'[o][i].commitOf = Head(given[o])
    <3>1. /\ ReportAt(k) \in Report
          /\ ReportAt(k).inPlace =>
               /\ ReportAt(k).position = Head(given[o])
               /\ config.api = "message" => ReportAt(k).commitOf = Head(given[o])
      BY <1>1, <1>2, <2>2, ReportFacts
    <3>2. QED
      BY <1>5, <2>2, <3>1
  <2>3. QED
    BY <1>4, <2>1, <2>2
<1>7. reports' \in [Opaques -> Seq(Report)]
  <2>1. reports' = [o \in Opaques |-> reports'[o]]
    BY <1>1
  <2>2. QED
    BY <1>6, <2>1
<1>8. /\ callback' \in [handled : Nat, opaques : Seq([opaque : Numbers, of : Nat])]
      /\ callback'.handled = 0 /\ callback'.opaques = <<>>
  BY <1>1 DEF Idle
<1>9. OpaquesOK'
  BY <1>1, <1>7, <1>8, LookupFacts, ConfigKept DEF DataOK, OpaquesOK
<1>10. events' \in Seq(RequestRecord)
  BY <1>1, <1>3, TailFacts
<1>11. DataOK'
  BY <1>1, <1>9, <1>10, ConfigKept DEF DataOK, CallsOK, RdKafkaOK, callVars, Running, Waits
<1>12. ASSUME NEW o \in Opaques, NEW p \in Positions, offsets'[p] = o
       PROVE  o <= calls /\ p = Head(given[o]) /\ reports'[o] = <<>>
  <2>1. offsets[p] = o /\ \A k \in DOMAIN OpaquesNow : OpaquesNow[k].opaque # o
    BY <1>12, LookupFacts
  <2>2. o <= calls /\ p = Head(given[o]) /\ reports[o] = <<>>
    BY <2>1 DEF OpaqueInv
  <2>3. QED
    BY <1>4, <2>1, <2>2
<1>13. Len(<<>>) = 0 /\ DOMAIN <<>> = {}
  OBVIOUS
<1>14. QED
  BY <1>1, <1>6, <1>8, <1>11, <1>12, <1>13 DEF OpaqueInv

\* A commit() call puts a new opaque into the OffsetMap, if any.
LEMMA TakeOpaqueKeeps ==
  ASSUME DataOK, OpaqueInv, NEW list \in Seq(Positions) \ {<<>>}, NEW o \in Numbers,
         TakeOpaque(list, o), UNCHANGED <<config, events, callback, reports>>
  PROVE  OpaqueInv'
<1>1. /\ calls' = calls + 1 /\ calls \in Nat
      /\ \A q \in 1 .. calls : given'[q] = given[q]
      /\ given'[calls + 1] = list /\ Head(list) \in Positions
      /\ o \in {NoOpaque, calls + 1}
      /\ offsets' = offsets \/ (offsets' = [offsets EXCEPT ![Head(list)] = o] /\ o # NoOpaque)
  BY TakeOpaqueFacts DEF DataOK
<1>2. offsets \in [Positions -> Numbers]
  BY DEF DataOK, OpaquesOK
<1>3. \A q \in Opaques : q <= calls => q \in 1 .. calls /\ q <= calls' /\ given'[q] = given[q] /\ q # calls + 1
  <2>1. \A q \in Opaques : q \in Nat /\ q >= 1
    BY ReceivedAssumption DEF Opaques
  <2>2. \A q \in Opaques : q <= calls => q \in 1 .. calls /\ q <= calls + 1 /\ q # calls + 1
    BY <1>1, <2>1
  <2>3. QED
    BY <1>1, <2>2
<1>4. ASSUME NEW q \in Opaques, NEW p \in Positions, offsets'[p] = q
      PROVE  offsets[p] = q \/ (q = calls + 1 /\ p = Head(list))
  BY <1>1, <1>2, <1>4
<1>5. \A q \in Opaques : reports[q] # <<>> => q <= calls
  BY DEF OpaqueInv
<1>6. ASSUME NEW q \in Opaques, NEW p \in Positions, offsets'[p] = q
      PROVE  q <= calls' /\ p = Head(given'[q]) /\ reports[q] = <<>>
  <2>1. CASE offsets[p] = q
    <3>1. q <= calls /\ p = Head(given[q]) /\ reports[q] = <<>>
      BY <2>1 DEF OpaqueInv
    <3>2. QED
      BY <1>3, <3>1
  <2>2. CASE q = calls + 1 /\ p = Head(list)
    <3>1. ~(q <= calls)
      BY <1>1, <2>2
    <3>2. QED
      BY <1>1, <1>5, <2>2, <3>1
  <2>3. QED
    BY <1>4, <1>6, <2>1, <2>2
<1>7. ASSUME NEW q \in Opaques, NEW k \in DOMAIN callback.opaques, callback.opaques[k].opaque = q
      PROVE  /\ q <= calls' /\ reports[q] = <<>> /\ \A p \in Positions : offsets'[p] # q
             /\ callback.opaques[k].of \in 1 .. callback.handled
             /\ Position(Head(events).entries[callback.opaques[k].of]) = Head(given'[q])
             /\ \A l \in DOMAIN callback.opaques : callback.opaques[l].opaque = q => k = l
  <2>1. /\ q <= calls /\ reports[q] = <<>> /\ \A p \in Positions : offsets[p] # q
        /\ callback.opaques[k].of \in 1 .. callback.handled
        /\ Position(Head(events).entries[callback.opaques[k].of]) = Head(given[q])
        /\ \A l \in DOMAIN callback.opaques : callback.opaques[l].opaque = q => k = l
    BY <1>7 DEF OpaqueInv
  <2>2. \A p \in Positions : offsets'[p] # q
    BY <1>3, <1>4, <2>1
  <2>3. QED
    BY <1>3, <2>1, <2>2
<1>8. ASSUME NEW q \in Opaques
      PROVE  /\ Len(reports[q]) <= 1 /\ (reports[q] # <<>> => q <= calls')
             /\ \A i \in DOMAIN reports[q] : reports[q][i].inPlace =>
                  /\ reports[q][i].position = Head(given'[q])
                  /\ config.api = "message" => reports[q][i].commitOf = Head(given'[q])
  <2>1. /\ Len(reports[q]) <= 1 /\ (reports[q] # <<>> => q <= calls)
        /\ \A i \in DOMAIN reports[q] : reports[q][i].inPlace =>
             /\ reports[q][i].position = Head(given[q])
             /\ config.api = "message" => reports[q][i].commitOf = Head(given[q])
    BY DEF OpaqueInv
  <2>2. CASE reports[q] = <<>>
    <3>1. DOMAIN reports[q] = {}
      BY <2>2
    <3>2. QED
      BY <2>1, <2>2, <3>1
  <2>3. CASE reports[q] # <<>>
    BY <1>3, <2>1, <2>3
  <2>4. QED
    BY <2>2, <2>3
<1>9. /\ callback.handled > 0 => events # <<>> /\ callback.handled < Len(Head(events).entries)
      /\ Len(callback.opaques) <= callback.handled
  BY DEF OpaqueInv
<1>10. QED
  BY <1>6, <1>7, <1>8, <1>9 DEF OpaqueInv, Position

\* The answer comes after the event that the callback is at.
LEMMA AnswerKeepsOpaques ==
  ASSUME DataOK, WaitInv, OpaqueInv, NEW result, Answer(result)
  PROVE  OpaqueInv'
<1>1. /\ events' = IF config.callback THEN Append(events, Head(requests)) ELSE events
      /\ UNCHANGED <<config, offsets, callback, calls, given, reports>> /\ requests # <<>>
  BY DEF Answer
<1>2. events \in Seq(RequestRecord) /\ Head(requests) \in RequestRecord
  BY <1>1, HeadFacts DEF DataOK, RdKafkaOK
<1>3. events # <<>> => events' # <<>> /\ Head(events') = Head(events)
  <2>1. CASE events' = events
    BY <2>1
  <2>2. CASE events' = Append(events, Head(requests))
    <3>1. ASSUME events # <<>>
          PROVE  events' # <<>> /\ Head(events') = Head(events)
      <4>1. 1 \in DOMAIN events /\ Head(events) = events[1]
        BY <1>2, <3>1, SequenceFacts
      <4>2. events' \in Seq(RequestRecord) /\ 1 \in DOMAIN events' /\ events'[1] = events[1]
        BY <1>2, <2>2, <4>1, AppendedFacts
      <4>3. events' # <<>>
        BY <4>2
      <4>4. QED
        BY <4>1, <4>2, <4>3, SequenceFacts
    <3>2. QED
      BY <3>1
  <2>3. QED
    BY <1>1, <2>1, <2>2
<1>4. CASE events # <<>>
  BY <1>1, <1>3, <1>4 DEF OpaqueInv, Position
<1>5. CASE events = <<>>
  <2>1. callback.handled = 0 /\ callback.opaques = <<>>
    <3>1. callback.handled \in Nat /\ callback.opaques \in Seq([opaque : Numbers, of : Nat])
      BY DEF DataOK, OpaquesOK
    <3>2. callback.handled = 0 /\ Len(callback.opaques) <= 0
      BY <1>5, <3>1 DEF OpaqueInv
    <3>3. QED
      BY <3>1, <3>2, EmptySeq, SequenceFacts
  <2>2. DOMAIN callback.opaques = {} /\ Len(callback.opaques) = 0
    BY <2>1
  <2>3. QED
    BY <1>1, <2>1, <2>2 DEF OpaqueInv, Position
<1>6. QED
  BY <1>4, <1>5

\* The steps that the opaques have no part in.
LEMMA OthersKeepOpaques ==
  ASSUME OpaqueInv, UNCHANGED <<config, offsets, events, callback, calls, given, reports>>
  PROVE  OpaqueInv'
  BY DEF OpaqueInv, Position

-------------------------------------------------------------------------------
(* The threads that wait                                                   *)

\* A request that nobody waits for, or none, is added.
LEMMA AddedKeepsWaiting ==
  ASSUME DataOK, WaitInv, \A m \in Messages : Waits(m)' <=> Waits(m),
         \/ requests' = requests
         \/ \E r \in RequestRecord : ~r.sync /\ requests' = Append(requests, r)
  PROVE  WaitInv'
<1>1. requests \in Seq(RequestRecord)
  BY DEF DataOK, RdKafkaOK
<1>2. CASE requests' = requests
  BY <1>2 DEF WaitInv, IsCommitOf
<1>3. ASSUME NEW r \in RequestRecord, ~r.sync, requests' = Append(requests, r)
      PROVE  WaitInv'
  <2>1. /\ DOMAIN requests' = DOMAIN requests \union {Len(requests) + 1}
        /\ \A i \in DOMAIN requests : requests'[i] = requests[i]
        /\ requests'[Len(requests) + 1] = r
    BY <1>1, <1>3, AppendedFacts
  <2>2. \A m \in Messages : ~IsCommitOf(requests'[Len(requests) + 1], m)
    BY <1>3, <2>1 DEF IsCommitOf
  <2>3. \A m \in Messages : (\E i \in DOMAIN requests' : IsCommitOf(requests'[i], m))
          <=> \E i \in DOMAIN requests : IsCommitOf(requests[i], m)
    BY <2>1, <2>2
  <2>4. \A i, j \in DOMAIN requests' : \A m \in Messages :
          IsCommitOf(requests'[i], m) /\ IsCommitOf(requests'[j], m) => i = j
    BY <2>1, <2>2 DEF WaitInv
  <2>5. QED
    BY <2>3, <2>4 DEF WaitInv, IsCommitOf
<1>4. QED
  BY <1>2, <1>3

LEMMA SyncCommitKeepsWaiting ==
  ASSUME DataOK, WaitInv, NEW m \in Messages, SyncCommit(m)
  PROVE  WaitInv'
<1>1. /\ Running(m) /\ call[m].how = "sync" /\ requests' = Append(requests, Request(m))
      /\ state' = [state EXCEPT ![m] = IF state[m] = "dying" THEN "dyingWaits" ELSE "waits"]
  BY DEF SyncCommit
<1>2. CallsOK /\ requests \in Seq(RequestRecord)
  BY DEF DataOK, RdKafkaOK
<1>3. /\ Request(m) \in RequestRecord /\ Request(m).sync /\ Request(m).entries[1].message = m
  BY <1>1, <1>2, RunningFacts, RequestFacts
<1>4. \A n \in Messages : IsCommitOf(Request(m), n) <=> n = m
  BY <1>3 DEF IsCommitOf
<1>5. /\ Waits(m)' /\ ~Waits(m) /\ \A n \in Messages : n # m => (Waits(n)' <=> Waits(n))
  BY <1>1, <1>2 DEF CallsOK, Waits, Running
<1> DEFINE last == Len(requests) + 1
<1>6. /\ DOMAIN requests' = DOMAIN requests \union {last}
      /\ \A i \in DOMAIN requests : requests'[i] = requests[i]
      /\ requests'[last] = Request(m)
  BY <1>1, <1>2, <1>3, AppendedFacts
<1> HIDE DEF last
<1>7. \A i \in DOMAIN requests : ~IsCommitOf(requests[i], m)
  BY <1>5 DEF WaitInv
<1>8. \A n \in Messages : n # m =>
        ((\E i \in DOMAIN requests' : IsCommitOf(requests'[i], n))
          <=> \E i \in DOMAIN requests : IsCommitOf(requests[i], n))
  BY <1>4, <1>6
<1>9. \E i \in DOMAIN requests' : IsCommitOf(requests'[i], m)
  BY <1>4, <1>6
<1>10. ASSUME NEW i \in DOMAIN requests', NEW j \in DOMAIN requests', NEW n \in Messages,
              IsCommitOf(requests'[i], n), IsCommitOf(requests'[j], n)
       PROVE  i = j
  <2>1. CASE n = m
    <3>1. i \notin DOMAIN requests /\ j \notin DOMAIN requests
      BY <1>6, <1>7, <1>10, <2>1
    <3>2. QED
      BY <1>6, <3>1
  <2>2. CASE n # m
    <3>1. i # last /\ j # last
      BY <1>4, <1>6, <1>10, <2>2
    <3>2. i \in DOMAIN requests /\ j \in DOMAIN requests
      BY <1>6, <3>1
    <3>3. QED
      BY <1>6, <1>10, <3>2 DEF WaitInv
  <2>3. QED
    BY <2>1, <2>2
<1>11. \A n \in Messages : Waits(n)' <=> \E i \in DOMAIN requests' : IsCommitOf(requests'[i], n)
  BY <1>5, <1>8, <1>9 DEF WaitInv
<1>12. QED
  BY <1>10, <1>11 DEF WaitInv, IsCommitOf

\* The answer is the first one's: it no longer waits, and nobody else is concerned.
LEMMA AnswerKeepsWaiting ==
  ASSUME DataOK, WaitInv, NEW result, Answer(result)
  PROVE  WaitInv'
<1>0. requests # <<>>
  BY DEF Answer
<1> PICK r : r = Head(requests)
  OBVIOUS
<1> PICK m \in Messages : m = r.entries[1].message
  BY <1>0, HeadFacts
<1>1. /\ requests' = Tail(requests)
      /\ IF r.sync THEN AttemptEnds(m, result) ELSE UNCHANGED callVars
  BY DEF Answer
<1>2. CallsOK /\ requests \in Seq(RequestRecord)
  BY DEF DataOK, RdKafkaOK
<1>3. /\ (r.sync => Waits(m)) /\ r = requests[1] /\ 1 \in DOMAIN requests
      /\ \A n \in Messages : IsCommitOf(r, n) <=> r.sync /\ n = m
  BY <1>0, HeadFacts DEF IsCommitOf
<1>4. /\ \A i \in DOMAIN requests' : i + 1 \in DOMAIN requests /\ requests'[i] = requests[i + 1] /\ i + 1 # 1
      /\ \A i \in DOMAIN requests : i # 1 => i - 1 \in DOMAIN requests' /\ requests'[i - 1] = requests[i]
      /\ \A i, j \in DOMAIN requests' : i + 1 = j + 1 => i = j
  BY <1>0, <1>1, <1>2, TailFacts
<1>5. /\ r.sync => ~Waits(m)'
      /\ \A n \in Messages : ~(r.sync /\ n = m) => (Waits(n)' <=> Waits(n))
  <2>1. CASE r.sync
    <3>1. AttemptEnds(m, result) /\ m \in Messages /\ Waits(m)
      BY <1>1, <1>3, <2>1
    <3>2. Ended(m) \/ (TriedAgain(m) /\ (Running(m) \/ Waits(m)))
      BY <1>2, <3>1, AttemptFacts
    <3>3. ~Waits(m)' /\ \A n \in Messages : n # m => state'[n] = state[n]
      BY <1>2, <3>1, <3>2, CallGoesOn
    <3>4. QED
      BY <2>1, <3>3 DEF Waits
  <2>2. CASE ~r.sync
    BY <1>1, <2>2 DEF callVars, Waits
  <2>3. QED
    BY <2>1, <2>2
<1>6. ASSUME NEW n \in Messages
      PROVE  Waits(n)' <=> \E i \in DOMAIN requests' : IsCommitOf(requests'[i], n)
  <2>1. CASE r.sync /\ n = m
    <3>1. ASSUME NEW i \in DOMAIN requests', IsCommitOf(requests'[i], n)
          PROVE  FALSE
      <4>1. i + 1 \in DOMAIN requests /\ i + 1 # 1 /\ IsCommitOf(requests[i + 1], n)
        BY <1>4, <3>1
      <4>2. IsCommitOf(requests[1], n)
        BY <1>3, <2>1
      <4>3. QED
        BY <1>3, <4>1, <4>2 DEF WaitInv
    <3>2. QED
      BY <1>5, <2>1, <3>1
  <2>2. CASE ~(r.sync /\ n = m)
    <3>1. ~IsCommitOf(requests[1], n)
      BY <1>3, <2>2
    <3>2. (\E i \in DOMAIN requests' : IsCommitOf(requests'[i], n)) =>
             \E i \in DOMAIN requests : IsCommitOf(requests[i], n)
      BY <1>4
    <3>3. (\E i \in DOMAIN requests : IsCommitOf(requests[i], n)) =>
             \E i \in DOMAIN requests' : IsCommitOf(requests'[i], n)
      BY <1>4, <3>1
    <3>4. QED
      BY <1>5, <2>2, <3>2, <3>3 DEF WaitInv
  <2>3. QED
    BY <2>1, <2>2
<1>7. \A i, j \in DOMAIN requests' : \A n \in Messages :
        IsCommitOf(requests'[i], n) /\ IsCommitOf(requests'[j], n) => i = j
  BY <1>4 DEF WaitInv
<1>8. QED
  BY <1>6, <1>7 DEF WaitInv, IsCommitOf

-------------------------------------------------------------------------------
(* The messages whose receiver threw                                       *)

\* What a step leaves of a message that it does not act on.
Untouched(m) ==
  /\ state'[m] = state[m] /\ persisted'[m] = persisted[m]
  /\ m \in threw' => m \in threw

\* The same of the messages that are to be persisted: none is added for m.
NothingAdded(m) ==
  /\ (\A e \in stored : e.message # m) => \A e \in stored' : e.message # m
  /\ (\A i \in DOMAIN requests : ~IsIn(m, requests[i])) =>
       \A i \in DOMAIN requests' : ~IsIn(m, requests'[i])

\* What CleanInv says of one message.
Clean(m) ==
  /\ state[m] = "held" => Unpersisted(m)
  /\ m \in threw /\ ~config.onException => Unpersisted(m) /\ state[m] = "gone"
  /\ \A n \in Messages :
       m \in Range(call[n].list) => n = m /\ state[m] \in {"dying", "dyingWaits"}

LEMMA UntouchedStaysClean ==
  ASSUME NEW m \in Messages, Clean(m), Untouched(m), NothingAdded(m), config' = config,
         \A n \in Messages : m \in Range(call'[n].list) => m \in Range(call[n].list)
  PROVE  Clean(m)'
<1>1. Unpersisted(m) => Unpersisted(m)'
  BY DEF Unpersisted, Untouched, NothingAdded, IsIn
<1>2. QED
  BY <1>1 DEF Clean, Untouched

\* A message that its own destructor persists was not thrown, and is gone with it.
LEMMA OwnCallStaysClean ==
  ASSUME NEW m \in Messages, Clean(m), state[m] \in {"dying", "dyingWaits"},
         state'[m] \in {"dying", "dyingWaits", "gone"}, UNCHANGED <<config, threw>>,
         \A n \in Messages : m \in Range(call'[n].list) =>
           m \in Range(call[n].list) /\ state'[m] \in {"dying", "dyingWaits"}
  PROVE  Clean(m)'
<1>1. ~(m \in threw /\ ~config.onException)
  BY DEF Clean
<1>2. QED
  BY <1>1 DEF Clean

\* The call on n is about m: only if n is m, whose destructor it is.
LEMMA CallIsAboutItsMessage ==
  ASSUME CallsOK, NEW m \in Messages, Clean(m), NEW n \in Messages, Running(n) \/ Waits(n)
  PROVE  /\ n = m => state[m] \in {"dying", "dyingWaits"}
         /\ n # m => m \notin Range(call[n].list)
<1>1. n \in Range(call[n].list)
  BY RunningFacts
<1>2. QED
  BY <1>1 DEF Clean

\* A request that m is not in, or that an answer takes away, adds nothing.
LEMMA RequestsAdded ==
  ASSUME DataOK, NEW m, NEW r \in RequestRecord, requests' = Append(requests, r), ~IsIn(m, r),
         \A i \in DOMAIN requests : ~IsIn(m, requests[i])
  PROVE  \A i \in DOMAIN requests' : ~IsIn(m, requests'[i])
<1>1. requests \in Seq(RequestRecord)
  BY DEF DataOK, RdKafkaOK
<1>2. /\ DOMAIN requests' = DOMAIN requests \union {Len(requests) + 1}
      /\ \A i \in DOMAIN requests : requests'[i] = requests[i]
      /\ requests'[Len(requests) + 1] = r
  BY <1>1, AppendedFacts
<1>3. QED
  BY <1>2

LEMMA CommitCallIsClean ==
  ASSUME DataOK, NEW m \in Messages, NEW n \in Messages,
         NEW rest \in {<<>>} \union {<<l>> : l \in Messages},
         NEW o \in {NoOpaque} \union Opaques, NEW forceSync \in BOOLEAN,
         CommitCall(n, rest, o, forceSync), ~IsGivenTo(m)'
  PROVE  ~IsGivenTo(m) /\ (Clean(m) => Clean(m)')
<1> DEFINE list == <<n>> \o rest
           how  == IF forceSync THEN "sync" ELSE HowSet
           c    == [how |-> how, list |-> list, opaque |-> o, retries |-> MaxRetries]
<1>1. /\ TakeOpaque(list, o) /\ state' = [state EXCEPT ![n] = "committing"]
      /\ call' = [call EXCEPT ![n] = c]
      /\ UNCHANGED <<config, persisted, rdkafka, callback, failures, reports, threw>>
  BY DEF CommitCall
<1>2. list \in Seq(Messages) /\ list \in Seq(Positions) \ {<<>>} /\ n \in Range(list)
  BY ListFacts
<1>3. c.list = list
  OBVIOUS
<1> HIDE DEF list, how, c
<1>4. /\ \A q \in 1 .. calls : q \in DOMAIN given' /\ given'[q] = given[q]
      /\ calls + 1 \in DOMAIN given' /\ given'[calls + 1] = list
  BY <1>1, <1>2, TakeOpaqueFacts DEF DataOK, Numbers
<1>5. DOMAIN given = 1 .. calls
  BY SequenceFacts DEF DataOK, OpaquesOK
<1>6. m \notin Range(list) /\ ~IsGivenTo(m)
  BY <1>4, <1>5 DEF IsGivenTo
<1>7. m # n
  BY <1>2, <1>6
<1>8. \A k \in Messages : m \in Range(call'[k].list) => m \in Range(call[k].list)
  BY <1>1, <1>3, <1>6 DEF DataOK, CallsOK
<1>9. Untouched(m) /\ NothingAdded(m)
  BY <1>1, <1>7 DEF Untouched, NothingAdded, DataOK, CallsOK, rdkafka
<1>10. QED
  BY <1>1, <1>6, <1>8, <1>9, UntouchedStaysClean

LEMMA DestroyIsClean ==
  ASSUME DataOK, NEW m \in Messages, Clean(m), NEW n \in Messages, NEW exception \in BOOLEAN,
         Destroy(n, exception)
  PROVE  Clean(m)'
<1>1. /\ state[n] = "held"
      /\ threw' = IF exception THEN threw \union {n} ELSE threw
      /\ state' = [state EXCEPT ![n] = IF Persists(n, exception) THEN "dying" ELSE "gone"]
      /\ UNCHANGED <<config, persisted, rdkafka, given>>
      /\ \A k \in Messages : k # n => call'[k] = call[k]
  BY DEF Destroy, DataOK, CallsOK
<1>2. /\ Persists(n, exception) => call'[n].list = <<n>>
      /\ ~Persists(n, exception) => call'[n].list = <<>>
  BY DEF Destroy, DataOK, CallsOK, NoCall
<1>3. Range(<<>>) = {} /\ Range(<<n>>) = {n}
  BY DEF Range
<1>4. NothingAdded(m)
  BY <1>1 DEF NothingAdded, rdkafka, IsIn
<1>5. CASE m # n
  <2>1. Untouched(m)
    BY <1>1, <1>5 DEF Untouched, DataOK, CallsOK
  <2>2. \A k \in Messages : m \in Range(call'[k].list) => m \in Range(call[k].list)
    BY <1>1, <1>2, <1>3, <1>5
  <2>3. QED
    BY <1>1, <1>4, <2>1, <2>2, UntouchedStaysClean
<1>6. CASE m = n
  <2>1. Unpersisted(m) /\ \A k \in Messages : m \notin Range(call[k].list)
    BY <1>1, <1>6 DEF Clean
  <2>2. Unpersisted(m)'
    BY <1>1, <2>1 DEF Unpersisted, rdkafka, IsIn
  <2>3. state'[m] = IF Persists(m, exception) THEN "dying" ELSE "gone"
    BY <1>1, <1>6 DEF DataOK, CallsOK
  <2>4. m \in threw' /\ ~config.onException => state'[m] = "gone"
    <3>1. ASSUME m \in threw', ~config.onException
          PROVE  exception
      BY <1>1, <1>6, <3>1 DEF Clean
    <3>2. QED
      BY <2>3, <3>1 DEF Persists
  <2>5. ASSUME NEW k \in Messages, m \in Range(call'[k].list)
        PROVE  k = m /\ state'[m] = "dying"
    BY <1>1, <1>2, <1>3, <1>6, <2>1, <2>3, <2>5
  <2>6. QED
    BY <1>1, <2>2, <2>3, <2>4, <2>5 DEF Clean
<1>7. QED
  BY <1>5, <1>6

\* A step of the call on n that leaves the requests and what is stored to others.
LEMMA CallStaysClean ==
  ASSUME DataOK, NEW m \in Messages, Clean(m), NEW n \in Messages, Running(n) \/ Waits(n),
         Ended(n) \/ TriedAgain(n), UNCHANGED <<config, threw>>,
         \A k \in Messages : k # n => persisted'[k] = persisted[k],
         m # n => NothingAdded(m)
  PROVE  Clean(m)'
<1>1. CallsOK
  BY DEF DataOK
<1>2. /\ \A k \in Messages : k # n => state'[k] = state[k] /\ call'[k] = call[k]
      /\ state[n] \in {"dying", "dyingWaits"} => state'[n] \in {"dying", "gone"}
      /\ state[n] \notin {"dying", "dyingWaits"} => state'[n] \in {"committing", "held"}
      /\ state'[n] \in {"committing", "dying"} => call'[n].list = call[n].list
      /\ state'[n] \in {"held", "gone"} => call'[n].list = <<>>
  BY <1>1, CallGoesOn
<1>3. Range(<<>>) = {}
  BY DEF Range
<1>4. \A k \in Messages : m \in Range(call'[k].list) =>
        m \in Range(call[k].list) /\ (k = n => state'[n] = "dying" \/ state'[n] = "committing")
  BY <1>2, <1>3
<1>5. CASE m = n
  <2>1. state[m] \in {"dying", "dyingWaits"}
    BY <1>1, <1>5, CallIsAboutItsMessage
  <2>2. \A k \in Messages : m \in Range(call'[k].list) =>
          m \in Range(call[k].list) /\ state'[m] \in {"dying", "dyingWaits"}
    BY <1>2, <1>4, <1>5, <2>1 DEF Clean
  <2>3. QED
    BY <1>2, <1>5, <2>1, <2>2, OwnCallStaysClean
<1>6. CASE m # n
  <2>1. Untouched(m)
    BY <1>2, <1>6 DEF Untouched
  <2>2. QED
    BY <1>4, <1>6, <2>1, UntouchedStaysClean
<1>7. QED
  BY <1>5, <1>6

LEMMA StoreOffsetIsClean ==
  ASSUME DataOK, NEW m \in Messages, Clean(m), NEW n \in Messages, StoreOffset(n)
  PROVE  Clean(m)'
<1> DEFINE new == Range(Request(n).entries)
<1>1. /\ Running(n) /\ \A e \in stored' : e \in new \/ e \in stored
      /\ MarkPersisted(n) /\ Ended(n) /\ UNCHANGED <<config, requests, threw>>
  BY ReturnedEnds DEF StoreOffset
<1>2. CallsOK
  BY DEF DataOK
<1>3. \A k \in Messages : k # n => persisted'[k] = persisted[k]
  BY <1>1, <1>2 DEF MarkPersisted, CallsOK
<1>4. (\E e \in new : e.message = m) <=> m \in Range(call[n].list)
  BY <1>1, <1>2, RunningFacts, RequestFacts
<1> HIDE DEF new
<1>5. m # n => NothingAdded(m)
  <2>1. m # n => m \notin Range(call[n].list)
    BY <1>1, <1>2, CallIsAboutItsMessage
  <2>2. QED
    BY <1>1, <1>4, <2>1 DEF NothingAdded, IsIn
<1>6. QED
  BY <1>1, <1>3, <1>5, CallStaysClean

LEMMA AsyncCommitIsClean ==
  ASSUME DataOK, NEW m \in Messages, Clean(m), NEW n \in Messages, AsyncCommit(n)
  PROVE  Clean(m)'
<1>1. /\ Running(n) /\ requests' = Append(requests, Request(n))
      /\ MarkPersisted(n) /\ Ended(n) /\ UNCHANGED <<config, stored, threw>>
  BY ReturnedEnds DEF AsyncCommit
<1>2. CallsOK
  BY DEF DataOK
<1>3. \A k \in Messages : k # n => persisted'[k] = persisted[k]
  BY <1>1, <1>2 DEF MarkPersisted, CallsOK
<1>4. Request(n) \in RequestRecord /\ (IsIn(m, Request(n)) <=> m \in Range(call[n].list))
  BY <1>1, <1>2, RunningFacts, RequestFacts
<1>5. m # n => NothingAdded(m)
  <2>1. m # n => m \notin Range(call[n].list)
    BY <1>1, <1>2, CallIsAboutItsMessage
  <2>2. QED
    BY <1>1, <1>4, <2>1, RequestsAdded DEF NothingAdded
<1>6. QED
  BY <1>1, <1>3, <1>5, CallStaysClean

LEMMA SyncCommitIsClean ==
  ASSUME DataOK, NEW m \in Messages, Clean(m), NEW n \in Messages, SyncCommit(n)
  PROVE  Clean(m)'
<1>1. /\ Running(n) /\ requests' = Append(requests, Request(n))
      /\ state' = [state EXCEPT ![n] = IF state[n] = "dying" THEN "dyingWaits" ELSE "waits"]
      /\ UNCHANGED <<config, persisted, call, stored, threw>>
  BY DEF SyncCommit
<1>2. CallsOK
  BY DEF DataOK
<1>3. Request(n) \in RequestRecord /\ (IsIn(m, Request(n)) <=> m \in Range(call[n].list))
  BY <1>1, <1>2, RunningFacts, RequestFacts
<1>4. /\ m = n => state[m] \in {"dying", "dyingWaits"}
      /\ m # n => m \notin Range(call[n].list)
  BY <1>1, <1>2, CallIsAboutItsMessage
<1>5. CASE m = n
  <2>1. state[m] = "dying" /\ state'[m] = "dyingWaits"
    BY <1>1, <1>2, <1>4, <1>5 DEF Running, CallsOK
  <2>2. QED
    BY <1>1, <2>1, OwnCallStaysClean
<1>6. CASE m # n
  <2>1. NothingAdded(m)
    BY <1>1, <1>3, <1>4, <1>6, RequestsAdded DEF NothingAdded
  <2>2. Untouched(m)
    BY <1>1, <1>2, <1>6 DEF Untouched, CallsOK
  <2>3. QED
    BY <1>1, <2>1, <2>2, UntouchedStaysClean
<1>7. QED
  BY <1>5, <1>6

LEMMA CommitThrowsIsClean ==
  ASSUME DataOK, NEW m \in Messages, Clean(m), NEW n \in Messages, NEW result,
         CommitThrows(n, result)
  PROVE  Clean(m)'
<1>1. Running(n) /\ AttemptEnds(n, result) /\ UNCHANGED <<config, rdkafka, threw>>
  BY DEF CommitThrows
<1>2. (Ended(n) \/ TriedAgain(n)) /\ \A k \in Messages : k # n => persisted'[k] = persisted[k]
  BY <1>1, AttemptFacts DEF DataOK
<1>3. NothingAdded(m)
  BY <1>1 DEF NothingAdded, rdkafka, IsIn
<1>4. QED
  BY <1>1, <1>2, <1>3, CallStaysClean

LEMMA AnswerIsClean ==
  ASSUME DataOK, WaitInv, NEW m \in Messages, Clean(m), NEW result, Answer(result)
  PROVE  Clean(m)'
<1>1. requests # <<>> /\ requests' = Tail(requests) /\ UNCHANGED <<config, stored, threw>>
  BY DEF Answer
<1> PICK r : r = Head(requests)
  OBVIOUS
<1> PICK n \in Messages : n = r.entries[1].message
  BY <1>1, HeadFacts
<1>2. IF r.sync THEN AttemptEnds(n, result) /\ Waits(n) ELSE UNCHANGED callVars
  BY <1>1, HeadFacts DEF Answer
<1>3. \A i \in DOMAIN requests' : i + 1 \in DOMAIN requests /\ requests'[i] = requests[i + 1]
  BY <1>1, TailFacts DEF DataOK, RdKafkaOK
<1>4. NothingAdded(m)
  BY <1>1, <1>3 DEF NothingAdded
<1>5. CASE r.sync
  <2>1. (Ended(n) \/ TriedAgain(n)) /\ \A k \in Messages : k # n => persisted'[k] = persisted[k]
    BY <1>2, <1>5, AttemptFacts DEF DataOK
  <2>2. QED
    BY <1>1, <1>2, <1>4, <1>5, <2>1, CallStaysClean
<1>6. CASE ~r.sync
  <2>1. Untouched(m) /\ call' = call
    BY <1>1, <1>2, <1>6 DEF Untouched, callVars
  <2>2. QED
    BY <1>1, <1>4, <2>1, UntouchedStaysClean
<1>7. QED
  BY <1>5, <1>6

\* A message that is not persisted is not stored either, for the timer to commit.
LEMMA AutoCommitIsClean ==
  ASSUME DataOK, NEW m \in Messages, Clean(m), AutoCommit
  PROVE  Clean(m)'
<1>1. stored' = {} /\ UNCHANGED <<config, callVars, threw>>
  BY DEF AutoCommit
<1>2. PICK r \in RequestRecord :
        requests' = Append(requests, r) /\ (IsIn(m, r) => \E e \in stored : e.message = m)
  BY AutoCommitFacts
<1>3. Unpersisted(m) => Unpersisted(m)'
  <2>1. ASSUME Unpersisted(m)
        PROVE  \A i \in DOMAIN requests' : ~IsIn(m, requests'[i])
    BY <1>2, <2>1, RequestsAdded DEF Unpersisted
  <2>2. QED
    BY <1>1, <2>1 DEF Unpersisted, IsIn, callVars
<1>4. QED
  BY <1>1, <1>3 DEF Clean, callVars

-------------------------------------------------------------------------------
(* Every step, and the theorems                                            *)

IInv == DataOK /\ WaitInv /\ CleanInv /\ OpaqueInv

LEMMA CleanOf ==
  ASSUME \A m \in Messages : ~IsGivenTo(m)' => ~IsGivenTo(m) /\ (Clean(m) => Clean(m)'), CleanInv
  PROVE  CleanInv'
<1>1. \A m \in Messages : ~IsGivenTo(m) => Clean(m)
  BY DEF CleanInv, Clean
<1>2. \A m \in Messages : ~IsGivenTo(m)' => Clean(m)'
  BY <1>1
<1>3. QED
  BY <1>2 DEF CleanInv, Clean

\* What was given stays given.
LEMMA GivenStaysGiven ==
  ASSUME DataOK, NEW list \in Seq(Positions) \ {<<>>}, NEW o \in Numbers,
         TakeOpaque(list, o), UNCHANGED <<config, callback, reports>>, NEW m, IsGivenTo(m)
  PROVE  IsGivenTo(m)'
<1>1. \A q \in 1 .. calls : q \in DOMAIN given' /\ given'[q] = given[q]
  BY TakeOpaqueFacts DEF DataOK
<1>2. DOMAIN given = 1 .. calls
  BY SequenceFacts DEF DataOK, OpaquesOK
<1>3. QED
  BY <1>1, <1>2 DEF IsGivenTo

\* The steps of the application: a commit() call, or the end of a message.
ApplicationStep ==
  \/ \E m \in Messages : \E rest \in {<<>>} \union {<<n>> : n \in Messages},
       o \in {NoOpaque} \union Opaques, forceSync \in BOOLEAN :
       CommitCall(m, rest, o, forceSync)
  \/ \E m \in Messages : \E exception \in BOOLEAN : Destroy(m, exception)
  \/ \E end \in Ends, o \in {NoOpaque} \union Opaques : CommitAtEnd(end, o)

LEMMA ApplicationSteps ==
  ASSUME IInv, ApplicationStep
  PROVE  IInv'
<1>1. ASSUME NEW m \in Messages, NEW rest \in {<<>>} \union {<<n>> : n \in Messages},
             NEW o \in {NoOpaque} \union Opaques, NEW forceSync \in BOOLEAN,
             CommitCall(m, rest, o, forceSync)
      PROVE  IInv'
  <2>1. DataOK /\ WaitInv /\ CleanInv /\ OpaqueInv
    BY DEF IInv
  <2>2. DataOK'
    BY <1>1, <2>1, CommitCallData
  <2>3. state[m] = "held" /\ state' = [state EXCEPT ![m] = "committing"] /\ requests' = requests
    BY <1>1 DEF CommitCall, rdkafka
  <2>4. \A n \in Messages : Waits(n)' <=> Waits(n)
    BY <2>1, <2>3 DEF Waits, DataOK, CallsOK
  <2>5. WaitInv'
    BY <2>1, <2>3, <2>4, AddedKeepsWaiting
  <2>6. \A k \in Messages : ~IsGivenTo(k)' => ~IsGivenTo(k) /\ (Clean(k) => Clean(k)')
    BY <1>1, <2>1, <2>2, CommitCallIsClean
  <2>7. CleanInv'
    BY <2>1, <2>6, CleanOf
  <2>8. TakeOpaque(<<m>> \o rest, o) /\ UNCHANGED <<config, events, callback, reports>>
    BY <1>1 DEF CommitCall, rdkafka
  <2>9. OpaqueInv'
    BY <2>1, <2>8, ListFacts, TakeOpaqueKeeps DEF Numbers
  <2>10. QED
    BY <2>2, <2>5, <2>7, <2>9 DEF IInv
<1>2. ASSUME NEW m \in Messages, NEW exception \in BOOLEAN, Destroy(m, exception)
      PROVE  IInv'
  <2>1. DataOK /\ WaitInv /\ CleanInv /\ OpaqueInv
    BY DEF IInv
  <2>2. DataOK'
    BY <1>2, <2>1, DestroyData
  <2>3. /\ state[m] = "held" /\ requests' = requests
        /\ state' = [state EXCEPT ![m] = IF Persists(m, exception) THEN "dying" ELSE "gone"]
        /\ UNCHANGED <<config, offsets, events, callback, calls, given, reports>>
    BY <1>2 DEF Destroy, rdkafka
  <2>4. \A n \in Messages : Waits(n)' <=> Waits(n)
    BY <2>1, <2>3 DEF Waits, DataOK, CallsOK
  <2>5. WaitInv'
    BY <2>1, <2>3, <2>4, AddedKeepsWaiting
  <2>6. \A k \in Messages : ~IsGivenTo(k)' => ~IsGivenTo(k) /\ (Clean(k) => Clean(k)')
    BY <1>2, <2>1, <2>3, DestroyIsClean DEF IsGivenTo
  <2>7. QED
    BY <2>1, <2>2, <2>3, <2>5, <2>6, CleanOf, OthersKeepOpaques DEF IInv
<1>3. ASSUME NEW end \in Ends, NEW o \in {NoOpaque} \union Opaques, CommitAtEnd(end, o)
      PROVE  IInv'
  <2>1. DataOK /\ WaitInv /\ CleanInv /\ OpaqueInv
    BY DEF IInv
  <2>2. DataOK'
    BY <1>3, <2>1, CommitAtEndData
  <2>3. /\ TakeOpaque(<<end>>, o) /\ requests' = requests
        /\ UNCHANGED <<config, callVars, rdkafka, callback, reports, threw, events>>
    BY <1>3 DEF CommitAtEnd, rdkafka
  <2>4. <<end>> \in Seq(Positions) \ {<<>>} /\ o \in Numbers
    BY DEF Positions, Numbers
  <2>5. WaitInv'
    BY <2>1, <2>3, AddedKeepsWaiting DEF Waits, callVars
  <2>6. \A k \in Messages : ~IsGivenTo(k)' => ~IsGivenTo(k)
    BY <2>1, <2>3, <2>4, GivenStaysGiven
  <2>7. \A k \in Messages : Clean(k) => Clean(k)'
    BY <2>3 DEF Clean, Unpersisted, IsIn, callVars, rdkafka
  <2>8. CleanInv'
    BY <2>1, <2>6, <2>7, CleanOf
  <2>9. OpaqueInv'
    BY <2>1, <2>3, <2>4, TakeOpaqueKeeps
  <2>10. QED
    BY <2>2, <2>5, <2>8, <2>9 DEF IInv
<1>4. QED
  BY <1>1, <1>2, <1>3 DEF ApplicationStep

\* The steps of a call.
LEMMA CallSteps ==
  ASSUME IInv, NEW m \in Messages, CallStep(m)
  PROVE  IInv'
<1>1. DataOK /\ WaitInv /\ CleanInv /\ OpaqueInv /\ CallsOK
  BY DEF IInv, DataOK
<1>2. ASSUME Running(m), Ended(m) \/ TriedAgain(m)
      PROVE  \A n \in Messages : Waits(n)' <=> Waits(n)
  <2>1. ~Waits(m)' /\ \A n \in Messages : n # m => state'[n] = state[n]
    BY <1>1, <1>2, CallGoesOn
  <2>2. ~Waits(m)
    BY <1>2 DEF Running, Waits
  <2>3. QED
    BY <2>1, <2>2 DEF Waits
<1>3. CASE StoreOffset(m)
  <2>1. /\ Running(m) /\ Ended(m) /\ requests' = requests
        /\ UNCHANGED <<config, offsets, events, callback, calls, given, reports>>
    BY <1>3, ReturnedEnds DEF StoreOffset
  <2>2. WaitInv'
    BY <1>1, <1>2, <2>1, AddedKeepsWaiting
  <2>3. CleanInv'
    BY <1>1, <1>3, <2>1, StoreOffsetIsClean, CleanOf DEF IsGivenTo
  <2>4. QED
    BY <1>1, <1>3, <2>1, <2>2, <2>3, StoreOffsetData, OthersKeepOpaques DEF IInv
<1>4. CASE AsyncCommit(m)
  <2>1. /\ Running(m) /\ Ended(m) /\ requests' = Append(requests, Request(m)) /\ call[m].how = "async"
        /\ UNCHANGED <<config, offsets, events, callback, calls, given, reports>>
    BY <1>4, ReturnedEnds DEF AsyncCommit
  <2>2. Request(m) \in RequestRecord /\ ~Request(m).sync
    BY <1>1, <2>1, RunningFacts, RequestFacts
  <2>3. WaitInv'
    BY <1>1, <1>2, <2>1, <2>2, AddedKeepsWaiting
  <2>4. CleanInv'
    BY <1>1, <1>4, <2>1, AsyncCommitIsClean, CleanOf DEF IsGivenTo
  <2>5. QED
    BY <1>1, <1>4, <2>1, <2>3, <2>4, AsyncCommitData, OthersKeepOpaques DEF IInv
<1>5. CASE SyncCommit(m)
  <2>1. UNCHANGED <<config, offsets, events, callback, calls, given, reports>>
    BY <1>5 DEF SyncCommit
  <2>2. CleanInv'
    BY <1>1, <1>5, <2>1, SyncCommitIsClean, CleanOf DEF IsGivenTo
  <2>3. QED
    BY <1>1, <1>5, <2>1, <2>2, SyncCommitData, SyncCommitKeepsWaiting, OthersKeepOpaques DEF IInv
<1>6. ASSUME NEW result \in {"retriable", "fatal"}, CommitThrows(m, result)
      PROVE  IInv'
  <2>1. /\ Running(m) /\ AttemptEnds(m, result) /\ requests' = requests
        /\ UNCHANGED <<config, offsets, events, callback, calls, given, reports>>
    BY <1>6 DEF CommitThrows, rdkafka
  <2>2. Ended(m) \/ TriedAgain(m)
    BY <1>1, <2>1, AttemptFacts
  <2>3. WaitInv'
    BY <1>1, <1>2, <2>1, <2>2, AddedKeepsWaiting
  <2>4. CleanInv'
    BY <1>1, <1>6, <2>1, CommitThrowsIsClean, CleanOf DEF IsGivenTo
  <2>5. QED
    BY <1>1, <1>6, <2>1, <2>3, <2>4, CommitThrowsData, OthersKeepOpaques DEF IInv
<1>7. QED
  BY <1>3, <1>4, <1>5, <1>6 DEF CallStep

\* The steps of rdkafka and of the callback.
RdKafkaStep ==
  \/ \E result \in {"ok", "retriable", "fatal"} : Answer(result)
  \/ AutoCommit \/ OffsetCommitCallback

LEMMA RdKafkaSteps ==
  ASSUME IInv, RdKafkaStep
  PROVE  IInv'
<1>1. DataOK /\ WaitInv /\ CleanInv /\ OpaqueInv
  BY DEF IInv
<1>2. ASSUME NEW result \in {"ok", "retriable", "fatal"}, Answer(result)
      PROVE  IInv'
  <2>1. given' = given
    BY <1>2 DEF Answer
  <2>2. CleanInv'
    BY <1>1, <1>2, <2>1, AnswerIsClean, CleanOf DEF IsGivenTo
  <2>3. QED
    BY <1>1, <1>2, <2>2, AnswerData, AnswerKeepsWaiting, AnswerKeepsOpaques DEF IInv
<1>3. CASE AutoCommit
  <2>1. UNCHANGED <<config, state, offsets, events, callback, calls, given, reports>>
    BY <1>3 DEF AutoCommit, callVars
  <2>2. \E r \in RequestRecord : ~r.sync /\ requests' = Append(requests, r)
    BY <1>1, <1>3, AutoCommitFacts
  <2>3. WaitInv'
    BY <1>1, <2>1, <2>2, AddedKeepsWaiting DEF Waits
  <2>4. CleanInv'
    BY <1>1, <1>3, <2>1, AutoCommitIsClean, CleanOf DEF IsGivenTo
  <2>5. QED
    BY <1>1, <1>3, <2>1, <2>3, <2>4, AutoCommitData, OthersKeepOpaques DEF IInv
<1>4. CASE OffsetCommitCallback
  <2>1. UNCHANGED <<config, callVars, requests, stored, given, threw>>
    BY <1>4 DEF OffsetCommitCallback
  <2>2. DataOK' /\ OpaqueInv'
    BY <1>1, <1>4, CallbackGoesOn, CallbackEnds
  <2>3. WaitInv'
    BY <1>1, <2>1, AddedKeepsWaiting DEF Waits, callVars
  <2>4. \A m \in Messages : (~IsGivenTo(m)' => ~IsGivenTo(m)) /\ (Clean(m) => Clean(m)')
    BY <2>1 DEF IsGivenTo, Clean, Unpersisted, IsIn, callVars
  <2>5. QED
    BY <1>1, <2>2, <2>3, <2>4, CleanOf DEF IInv
<1>5. QED
  BY <1>2, <1>3, <1>4 DEF RdKafkaStep

LEMMA Inductive == Spec => []IInv
<1>1. Init => IInv
  BY InitInv DEF IInv
<1>2. IInv /\ [Next]_vars => IInv'
  <2> SUFFICES ASSUME IInv, [Next]_vars PROVE IInv'
    OBVIOUS
  <2>1. CASE Next
    <3>1. ApplicationStep \/ RdKafkaStep \/ \E m \in Messages : CallStep(m)
      BY <2>1 DEF Next, ApplicationStep, RdKafkaStep
    <3>2. (\E m \in Messages : CallStep(m)) => IInv'
      BY CallSteps
    <3>3. QED
      BY <3>1, <3>2, ApplicationSteps, RdKafkaSteps
  <2>2. CASE UNCHANGED vars
    <3>1. UNCHANGED <<config, callVars, offsets, rdkafka, callback, calls, failures, given, reports, threw>>
      BY <2>2 DEF vars
    <3>2. DataOK /\ WaitInv /\ CleanInv /\ OpaqueInv
      BY DEF IInv
    <3>3. DataOK'
      BY <3>1, <3>2, ConfigKept DEF DataOK, CallsOK, OpaquesOK, RdKafkaOK, callVars, rdkafka, Running, Waits
    <3>4. WaitInv'
      BY <3>1, <3>2, AddedKeepsWaiting DEF callVars, rdkafka, Waits
    <3>5. \A m \in Messages : (~IsGivenTo(m)' => ~IsGivenTo(m)) /\ (Clean(m) => Clean(m)')
      BY <3>1 DEF IsGivenTo, Clean, Unpersisted, IsIn, callVars, rdkafka
    <3>6. OpaqueInv'
      BY <3>1, <3>2, OthersKeepOpaques DEF rdkafka
    <3>7. QED
      BY <3>2, <3>3, <3>4, <3>5, <3>6, CleanOf DEF IInv
  <2>3. QED
    BY <2>1, <2>2
<1>3. QED
  BY <1>1, <1>2, PTL DEF Spec

LEMMA ThrewMessages == Spec => [](threw \subseteq Messages)
<1>1. Init => threw \subseteq Messages
  BY DEF Init
<1>2. threw \subseteq Messages /\ [Next]_vars => (threw \subseteq Messages)'
  <2> SUFFICES ASSUME threw \subseteq Messages, [Next]_vars
               PROVE  threw' = threw \/ \E m \in Messages : threw' = threw \union {m}
    OBVIOUS
  <2>1. ASSUME NEW m \in Messages, NEW exception, Destroy(m, exception)
        PROVE  threw' = threw \/ \E n \in Messages : threw' = threw \union {n}
    BY <2>1 DEF Destroy
  <2>2. \A m, rest, o, forceSync : CommitCall(m, rest, o, forceSync) => threw' = threw
    BY DEF CommitCall
  <2>3. \A m : CallStep(m) => threw' = threw
    BY DEF CallStep, StoreOffset, AsyncCommit, SyncCommit, CommitThrows
  <2>4. \A end, o : CommitAtEnd(end, o) => threw' = threw
    BY DEF CommitAtEnd
  <2>5. \A result : Answer(result) => threw' = threw
    BY DEF Answer
  <2>6. AutoCommit \/ OffsetCommitCallback \/ UNCHANGED vars => threw' = threw
    BY DEF AutoCommit, OffsetCommitCallback, vars
  <2>7. QED
    BY <2>1, <2>2, <2>3, <2>4, <2>5, <2>6 DEF Next
<1>3. QED
  BY <1>1, <1>2, PTL DEF Spec

\* The types, and that a thread in a synchronous commit waits for exactly one answer,
\* its own, and is let go with it: whatever the answers and their order, for any
\* messages, options and number of retries.
THEOREM MessagesTypeCorrect == Spec => []TypeOK
<1>1. IInv => TypeOK
  <2> SUFFICES ASSUME IInv PROVE TypeOK
    OBVIOUS
  <2>1. DataOK /\ WaitInv
    BY DEF IInv
  <2>2. \A m \in Messages : call[m].opaque \in Opaques \union {NoOpaque} /\ call[m].retries \in 0 .. MaxRetries
    BY <2>1 DEF DataOK, CallsOK, Call, Numbers
  <2>3. QED
    BY <2>1, <2>2 DEF TypeOK, DataOK, CallsOK, OpaquesOK, RdKafkaOK, WaitInv, Numbers
<1>2. QED
  BY <1>1, Inductive, PTL

\* A message whose receiver threw, and that the application did not commit itself, is
\* persisted neither by corokafka nor by rdkafka's timer, unless the options ask for it.
THEOREM ThrownNotPersisted == Spec => []ThrownIsNotPersisted
<1>1. IInv /\ threw \subseteq Messages => ThrownIsNotPersisted
  <2> SUFFICES ASSUME IInv, threw \subseteq Messages, NEW m \in threw, ~config.onException,
                      ~IsGivenTo(m)
               PROVE  ~persisted[m] /\ \A i \in DOMAIN requests :
                         \A e \in Range(requests[i].entries) : e.message # m
    BY DEF ThrownIsNotPersisted, IsGivenTo
  <2>1. Unpersisted(m)
    BY DEF IInv, CleanInv
  <2>2. QED
    BY <2>1 DEF Unpersisted, IsIn, Range
<1>2. QED
  BY <1>1, Inductive, ThrewMessages, PTL

\* An opaque is passed back at most once and is then in no map, it is under one
\* position, and it comes with the position it was given for: however the threads, the
\* broker's answers and the partitions of an event are interleaved.
THEOREM OpaqueOnce == Spec => []OpaqueOnceForItsMessage
<1>1. IInv => OpaqueOnceForItsMessage
  <2> SUFFICES ASSUME OpaqueInv PROVE OpaqueOnceForItsMessage
    BY DEF IInv
  <2>1. \A o \in Opaques : \A p \in Positions : offsets[p] = o => p = Head(given[o]) /\ reports[o] = <<>>
    BY DEF OpaqueInv
  <2>2. \A o \in Opaques :
          /\ Len(reports[o]) <= 1
          /\ \A i \in DOMAIN reports[o] : reports[o][i].inPlace =>
               /\ reports[o][i].position = Head(given[o])
               /\ config.api = "message" => reports[o][i].commitOf = Head(given[o])
    BY DEF OpaqueInv
  <2>3. QED
    BY <2>1, <2>2 DEF OpaqueOnceForItsMessage
<1>2. QED
  BY <1>1, Inductive, PTL

===============================================================================
