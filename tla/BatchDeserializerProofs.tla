------------------------ MODULE BatchDeserializerProofs ------------------------
(***************************************************************************)
(* Proofs about BatchDeserializer: how the loops share a batch out, the    *)
(* type invariant, and that every message of a batch is settled, for any   *)
(* batch, any number of queues and threads, and whenever the application   *)
(* toggles the preprocessor; then, for any headers, what the loop over the *)
(* headers of a message and the one that serializes them compute, and that *)
(* the accessors tell what was read and give back what was sent.           *)
(***************************************************************************)
EXTENDS BatchDeserializer, FiniteSetTheorems, SequenceTheorems, TLAPS

-------------------------------------------------------------------------------
(* The shares                                                              *)

Quotient(count)  == Size \div count
Remainder(count) == Size % count

\* How many of the workers numbered from first to i - 1 have one of the remainder.
WithOneMore(first, i, count) ==
  LET top == IF i <= Remainder(count) THEN i ELSE Remainder(count)
  IN  IF top <= first THEN 0 ELSE top - first

LEMMA Division ==
  ASSUME NEW a \in Nat, NEW b \in Nat, b > 0
  PROVE  /\ a \div b \in Nat /\ a % b \in 0 .. b - 1
         /\ b * (a \div b) + (a % b) = a
  OBVIOUS

LEMMA StartValue ==
  ASSUME Size \in Nat, NEW count \in Nat \ {0}, NEW first \in Nat, NEW i \in Nat, first <= i
  PROVE  Start(first, i, count) = (i - first) * Quotient(count) + WithOneMore(first, i, count)
<1> DEFINE r == Remainder(count)
           top == IF i <= r THEN i ELSE r
<1>1. r \in Nat
  BY Division DEF Remainder
<1>2. {k \in first .. i - 1 : k < r} = first .. top - 1
  BY <1>1
<1>3. Cardinality(first .. top - 1) = IF top <= first THEN 0 ELSE top - first
  <2>1. first \in Int /\ top - 1 \in Int
    BY <1>1
  <2>2. Cardinality(first .. top - 1) = IF first > top - 1 THEN 0 ELSE (top - 1) - first + 1
    BY <2>1, FS_Interval
  <2>3. QED
    BY <1>1, <2>1, <2>2
<1>4. QED
  BY <1>2, <1>3 DEF Start, Quotient, Remainder, WithOneMore

LEMMA WithOneMoreFacts ==
  ASSUME Size \in Nat, NEW count \in Nat \ {0}, NEW first \in Nat, NEW i \in Nat, first <= i
  PROVE  /\ WithOneMore(first, i, count) \in 0 .. Remainder(count)
         /\ WithOneMore(first, first, count) = 0
         /\ WithOneMore(first, i + 1, count)
              = WithOneMore(first, i, count) + (IF i < Remainder(count) THEN 1 ELSE 0)
         /\ first = 0 /\ i = count => WithOneMore(first, i, count) = Remainder(count)
<1>1. Remainder(count) \in 0 .. count - 1
  BY Division DEF Remainder
<1>2. QED
  BY <1>1 DEF WithOneMore

\* Each worker begins where the one before it ends, and the last one within the
\* batch: at its end, if the numbers begin with 0.
LEMMA StartFacts ==
  ASSUME Size \in Nat, NEW count \in Nat \ {0}, NEW first \in Nat
  PROVE  /\ Start(first, first, count) = 0
         /\ \A i \in Nat : first <= i =>
              /\ Start(first, i, count) \in Nat /\ Share(i, count) \in Nat
              /\ Start(first, i + 1, count) = Start(first, i, count) + Share(i, count)
         /\ Start(first, first + count, count) <= Size
         /\ first = 0 => Start(first, count, count) = Size
<1> DEFINE q == Quotient(count)
           r == Remainder(count)
<1>1. q \in Nat /\ r \in 0 .. count - 1 /\ count * q + r = Size
  BY Division DEF Quotient, Remainder
<1>2. \A i \in Nat : first <= i =>
        Start(first, i, count) = (i - first) * q + WithOneMore(first, i, count)
  BY StartValue
<1>3. \A i \in Nat : Share(i, count) = q + (IF i < r THEN 1 ELSE 0)
  BY DEF Share, Quotient, Remainder
<1> HIDE DEF q
<1>4. Start(first, first, count) = 0
  <2>1. (first - first) * q = 0
    BY <1>1
  <2>2. QED
    BY <1>2, <2>1, WithOneMoreFacts
<1>5. ASSUME NEW i \in Nat, first <= i
      PROVE  /\ Start(first, i, count) \in Nat /\ Share(i, count) \in Nat
             /\ Start(first, i + 1, count) = Start(first, i, count) + Share(i, count)
  <2>1. /\ WithOneMore(first, i, count) \in Nat
        /\ WithOneMore(first, i + 1, count) = WithOneMore(first, i, count) + (IF i < r THEN 1 ELSE 0)
    <3>1. WithOneMore(first, i, count) \in 0 .. Remainder(count)
      BY <1>5, WithOneMoreFacts
    <3>2. WithOneMore(first, i + 1, count)
            = WithOneMore(first, i, count) + (IF i < Remainder(count) THEN 1 ELSE 0)
      BY <1>5, WithOneMoreFacts
    <3>3. QED
      BY <1>1, <3>1, <3>2
  <2>2. (i - first) * q \in Nat /\ ((i + 1) - first) * q = (i - first) * q + q
    <3>1. i - first \in Nat /\ (i + 1) - first = (i - first) + 1
      BY <1>5
    <3>2. \A n \in Nat : n * q \in Nat /\ (n + 1) * q = n * q + q
      BY <1>1
    <3>3. QED
      BY <3>1, <3>2
  <2>3. Start(first, i, count) = (i - first) * q + WithOneMore(first, i, count)
    BY <1>2, <1>5
  <2>4. Start(first, i + 1, count) = ((i + 1) - first) * q + WithOneMore(first, i + 1, count)
    BY <1>2, <1>5
  <2>5. QED
    BY <1>1, <1>3, <2>1, <2>2, <2>3, <2>4
<1>6. Start(first, first + count, count) <= Size
  <2>1. Start(first, first + count, count)
          = ((first + count) - first) * q + WithOneMore(first, first + count, count)
    BY <1>2
  <2>2. WithOneMore(first, first + count, count) \in 0 .. r
    BY WithOneMoreFacts
  <2>3. ((first + count) - first) * q = count * q /\ count * q \in Nat
    <3>1. (first + count) - first = count
      OBVIOUS
    <3>2. QED
      BY <1>1, <3>1
  <2>4. QED
    BY <1>1, <2>1, <2>2, <2>3
<1>7. first = 0 => Start(first, count, count) = Size
  <2>1. ASSUME first = 0
        PROVE  Start(first, count, count) = Size
    <3>1. Start(first, count, count) = (count - first) * q + WithOneMore(first, count, count)
      BY <1>2, <2>1
    <3>2. WithOneMore(first, count, count) = r
      BY <2>1, WithOneMoreFacts
    <3>3. count - first = count
      BY <2>1
    <3>4. QED
      BY <1>1, <3>1, <3>2, <3>3
  <2>2. QED
    BY <2>1
<1>8. QED
  BY <1>4, <1>5, <1>6, <1>7

LEMMA StartGrows ==
  ASSUME Size \in Nat, NEW count \in Nat \ {0}, NEW first \in Nat, NEW i \in Nat, NEW k \in Nat,
         first <= i, i <= k
  PROVE  Start(first, i, count) <= Start(first, k, count)
<1> DEFINE q == Quotient(count)
           a == WithOneMore(first, i, count)
           b == WithOneMore(first, k, count)
<1>1. q \in Nat /\ Remainder(count) \in Nat
  BY Division DEF Quotient, Remainder
<1>2. a \in Nat /\ b \in Nat /\ a <= b
  BY <1>1 DEF WithOneMore
<1>3. /\ Start(first, i, count) = (i - first) * q + a
      /\ Start(first, k, count) = (k - first) * q + b
  BY StartValue
<1>4. (i - first) * q \in Nat /\ (k - first) * q \in Nat /\ (i - first) * q <= (k - first) * q
  <2>1. \A m, n \in Nat : m <= n => m * q \in Nat /\ n * q \in Nat /\ m * q <= n * q
    <3>1. ASSUME NEW m \in Nat, NEW n \in Nat, m <= n
          PROVE  m * q \in Nat /\ n * q \in Nat /\ m * q <= n * q
      <4> HIDE DEF q
      <4>1. m * q \in Nat /\ (n - m) * q \in Nat /\ n * q = m * q + (n - m) * q
        BY <1>1, <3>1
      <4>2. QED
        BY <4>1
    <3>2. QED
      BY <3>1
  <2>2. i - first \in Nat /\ k - first \in Nat /\ i - first <= k - first
    OBVIOUS
  <2> HIDE DEF q
  <2>3. QED
    BY <2>1, <2>2
<1> HIDE DEF q, a, b
<1>5. QED
  BY <1>2, <1>3, <1>4

\* The workers of a loop: where each part begins and ends.
LEMMA WorkersValue ==
  ASSUME Size \in Nat, NEW count \in Nat \ {0}, NEW first \in Nat,
         NEW i \in DOMAIN Workers(first, count)
  PROVE  /\ i \in first .. first + count - 1
         /\ Start(first, i, count) \in Nat /\ Start(first, i + 1, count) \in Nat
         /\ Start(first, i, count) < Start(first, i + 1, count)
         /\ Workers(first, count)[i] =
              [start |-> Start(first, i, count), next |-> Start(first, i, count),
               end |-> Start(first, i + 1, count), step |-> "look", word |-> {}]
<1>1. i \in first .. first + count - 1 /\ Share(i, count) > 0
  BY DEF Workers
<1>2. /\ Start(first, i, count) \in Nat /\ Share(i, count) \in Nat
      /\ Start(first, i + 1, count) = Start(first, i, count) + Share(i, count)
  <2>1. i \in Nat /\ first <= i
    BY <1>1
  <2>2. \A n \in Nat : first <= n =>
          /\ Start(first, n, count) \in Nat /\ Share(n, count) \in Nat
          /\ Start(first, n + 1, count) = Start(first, n, count) + Share(n, count)
    BY StartFacts
  <2>3. QED
    BY <2>1, <2>2
<1>3. Workers(first, count)[i] =
        [start |-> Start(first, i, count), next |-> Start(first, i, count),
         end |-> Start(first, i, count) + Share(i, count), step |-> "look", word |-> {}]
  BY DEF Workers
<1>4. QED
  BY <1>1, <1>2, <1>3

\* A finite set of naturals that holds 0 is left somewhere on the way up: else
\* n |-> n + 1 would map it into itself without its 0.
LEMMA StepOut ==
  ASSUME NEW S \in SUBSET Nat, IsFiniteSet(S), 0 \in S
  PROVE  \E n \in S : n + 1 \notin S
<1>1. SUFFICES ASSUME \A n \in S : n + 1 \in S PROVE FALSE
  OBVIOUS
<1> DEFINE up == [n \in S |-> n + 1]
<1>2. up \in [S -> S \ {0}]
  BY <1>1
<1>3. IsFiniteSet(S \ {0}) /\ Cardinality(S \ {0}) < Cardinality(S)
  <2>1. IsFiniteSet(S \ {0}) /\ Cardinality(S \ {0}) = Cardinality(S) - 1
    BY FS_RemoveElement
  <2>2. Cardinality(S) \in Nat
    BY FS_CardinalityType
  <2>3. QED
    BY <2>1, <2>2
<1>4. \E x, y \in S : x # y /\ up[x] = up[y]
  <2> HIDE DEF up
  <2> QED BY <1>2, <1>3, FS_PigeonHole
<1>5. QED
  BY <1>4

\* The parts of a loop that counts from 0 are the whole batch.
LEMMA WorkersCover ==
  ASSUME Size \in Nat, NEW count \in Nat \ {0}, NEW j \in Batch
  PROVE  \E i \in DOMAIN Workers(0, count) :
           Workers(0, count)[i].start <= j /\ j < Workers(0, count)[i].end
<1> DEFINE Behind == {n \in 0 .. count : Start(0, n, count) <= j}
<1>1. /\ Start(0, 0, count) = 0 /\ Start(0, count, count) = Size
      /\ \A i \in Nat : /\ Start(0, i, count) \in Nat /\ Share(i, count) \in Nat
                        /\ Start(0, i + 1, count) = Start(0, i, count) + Share(i, count)
  <2>1. 0 \in Nat /\ \A i \in Nat : 0 <= i
    OBVIOUS
  <2>2. /\ Start(0, 0, count) = 0 /\ Start(0, count, count) = Size
        /\ \A i \in Nat : 0 <= i =>
             /\ Start(0, i, count) \in Nat /\ Share(i, count) \in Nat
             /\ Start(0, i + 1, count) = Start(0, i, count) + Share(i, count)
    BY <2>1, StartFacts
  <2>3. QED
    BY <2>1, <2>2
<1>2. j \in Nat /\ j < Size
  BY DEF Batch
<1>3. Behind \in SUBSET Nat /\ 0 \in Behind /\ IsFiniteSet(Behind)
  <2>1. Behind \subseteq 0 .. count /\ IsFiniteSet(0 .. count)
    BY FS_Interval
  <2>2. 0 \in Behind
    BY <1>1, <1>2
  <2>3. QED
    BY <2>1, <2>2, FS_Subset
<1>4. PICK i \in Behind : i + 1 \notin Behind
  <2> HIDE DEF Behind
  <2> QED BY <1>3, StepOut
<1>5. i \in Nat /\ i < count
  <2>1. i # count
    BY <1>1, <1>2, <1>4
  <2>2. QED
    BY <1>4, <2>1
<1>6. Start(0, i, count) <= j /\ j < Start(0, i + 1, count)
  <2>1. Start(0, i, count) <= j
    BY <1>4
  <2>2. i + 1 \in 0 .. count
    BY <1>5
  <2>3. ~ Start(0, i + 1, count) <= j
    BY <1>4, <2>2
  <2>4. QED
    BY <1>1, <1>2, <1>5, <2>1, <2>3
<1>7. i \in DOMAIN Workers(0, count)
  <2>1. Share(i, count) > 0
    BY <1>1, <1>2, <1>6
  <2>2. i \in 0 .. 0 + count - 1
    BY <1>5
  <2>3. QED
    BY <2>1, <2>2 DEF Workers
<1>8. QED
  BY <1>6, <1>7, WorkersValue

-------------------------------------------------------------------------------
(* The inductive invariant                                                 *)

Stages  == {"begun", "preprocessing", "deserializing", "ended", "crashed"}
Answers == {"none", "drop", "keep"}

WorkerRecord == [start : Nat, next : Nat, end : Nat,
                 step : {"look", "drop", "keep", "settle"}, word : SUBSET Nat]

\* What setup() makes of any options, and where the queues may begin.
ConfigOK ==
  /\ config.ioThreads \in 1 .. NumThreads
  /\ config.low \in LowQueues /\ config.coros \in Nat \ {0}
  /\ config.strategy = "roundrobin" => stage = "ended" /\ skip = {} /\ worker = <<>>

DataOK ==
  /\ preprocess \in BOOLEAN /\ allocated \in BOOLEAN /\ stage \in Stages
  /\ Size \in Nat /\ Size <= Len(ReadBatch)
  /\ skip \subseteq Batch /\ (skip # {} => allocated)
  /\ verdict \in [Batch -> Answers] /\ DOMAIN outcome = Batch

\* A worker is within its part.
PartOK(w) ==
  /\ w.start <= w.next /\ w.next <= w.end /\ w.end <= Size
  /\ w.word \subseteq Batch
  /\ w.step # "look" => w.next < w.end

WorkersOK ==
  /\ DOMAIN worker \subseteq Nat /\ worker \in [DOMAIN worker -> WorkerRecord]
  /\ \A i \in DOMAIN worker : PartOK(worker[i])
  /\ \A i, k \in DOMAIN worker :
       i # k => worker[i].end <= worker[k].start \/ worker[k].end <= worker[i].start

Judging == stage = "preprocessing" \/ (stage = "deserializing" /\ ~config.onIoThread)

\* What a stage begins with, and who may write the bits in it.
StageInv ==
  /\ stage = "begun" => worker = <<>> /\ skip = {} /\ \A j \in Batch : verdict[j] = "none"
  /\ stage = "preprocessing" => config.onIoThread
  /\ stage = "ended" => WorkersDone
  /\ stage = "crashed" => ~allocated
  /\ \A i \in DOMAIN worker : worker[i].step \in {"drop", "keep"} => allocated /\ Judging

\* A message is judged once, and a bit that is set, in the vector or in a word that
\* a worker has loaded, however long ago, is one that the callback asked for.
VerdictInv ==
  /\ \A j \in skip : verdict[j] = "drop"
  /\ \A i \in DOMAIN worker :
       /\ \A j \in worker[i].word : verdict[j] = "drop"
       /\ worker[i].step \in {"drop", "keep"} => verdict[worker[i].next] = worker[i].step
       /\ Judging => \A j \in worker[i].next .. worker[i].end - 1 :
            j > worker[i].next \/ worker[i].step = "look" => verdict[j] = "none"

\* One worker at a time writes back the word as it is, with its own bit.
KeptInv ==
  OneJudge =>
    /\ Judging => \A i, k \in DOMAIN worker : i = k
    /\ \A i \in DOMAIN worker : worker[i].step \in {"drop", "keep"} => worker[i].word = skip
    /\ stage \in {"begun", "preprocessing", "deserializing"} =>
         \A j \in Batch : verdict[j] = "drop" =>
           \/ j \in skip
           \/ \E i \in DOMAIN worker : worker[i].step = "drop" /\ worker[i].next = j

\* What a coroutine has gone past is settled; and every message is in some part, if
\* the numbers of the queues begin with 0.
SettledInv ==
  /\ stage = "deserializing" =>
       /\ \A i \in DOMAIN worker : \A j \in worker[i].start .. worker[i].next - 1 : IsSettled(j)
       /\ config.low = 0 => \A j \in Batch : \E i \in DOMAIN worker :
            worker[i].start <= j /\ j < worker[i].end
  /\ config.low = 0 => EveryMessageSettled

TypeInv == ConfigOK /\ DataOK /\ WorkersOK /\ StageInv

BatchInv == TypeInv /\ VerdictInv /\ KeptInv /\ SettledInv

-------------------------------------------------------------------------------
(* The initial states, and the workers a loop begins with                  *)

LEMMA EmptySequence ==
  ASSUME NEW S
  PROVE  DOMAIN <<>> = {} /\ Len(<<>>) = 0 /\ <<>> \in [{} -> S]
<1>1. DOMAIN <<>> = {} /\ Len(<<>>) = 0 /\ <<>> \in Seq(S)
  OBVIOUS
<1>2. <<>> \in [1 .. 0 -> S]
  BY <1>1
<1>3. 1 .. 0 = {}
  OBVIOUS
<1>4. QED
  BY <1>1, <1>2, <1>3

LEMMA BatchLength == Len(ReadBatch) \in Nat \ {0}
<1> DEFINE Read == [error : BOOLEAN, key : BOOLEAN, payload : BOOLEAN, headers : Seq(RawHeaders)]
<1>1. ReadBatch \in Seq(Read) /\ ReadBatch # <<>>
  BY BatchAssumption
<1> HIDE DEF Read
<1>2. QED
  BY <1>1, EmptySeq

\* setup() leaves the loop over IO threads one of them at least.
LEMMA SettingsFacts ==
  ASSUME NEW s \in Settings
  PROVE  s.ioThreads \in 1 .. NumThreads /\ s.preprocess \in BOOLEAN
<1>1. PICK o \in {x \in Options : Accepted(Brokers ++ x, NumThreads)}, callbacks \in SUBSET {"preprocessor"} :
        s = PreprocessSettings(o, callbacks, NumThreads)
  BY DEF Settings
<1>2. ValidRange(Brokers ++ o, NumThreads)
  BY <1>1 DEF Accepted
<1>3. /\ LowThreadOf(Brokers ++ o) = LowThreadOf(o)
      /\ HighThreadOf(Brokers ++ o, NumThreads) = HighThreadOf(o, NumThreads)
  BY DEF LowThreadOf, HighThreadOf, Given, IsGiven, Brokers, Option, ++
<1>4. /\ LowThreadOf(o) \in 0 .. NumThreads - 1
      /\ HighThreadOf(o, NumThreads) \in LowThreadOf(o) .. NumThreads - 1
  BY <1>2, <1>3 DEF ValidRange
<1>5. s.ioThreads = HighThreadOf(o, NumThreads) - LowThreadOf(o) + 1
  BY <1>1 DEF PreprocessSettings
<1>6. s.preprocess = IsTrue(o, "preprocess.messages", TRUE)
  BY <1>1 DEF PreprocessSettings
<1>7. s.preprocess \in BOOLEAN
  BY <1>6 DEF IsTrue
<1>8. s.ioThreads \in 1 .. NumThreads
  BY <1>4, <1>5, BatchAssumption
<1>9. QED
  BY <1>7, <1>8

LEMMA InitInv == Init => BatchInv
<1> SUFFICES ASSUME Init PROVE BatchInv
  OBVIOUS
<1>1. /\ stage = "ended" /\ batch = <<>> /\ allocated = FALSE /\ skip = {}
      /\ worker = <<>> /\ verdict = <<>> /\ outcome = <<>>
  BY DEF Init
<1>2. PICK s \in Settings, low \in LowQueues, coros \in Widths :
        /\ config = [registered |-> s.registered, onIoThread |-> s.onIoThread, low |-> low,
                     coros |-> coros, ioThreads |-> s.ioThreads,
                     strategy |-> s.strategy, skipUnknown |-> s.skipUnknown]
        /\ preprocess = s.preprocess
  BY DEF Init
<1>3. /\ Size = 0 /\ Batch = {} /\ DOMAIN worker = {} /\ DOMAIN outcome = {}
      /\ verdict \in [Batch -> Answers] /\ worker \in [DOMAIN worker -> WorkerRecord]
  BY <1>1, EmptySequence DEF Size, Batch
<1>4. ConfigOK
  BY <1>1, <1>2, SettingsFacts, BatchAssumption DEF ConfigOK
<1>5. preprocess \in BOOLEAN
  BY <1>2, SettingsFacts
<1>6. DataOK
  <2>1. allocated \in BOOLEAN /\ stage \in Stages /\ skip = {}
    BY <1>1 DEF Stages
  <2>2. Size \in Nat /\ Size <= Len(ReadBatch)
    BY <1>3, BatchLength
  <2>3. QED
    BY <1>3, <1>5, <2>1, <2>2 DEF DataOK
<1>7. WorkersOK
  BY <1>3 DEF WorkersOK
<1>8. StageInv
  BY <1>1, <1>3 DEF StageInv, WorkersDone
<1>9. VerdictInv /\ KeptInv
  BY <1>1, <1>3 DEF VerdictInv, KeptInv
<1>10. SettledInv
  BY <1>1, <1>3 DEF SettledInv, EveryMessageSettled
<1>11. QED
  BY <1>4, <1>6, <1>7, <1>8, <1>9, <1>10 DEF BatchInv, TypeInv

\* The parts of a loop lie within the batch, one after the other.
LEMMA NewWorkers ==
  ASSUME Size \in Nat, NEW count \in Nat \ {0}, NEW first \in Nat, NEW W, W = Workers(first, count)
  PROVE  /\ DOMAIN W \subseteq Nat /\ W \in [DOMAIN W -> WorkerRecord]
         /\ \A i \in DOMAIN W : /\ PartOK(W[i]) /\ W[i].step = "look" /\ W[i].word = {}
                                /\ W[i].next = W[i].start
         /\ \A i, k \in DOMAIN W :
              i # k => W[i].end <= W[k].start \/ W[k].end <= W[i].start
         /\ count = 1 => \A i, k \in DOMAIN W : i = k
<1>1. \A i \in DOMAIN W :
        /\ i \in first .. first + count - 1
        /\ Start(first, i, count) \in Nat /\ Start(first, i + 1, count) \in Nat
        /\ Start(first, i, count) < Start(first, i + 1, count)
        /\ W[i] = [start |-> Start(first, i, count), next |-> Start(first, i, count),
                   end |-> Start(first, i + 1, count), step |-> "look", word |-> {}]
  BY WorkersValue
<1>2. \A i \in DOMAIN W : W[i].end <= Size
  <2>1. ASSUME NEW i \in DOMAIN W
        PROVE  W[i].end <= Size
    <3>1. i + 1 \in Nat /\ first + count \in Nat /\ first <= i + 1 /\ i + 1 <= first + count
      BY <1>1
    <3>2. Start(first, i + 1, count) <= Start(first, first + count, count)
      BY <3>1, StartGrows
    <3>3. Start(first, first + count, count) <= Size /\ Start(first, first + count, count) \in Nat
      BY <3>1, StartFacts
    <3>4. W[i].end = Start(first, i + 1, count) /\ Start(first, i + 1, count) \in Nat
      BY <1>1
    <3>5. QED
      BY <3>2, <3>3, <3>4
  <2>2. QED
    BY <2>1
<1>3. \A i, k \in DOMAIN W : i < k => W[i].end <= W[k].start
  <2>1. ASSUME NEW i \in DOMAIN W, NEW k \in DOMAIN W, i < k
        PROVE  W[i].end <= W[k].start
    <3>1. i + 1 \in Nat /\ k \in Nat /\ first <= i + 1 /\ i + 1 <= k
      BY <1>1, <2>1
    <3>2. Start(first, i + 1, count) <= Start(first, k, count)
      BY <3>1, StartGrows
    <3>3. W[i].end = Start(first, i + 1, count) /\ W[k].start = Start(first, k, count)
      BY <1>1
    <3>4. QED
      BY <3>2, <3>3
  <2>2. QED
    BY <2>1
<1>4. DOMAIN W \subseteq Nat
  BY <1>1
<1>5. W \in [DOMAIN W -> WorkerRecord]
  <2>1. \A i \in DOMAIN W : W[i] \in WorkerRecord
    BY <1>1 DEF WorkerRecord
  <2>2. W = [i \in DOMAIN W |-> W[i]]
    BY DEF Workers
  <2>3. QED
    BY <2>1, <2>2
<1>6. \A i \in DOMAIN W : /\ PartOK(W[i]) /\ W[i].step = "look" /\ W[i].word = {}
                          /\ W[i].next = W[i].start
  BY <1>1, <1>2 DEF PartOK
<1>7. \A i, k \in DOMAIN W : i # k => i < k \/ k < i
  BY <1>4
<1>8. count = 1 => \A i, k \in DOMAIN W : i = k
  BY <1>1
<1>9. QED
  BY <1>3, <1>4, <1>5, <1>6, <1>7, <1>8

-------------------------------------------------------------------------------
(* The coroutine of the batch                                              *)

LEMMA NextBatchStep ==
  ASSUME BatchInv, NEW n \in 0 .. Len(ReadBatch), NextBatch(n)
  PROVE  BatchInv'
<1>1. /\ stage' = "begun" /\ batch' = SubSeq(ReadBatch, 1, n) /\ allocated' = FALSE
      /\ skip' = {} /\ worker' = <<>> /\ config' = config /\ preprocess' = preprocess
      /\ verdict' = [j \in 0 .. n - 1 |-> "none"]
      /\ outcome' = [j \in 0 .. n - 1 |-> NotDeserialized]
      /\ config.strategy = "batch"
  BY DEF NextBatch
<1>2. Len(batch') = n
  <2> DEFINE Read == [error : BOOLEAN, key : BOOLEAN, payload : BOOLEAN, headers : Seq(RawHeaders)]
  <2>1. ReadBatch \in Seq(Read) /\ Len(ReadBatch) \in Nat
    BY BatchAssumption, BatchLength
  <2> HIDE DEF Read
  <2>2. Len(SubSeq(ReadBatch, 1, n)) = n
    BY <2>1
  <2>3. QED
    BY <1>1, <2>2
<1>3. /\ Size' = n /\ Batch' = 0 .. n - 1 /\ DOMAIN worker' = {}
      /\ worker' \in [DOMAIN worker' -> WorkerRecord]
  BY <1>1, <1>2, EmptySequence DEF Size, Batch
<1>4. n \in Nat /\ n <= Len(ReadBatch)
  BY BatchLength
<1>5. ConfigOK'
  BY <1>1 DEF BatchInv, TypeInv, ConfigOK
<1>6. DataOK'
  <2>1. verdict' \in [0 .. n - 1 -> Answers] /\ DOMAIN outcome' = 0 .. n - 1
    BY <1>1 DEF Answers
  <2>2. /\ allocated' \in BOOLEAN /\ stage' \in Stages /\ skip' = {}
        /\ preprocess' \in BOOLEAN
    BY <1>1 DEF Stages, BatchInv, TypeInv, DataOK
  <2>3. QED
    BY <1>3, <1>4, <2>1, <2>2 DEF DataOK
<1>7. WorkersOK'
  BY <1>3 DEF WorkersOK
<1>8. StageInv'
  BY <1>1, <1>3 DEF StageInv
<1>9. VerdictInv'
  BY <1>1, <1>3 DEF VerdictInv
<1>10. KeptInv'
  BY <1>1, <1>3 DEF KeptInv
<1>11. SettledInv'
  BY <1>1 DEF SettledInv, EveryMessageSettled
<1>12. QED
  BY <1>5, <1>6, <1>7, <1>8, <1>9, <1>10, <1>11 DEF BatchInv, TypeInv

\* The coroutine queues are given the batch.
LEMMA DeserializingBegins ==
  ASSUME BatchInv, stage \in {"begun", "preprocessing"}, WorkersDone,
         stage' = "deserializing", worker' = CoroWorkers,
         allocated' \in BOOLEAN, skip # {} => allocated',
         UNCHANGED <<config, preprocess, batch, skip, verdict, outcome>>
  PROVE  BatchInv'
<1>1. /\ ConfigOK /\ DataOK /\ WorkersOK /\ StageInv /\ VerdictInv /\ KeptInv
      /\ config.low \in Nat /\ config.coros \in Nat \ {0} /\ Size \in Nat
  BY BatchAssumption DEF BatchInv, TypeInv, ConfigOK, DataOK
<1>2. Size' = Size /\ Batch' = Batch /\ OneJudge' = OneJudge
  BY DEF Size, Batch, OneJudge
<1>3. /\ DOMAIN worker' \subseteq Nat /\ worker' \in [DOMAIN worker' -> WorkerRecord]
      /\ \A i \in DOMAIN worker' : /\ PartOK(worker'[i]) /\ worker'[i].step = "look"
                                   /\ worker'[i].word = {} /\ worker'[i].next = worker'[i].start
      /\ \A i, k \in DOMAIN worker' :
           i # k => worker'[i].end <= worker'[k].start \/ worker'[k].end <= worker'[i].start
      /\ config.coros = 1 => \A i, k \in DOMAIN worker' : i = k
  BY <1>1, NewWorkers DEF CoroWorkers
<1>4. ConfigOK'
  BY <1>1 DEF ConfigOK
<1>5. DataOK'
  BY <1>1, <1>2 DEF DataOK, Stages
<1>6. WorkersOK'
  BY <1>2, <1>3 DEF WorkersOK, PartOK
<1>7. StageInv'
  BY <1>3 DEF StageInv
<1>8. \A j \in Batch : ~config.onIoThread => verdict[j] = "none"
  BY <1>1 DEF StageInv
<1>9. VerdictInv'
  <2>1. \A j \in skip' : verdict'[j] = "drop"
    BY <1>1 DEF VerdictInv
  <2>2. ASSUME NEW i \in DOMAIN worker', Judging', NEW j \in worker'[i].next .. worker'[i].end - 1
        PROVE  verdict'[j] = "none"
    <3>1. j \in Batch
      <4>1. worker'[i] \in WorkerRecord /\ PartOK(worker'[i])
        BY <1>3
      <4>2. QED
        BY <1>1, <2>2, <4>1 DEF WorkerRecord, PartOK, Batch
    <3>2. ~config.onIoThread
      BY <2>2 DEF Judging
    <3>3. QED
      BY <1>8, <3>1, <3>2
  <2>3. QED
    BY <1>3, <2>1, <2>2 DEF VerdictInv
<1>10. KeptInv'
  <2>1. SUFFICES ASSUME OneJudge PROVE KeptInv'
    BY <1>2 DEF KeptInv
  <2>2. Judging' => \A i, k \in DOMAIN worker' : i = k
    BY <1>3, <2>1 DEF Judging, OneJudge
  <2>3. ASSUME NEW j \in Batch, verdict[j] = "drop"
        PROVE  j \in skip
    <3>1. j \in skip \/ \E i \in DOMAIN worker : worker[i].step = "drop" /\ worker[i].next = j
      BY <1>1, <2>1, <2>3 DEF KeptInv
    <3>2. \A i \in DOMAIN worker : worker[i].step = "look"
      <4>1. ASSUME NEW i \in DOMAIN worker
            PROVE  worker[i].step = "look"
        <5>1. worker[i] \in WorkerRecord /\ PartOK(worker[i]) /\ worker[i].next = worker[i].end
          BY <1>1 DEF WorkersOK, WorkersDone
        <5>2. QED
          BY <5>1 DEF WorkerRecord, PartOK
      <4>2. QED
        BY <4>1
    <3>3. QED
      BY <3>1, <3>2
  <2>4. QED
    BY <1>2, <1>3, <2>2, <2>3 DEF KeptInv
<1>11. SettledInv'
  <2>1. \A i \in DOMAIN worker' : worker'[i].start .. worker'[i].next - 1 = {}
    <3>1. ASSUME NEW i \in DOMAIN worker'
          PROVE  worker'[i].start .. worker'[i].next - 1 = {}
      <4>1. worker'[i].next = worker'[i].start /\ worker'[i] \in WorkerRecord
        BY <1>3
      <4>2. worker'[i].start \in Nat
        BY <4>1 DEF WorkerRecord
      <4>3. QED
        BY <4>1, <4>2
    <3>2. QED
      BY <3>1
  <2>2. config.low = 0 => \A j \in Batch : \E i \in DOMAIN worker' :
          worker'[i].start <= j /\ j < worker'[i].end
    BY <1>1, WorkersCover DEF CoroWorkers
  <2>3. QED
    BY <1>2, <2>1, <2>2 DEF SettledInv, EveryMessageSettled
<1>12. QED
  BY <1>4, <1>5, <1>6, <1>7, <1>9, <1>10, <1>11 DEF BatchInv, TypeInv

LEMMA BeginStep ==
  ASSUME BatchInv, Begin
  PROVE  BatchInv'
<1>1. /\ ConfigOK /\ DataOK /\ StageInv /\ stage = "begun" /\ worker = <<>> /\ skip = {}
      /\ \A j \in Batch : verdict[j] = "none"
      /\ config.ioThreads \in Nat \ {0} /\ Size \in Nat
  BY BatchAssumption DEF BatchInv, TypeInv, ConfigOK, DataOK, StageInv, Begin
<1>2. /\ allocated' \in BOOLEAN
      /\ UNCHANGED <<config, preprocess, batch, skip, verdict, outcome>>
  BY DEF Begin
<1>3. CASE stage' = "deserializing" /\ worker' = CoroWorkers
  <2>1. WorkersDone
    BY <1>1, EmptySequence DEF WorkersDone
  <2>2. QED
    BY <1>1, <1>2, <1>3, <2>1, DeserializingBegins
<1>4. CASE config.onIoThread /\ stage' = "preprocessing" /\ worker' = IoWorkers
  <2>1. Size' = Size /\ Batch' = Batch /\ OneJudge' = OneJudge
    BY <1>2 DEF Size, Batch, OneJudge
  <2>2. /\ DOMAIN worker' \subseteq Nat /\ worker' \in [DOMAIN worker' -> WorkerRecord]
        /\ \A i \in DOMAIN worker' : /\ PartOK(worker'[i]) /\ worker'[i].step = "look"
                                     /\ worker'[i].word = {}
        /\ \A i, k \in DOMAIN worker' :
             i # k => worker'[i].end <= worker'[k].start \/ worker'[k].end <= worker'[i].start
        /\ config.ioThreads = 1 => \A i, k \in DOMAIN worker' : i = k
    BY <1>1, <1>4, NewWorkers DEF IoWorkers
  <2>3. ConfigOK'
    BY <1>1, <1>2 DEF ConfigOK
  <2>4. DataOK'
    BY <1>1, <1>2, <1>4, <2>1 DEF DataOK, Stages
  <2>5. WorkersOK'
    BY <2>1, <2>2 DEF WorkersOK, PartOK
  <2>6. StageInv'
    BY <1>2, <1>4, <2>2 DEF StageInv
  <2>7. VerdictInv'
    <3>1. ASSUME NEW i \in DOMAIN worker', NEW j \in worker'[i].next .. worker'[i].end - 1
          PROVE  verdict'[j] = "none"
      <4>1. worker'[i] \in WorkerRecord /\ PartOK(worker'[i])
        BY <2>2
      <4>2. j \in Batch
        BY <1>1, <3>1, <4>1 DEF WorkerRecord, PartOK, Batch
      <4>3. QED
        BY <1>1, <1>2, <4>2
    <3>2. QED
      BY <1>1, <1>2, <2>2, <3>1 DEF VerdictInv
  <2>8. KeptInv'
    BY <1>1, <1>2, <1>4, <2>1, <2>2 DEF KeptInv, OneJudge
  <2>9. SettledInv'
    BY <1>4 DEF SettledInv, EveryMessageSettled
  <2>10. QED
    BY <2>3, <2>4, <2>5, <2>6, <2>7, <2>8, <2>9 DEF BatchInv, TypeInv
<1>5. QED
  BY <1>3, <1>4 DEF Begin

LEMMA PreprocessingEndsStep ==
  ASSUME BatchInv, PreprocessingEnds
  PROVE  BatchInv'
<1>1. /\ stage = "preprocessing" /\ WorkersDone /\ stage' = "deserializing" /\ worker' = CoroWorkers
      /\ allocated' = allocated
      /\ UNCHANGED <<config, preprocess, batch, skip, verdict, outcome>>
  BY DEF PreprocessingEnds
<1>2. allocated' \in BOOLEAN /\ (skip # {} => allocated')
  BY <1>1 DEF BatchInv, TypeInv, DataOK
<1>3. QED
  BY <1>1, <1>2, DeserializingBegins

LEMMA DeserializingEndsStep ==
  ASSUME BatchInv, DeserializingEnds
  PROVE  BatchInv'
<1>1. /\ stage = "deserializing" /\ WorkersDone /\ stage' = "ended"
      /\ UNCHANGED <<config, preprocess, batch, allocated, skip, worker, verdict, outcome>>
      /\ ConfigOK /\ DataOK /\ WorkersOK /\ StageInv /\ VerdictInv /\ KeptInv /\ SettledInv
  BY DEF DeserializingEnds, BatchInv, TypeInv
<1>2. /\ Size' = Size /\ Batch' = Batch /\ OneJudge' = OneJudge
      /\ \A j \in Batch : IsSettled(j)' <=> IsSettled(j)
  BY <1>1 DEF Size, Batch, OneJudge, IsSettled, PassedOn
<1>3. \A i \in DOMAIN worker : worker[i].step = "look"
  <2>1. ASSUME NEW i \in DOMAIN worker
        PROVE  worker[i].step = "look"
    <3>1. worker[i] \in WorkerRecord /\ PartOK(worker[i]) /\ worker[i].next = worker[i].end
      BY <1>1 DEF WorkersOK, WorkersDone
    <3>2. QED
      BY <3>1 DEF WorkerRecord, PartOK
  <2>2. QED
    BY <2>1
<1>4. ConfigOK'
  BY <1>1 DEF ConfigOK
<1>5. DataOK'
  BY <1>1, <1>2 DEF DataOK, Stages
<1>6. WorkersOK'
  BY <1>1, <1>2 DEF WorkersOK, PartOK
<1>7. StageInv'
  BY <1>1, <1>3 DEF StageInv, WorkersDone
<1>8. VerdictInv'
  BY <1>1, <1>3 DEF VerdictInv, Judging
<1>9. KeptInv'
  BY <1>1, <1>2, <1>3 DEF KeptInv, Judging
<1>10. SettledInv'
  <2>1. ASSUME NEW j \in Batch, config.low = 0
        PROVE  IsSettled(j)
    <3>1. PICK i \in DOMAIN worker : worker[i].start <= j /\ j < worker[i].end
      BY <1>1, <2>1 DEF SettledInv
    <3>2. worker[i].next = worker[i].end /\ worker[i] \in WorkerRecord
      BY <1>1 DEF WorkersOK, WorkersDone
    <3>3. j \in worker[i].start .. worker[i].next - 1
      BY <1>1, <3>1, <3>2 DEF WorkerRecord, Batch, DataOK
    <3>4. QED
      BY <1>1, <3>3 DEF SettledInv
  <2>2. QED
    BY <1>1, <1>2, <2>1 DEF SettledInv, EveryMessageSettled
<1>11. QED
  BY <1>4, <1>5, <1>6, <1>7, <1>8, <1>9, <1>10 DEF BatchInv, TypeInv

\* preprocess(enable), or no step at all.
LEMMA OutsideStep ==
  ASSUME BatchInv, preprocess' \in BOOLEAN,
         UNCHANGED <<config, stage, batch, allocated, skip, worker, verdict, outcome>>
  PROVE  BatchInv'
<1>1. /\ Size' = Size /\ Batch' = Batch /\ OneJudge' = OneJudge /\ Judging' = Judging
      /\ WorkersDone' = WorkersDone
  BY DEF Size, Batch, OneJudge, Judging, WorkersDone
<1>2. \A j : IsSettled(j)' <=> IsSettled(j)
  BY DEF IsSettled, PassedOn, OneJudge
<1>3. ConfigOK'
  BY DEF BatchInv, TypeInv, ConfigOK
<1>4. DataOK' /\ WorkersOK' /\ StageInv'
  BY <1>1 DEF BatchInv, TypeInv, DataOK, WorkersOK, StageInv, PartOK
<1>5. VerdictInv' /\ KeptInv'
  BY <1>1 DEF BatchInv, VerdictInv, KeptInv
<1>6. SettledInv'
  BY <1>1, <1>2 DEF BatchInv, SettledInv, EveryMessageSettled
<1>7. QED
  BY <1>3, <1>4, <1>5, <1>6 DEF BatchInv, TypeInv

-------------------------------------------------------------------------------
(* The workers                                                             *)

\* Between its messages and within its part, a worker does not disturb the others.
LEMMA WorkerMoves ==
  ASSUME DataOK, WorkersOK, NEW i \in DOMAIN worker, NEW w \in WorkerRecord,
         worker' = [worker EXCEPT ![i] = w], UNCHANGED batch,
         w.start = worker[i].start, w.end = worker[i].end, PartOK(w)
  PROVE  /\ WorkersOK'
         /\ DOMAIN worker' = DOMAIN worker /\ worker'[i] = w
         /\ \A k \in DOMAIN worker \ {i} : worker'[k] = worker[k]
<1>1. /\ DOMAIN worker' = DOMAIN worker /\ worker'[i] = w
      /\ \A k \in DOMAIN worker \ {i} : worker'[k] = worker[k]
      /\ worker' \in [DOMAIN worker -> WorkerRecord]
  BY DEF WorkersOK
<1>2. Size' = Size /\ Batch' = Batch
  BY DEF Size, Batch
<1>3. \A k \in DOMAIN worker' : PartOK(worker'[k])
  BY <1>1 DEF WorkersOK
<1>4. \A k \in DOMAIN worker' : worker'[k].start = worker[k].start /\ worker'[k].end = worker[k].end
  BY <1>1
<1>5. WorkersOK'
  BY <1>1, <1>2, <1>3, <1>4 DEF WorkersOK, PartOK
<1>6. QED
  BY <1>1, <1>5

\* A worker at a message: the message is one of the batch, in no other part, and only
\* the batch strategy has workers.
LEMMA AtFacts ==
  ASSUME BatchInv, NEW i \in DOMAIN worker, worker[i].next < worker[i].end
  PROVE  /\ worker[i] \in WorkerRecord /\ PartOK(worker[i]) /\ worker[i].next \in Batch
         /\ \A k \in DOMAIN worker \ {i} : \A j \in worker[k].start .. worker[k].end - 1 :
              j # worker[i].next
         /\ config.strategy # "roundrobin" /\ stage \notin {"begun", "ended"}
<1>1. worker[i] \in WorkerRecord /\ PartOK(worker[i]) /\ Size \in Nat
  BY DEF BatchInv, TypeInv, WorkersOK, DataOK
<1>2. worker[i].next \in Batch
  BY <1>1 DEF WorkerRecord, PartOK, Batch
<1>3. ASSUME NEW k \in DOMAIN worker \ {i}, NEW j \in worker[k].start .. worker[k].end - 1
      PROVE  j # worker[i].next
  <2>1. worker[i].end <= worker[k].start \/ worker[k].end <= worker[i].start
    BY DEF BatchInv, TypeInv, WorkersOK
  <2>2. worker[k] \in WorkerRecord
    BY DEF BatchInv, TypeInv, WorkersOK
  <2>3. QED
    BY <1>1, <1>3, <2>1, <2>2 DEF WorkerRecord, PartOK
<1>4. worker # <<>>
  BY EmptySequence
<1>5. config.strategy # "roundrobin" /\ stage # "begun"
  BY <1>4 DEF BatchInv, TypeInv, ConfigOK, StageInv
<1>6. stage # "ended"
  BY <1>1 DEF WorkerRecord, BatchInv, TypeInv, StageInv, WorkersDone
<1>7. QED
  BY <1>1, <1>2, <1>3, <1>5, <1>6

LEMMA JudgeStep ==
  ASSUME BatchInv, NEW i \in DOMAIN worker, NEW answer \in {"drop", "keep"}, Judge(i, answer)
  PROVE  BatchInv'
<1>1. /\ worker[i].step = "look" /\ worker[i].next < worker[i].end /\ allocated /\ Preprocesses
      /\ UNCHANGED <<config, preprocess, stage, batch, allocated, skip, outcome>>
      /\ verdict' = [verdict EXCEPT ![worker[i].next] = answer]
      /\ worker' = [worker EXCEPT ![i].step = answer, ![i].word = skip]
  BY DEF Judge, At, Message
<1>2. /\ ConfigOK /\ DataOK /\ WorkersOK /\ StageInv /\ VerdictInv /\ KeptInv /\ SettledInv
  BY DEF BatchInv, TypeInv
<1>3. /\ worker[i] \in WorkerRecord /\ PartOK(worker[i]) /\ worker[i].next \in Batch
      /\ \A k \in DOMAIN worker \ {i} : \A j \in worker[k].start .. worker[k].end - 1 :
           j # worker[i].next
      /\ config.strategy # "roundrobin" /\ stage \notin {"begun", "ended"}
  BY <1>1, AtFacts
<1>4. PICK n \in Batch : n = worker[i].next
  BY <1>3
<1>5. PICK w \in WorkerRecord : w = [worker[i] EXCEPT !.step = answer, !.word = skip]
  <2>1. skip \subseteq Nat
    BY <1>2 DEF DataOK, Batch
  <2>2. QED
    BY <1>3, <2>1 DEF WorkerRecord
<1>6. /\ w.start = worker[i].start /\ w.next = n /\ w.end = worker[i].end
      /\ w.step = answer /\ w.word = skip
  BY <1>3, <1>4, <1>5 DEF WorkerRecord
<1>7. PartOK(w)
  BY <1>1, <1>2, <1>3, <1>4, <1>6 DEF PartOK, DataOK
<1>8. worker' = [worker EXCEPT ![i] = w]
  BY <1>1, <1>2, <1>5 DEF WorkersOK
<1>9. /\ WorkersOK' /\ DOMAIN worker' = DOMAIN worker /\ worker'[i] = w
      /\ \A k \in DOMAIN worker \ {i} : worker'[k] = worker[k]
  BY <1>1, <1>2, <1>6, <1>7, <1>8, WorkerMoves
<1>10. /\ Size' = Size /\ Batch' = Batch /\ OneJudge' = OneJudge /\ Judging' = Judging
       /\ WorkersDone' \in BOOLEAN
  BY <1>1 DEF Size, Batch, OneJudge, Judging, WorkersDone
<1>11. Judging
  <2>1. stage # "crashed"
    BY <1>1, <1>2 DEF StageInv
  <2>2. stage = "preprocessing" \/ stage = "deserializing"
    BY <1>2, <1>3, <2>1 DEF DataOK, Stages
  <2>3. QED
    BY <1>1, <2>2 DEF Judging, Preprocesses
<1>12. verdict[n] = "none"
  <2>1. n \in worker[i].next .. worker[i].end - 1
    BY <1>1, <1>3, <1>4 DEF WorkerRecord
  <2>2. QED
    BY <1>1, <1>2, <1>11, <2>1 DEF VerdictInv
<1>13. /\ verdict' \in [Batch -> Answers] /\ verdict'[n] = answer
       /\ \A j \in Batch \ {n} : verdict'[j] = verdict[j]
  BY <1>1, <1>2, <1>4 DEF DataOK, Answers
<1>14. ConfigOK'
  BY <1>1, <1>2, <1>3 DEF ConfigOK
<1>15. DataOK'
  BY <1>1, <1>2, <1>10, <1>13 DEF DataOK
<1>16. StageInv'
  BY <1>1, <1>2, <1>3, <1>9, <1>10, <1>11 DEF StageInv
<1>17. VerdictInv'
  <2>1. \A j \in Batch : verdict[j] = "drop" => verdict'[j] = "drop"
    BY <1>12, <1>13
  <2>2. \A j \in skip' : verdict'[j] = "drop"
    BY <1>1, <1>2, <2>1 DEF VerdictInv, DataOK
  <2>3. ASSUME NEW k \in DOMAIN worker'
        PROVE  \A j \in worker'[k].word : verdict'[j] = "drop"
    BY <1>2, <1>6, <1>9, <2>1 DEF VerdictInv, DataOK, WorkersOK, PartOK
  <2>4. ASSUME NEW k \in DOMAIN worker', worker'[k].step \in {"drop", "keep"}
        PROVE  verdict'[worker'[k].next] = worker'[k].step
    <3>1. CASE k = i
      BY <1>6, <1>9, <1>13, <3>1
    <3>2. CASE k # i
      <4>1. worker'[k] = worker[k] /\ verdict[worker[k].next] = worker[k].step
        BY <1>2, <1>9, <2>4, <3>2 DEF VerdictInv
      <4>2. worker[k].next \in Batch
        <5>1. worker[k] \in WorkerRecord /\ PartOK(worker[k]) /\ worker[k].step # "look"
          BY <1>2, <1>9, <2>4, <4>1 DEF WorkersOK
        <5>2. QED
          BY <1>2, <5>1 DEF WorkerRecord, PartOK, Batch, DataOK
      <4>3. worker[k].next # n
        BY <1>12, <2>4, <4>1
      <4>4. QED
        BY <1>13, <4>1, <4>2, <4>3
    <3>3. QED
      BY <3>1, <3>2
  <2>5. ASSUME NEW k \in DOMAIN worker', NEW j \in worker'[k].next .. worker'[k].end - 1,
               j > worker'[k].next \/ worker'[k].step = "look"
        PROVE  verdict'[j] = "none"
    <3>1. worker'[k] \in WorkerRecord /\ PartOK(worker[k])'
      BY <1>9 DEF WorkersOK
    <3>2. j \in Batch
      BY <1>2, <1>10, <2>5, <3>1 DEF WorkerRecord, PartOK, Batch, DataOK
    <3>3. CASE k = i
      <4>1. j > n /\ j \in worker[i].next .. worker[i].end - 1 /\ j # n
        BY <1>4, <1>6, <1>9, <2>5, <3>2, <3>3 DEF Batch
      <4>2. verdict[j] = "none"
        BY <1>2, <1>4, <1>11, <4>1 DEF VerdictInv
      <4>3. QED
        BY <1>13, <3>2, <4>1, <4>2
    <3>4. CASE k # i
      <4>1. worker'[k] = worker[k]
        BY <1>9, <3>4
      <4>2. verdict[j] = "none"
        <5>1. /\ k \in DOMAIN worker /\ j \in worker[k].next .. worker[k].end - 1
              /\ j > worker[k].next \/ worker[k].step = "look"
          BY <1>9, <2>5, <4>1
        <5>2. QED
          BY <1>2, <1>11, <5>1 DEF VerdictInv
      <4>3. j \in worker[k].start .. worker[k].end - 1
        BY <2>5, <3>1, <4>1 DEF WorkerRecord, PartOK
      <4>4. j # n
        BY <1>3, <1>4, <1>9, <3>4, <4>3
      <4>5. QED
        BY <1>13, <3>2, <4>2, <4>4
    <3>5. QED
      BY <3>3, <3>4
  <2>6. QED
    BY <2>2, <2>3, <2>4, <2>5 DEF VerdictInv
<1>18. KeptInv'
  <2>1. SUFFICES ASSUME OneJudge PROVE KeptInv'
    BY <1>10 DEF KeptInv
  <2>2. \A k \in DOMAIN worker : k = i
    BY <1>2, <1>11, <2>1 DEF KeptInv
  <2>3. ASSUME NEW j \in Batch, verdict'[j] = "drop"
        PROVE  j \in skip \/ (w.step = "drop" /\ w.next = j)
    <3>1. CASE j = n
      BY <1>6, <1>13, <2>3, <3>1
    <3>2. CASE j # n
      <4>1. verdict[j] = "drop"
        BY <1>13, <2>3, <3>2
      <4>2. stage \in {"preprocessing", "deserializing"}
        BY <1>11 DEF Judging
      <4>3. QED
        BY <1>1, <1>2, <2>1, <2>2, <4>1, <4>2 DEF KeptInv
    <3>3. QED
      BY <3>1, <3>2
  <2>4. \A k, m \in DOMAIN worker' : k = m
    BY <1>9, <2>2
  <2>5. \A k \in DOMAIN worker' : worker'[k].word = skip'
    BY <1>1, <1>6, <1>9, <2>2
  <2>6. \A j \in Batch' : verdict'[j] = "drop" =>
          \/ j \in skip'
          \/ \E k \in DOMAIN worker' : worker'[k].step = "drop" /\ worker'[k].next = j
    BY <1>1, <1>9, <1>10, <2>3
  <2>7. QED
    BY <2>4, <2>5, <2>6 DEF KeptInv
<1>19. SettledInv'
  <2>1. EveryMessageSettled'
    BY <1>1, <1>3 DEF EveryMessageSettled
  <2>2. ASSUME NEW j \in Batch, j # n, IsSettled(j)
        PROVE  IsSettled(j)'
    BY <1>1, <1>10, <1>13, <2>2 DEF IsSettled, PassedOn
  <2>3. ASSUME stage = "deserializing", NEW k \in DOMAIN worker',
               NEW j \in worker'[k].start .. worker'[k].next - 1
        PROVE  IsSettled(j)'
    <3>1. worker[k] \in WorkerRecord /\ PartOK(worker[k])
      BY <1>2, <1>9 DEF WorkersOK
    <3>2. worker'[k].start = worker[k].start /\ worker'[k].next = worker[k].next
      BY <1>4, <1>6, <1>9
    <3>3. j \in worker[k].start .. worker[k].end - 1 /\ j \in worker[k].start .. worker[k].next - 1
      BY <2>3, <3>1, <3>2 DEF WorkerRecord, PartOK
    <3>4. j \in Batch
      BY <1>2, <3>1, <3>3 DEF WorkerRecord, PartOK, Batch, DataOK
    <3>5. j # n
      <4>1. CASE k = i
        BY <1>3, <1>4, <3>1, <3>3, <4>1 DEF WorkerRecord
      <4>2. CASE k # i
        BY <1>3, <1>4, <1>9, <3>3, <4>2
      <4>3. QED
        BY <4>1, <4>2
    <3>6. QED
      BY <1>2, <1>9, <2>2, <2>3, <3>3, <3>4, <3>5 DEF SettledInv
  <2>4. \A k \in DOMAIN worker : worker'[k].start = worker[k].start /\ worker'[k].end = worker[k].end
    BY <1>6, <1>9
  <2>5. QED
    BY <1>1, <1>2, <1>9, <1>10, <2>1, <2>3, <2>4 DEF SettledInv
<1>20. QED
  BY <1>9, <1>14, <1>15, <1>16, <1>17, <1>18, <1>19 DEF BatchInv, TypeInv

LEMMA JudgeOutsideStep ==
  ASSUME BatchInv, NEW i \in DOMAIN worker, JudgeOutside(i)
  PROVE  BatchInv'
<1>1. /\ worker[i].next < worker[i].end /\ ~allocated /\ stage' = "crashed"
      /\ UNCHANGED <<config, preprocess, batch, allocated, skip, worker, verdict, outcome>>
  BY DEF JudgeOutside, At
<1>2. /\ ConfigOK /\ DataOK /\ WorkersOK /\ StageInv /\ VerdictInv /\ KeptInv
  BY DEF BatchInv, TypeInv
<1>3. config.strategy # "roundrobin"
  BY <1>1, AtFacts
<1>4. Size' = Size /\ Batch' = Batch /\ OneJudge' = OneJudge /\ ~Judging'
  BY <1>1 DEF Size, Batch, OneJudge, Judging
<1>5. \A k \in DOMAIN worker : worker[k].step \notin {"drop", "keep"}
  BY <1>1, <1>2 DEF StageInv
<1>6. ConfigOK'
  BY <1>1, <1>2, <1>3 DEF ConfigOK
<1>7. DataOK'
  BY <1>1, <1>2, <1>4 DEF DataOK, Stages
<1>8. WorkersOK'
  BY <1>1, <1>2, <1>4 DEF WorkersOK, PartOK
<1>9. StageInv'
  BY <1>1, <1>5 DEF StageInv
<1>10. VerdictInv'
  BY <1>1, <1>2, <1>4 DEF VerdictInv
<1>11. KeptInv'
  BY <1>1, <1>4, <1>5 DEF KeptInv
<1>12. SettledInv'
  BY <1>1 DEF SettledInv, EveryMessageSettled
<1>13. QED
  BY <1>6, <1>7, <1>8, <1>9, <1>10, <1>11, <1>12 DEF BatchInv, TypeInv

\* A worker goes on, to another step or another message, without a verdict of its own
\* that is not in the vector.
LEMMA WorkerGoesOn ==
  ASSUME BatchInv, NEW i \in DOMAIN worker, worker[i].next < worker[i].end,
         NEW w \in WorkerRecord, worker' = [worker EXCEPT ![i] = w],
         UNCHANGED <<config, preprocess, stage, batch, allocated, verdict, outcome>>,
         PartOK(w), w.start = worker[i].start, w.end = worker[i].end,
         stage = "deserializing" => w.next = worker[i].next,
         w.step \in {"look", "settle"}, w.word \subseteq worker[i].word,
         Judging => \A j \in w.next .. w.end - 1 :
           j > w.next \/ w.step = "look" => verdict[j] = "none",
         skip' \subseteq Batch, skip' # {} => allocated, \A j \in skip' : verdict[j] = "drop",
         OneJudge => \A j \in Batch : verdict[j] = "drop" =>
           \/ j \in skip'
           \/ \E k \in DOMAIN worker \ {i} : worker[k].step = "drop" /\ worker[k].next = j
           \/ stage = "crashed"
  PROVE  BatchInv'
<1>1. /\ ConfigOK /\ DataOK /\ WorkersOK /\ StageInv /\ VerdictInv /\ KeptInv /\ SettledInv
  BY DEF BatchInv, TypeInv
<1>2. /\ config.strategy # "roundrobin" /\ stage \notin {"begun", "ended"}
      /\ worker[i] \in WorkerRecord /\ PartOK(worker[i])
  BY AtFacts
<1>3. /\ WorkersOK' /\ DOMAIN worker' = DOMAIN worker /\ worker'[i] = w
      /\ \A k \in DOMAIN worker \ {i} : worker'[k] = worker[k]
  BY <1>1, WorkerMoves
<1>4. /\ Size' = Size /\ Batch' = Batch /\ OneJudge' = OneJudge /\ Judging' = Judging
      /\ \A j : IsSettled(j)' <=> IsSettled(j)
  BY DEF Size, Batch, OneJudge, Judging, IsSettled, PassedOn
<1>5. ConfigOK'
  BY <1>1, <1>2 DEF ConfigOK
<1>6. DataOK'
  BY <1>1, <1>4 DEF DataOK
<1>7. StageInv'
  <2>1. \A k \in DOMAIN worker' : worker'[k].step \in {"drop", "keep"} => allocated' /\ Judging'
    BY <1>1, <1>3, <1>4 DEF StageInv
  <2>2. QED
    BY <1>1, <1>2, <2>1 DEF StageInv
<1>8. VerdictInv'
  <2>1. ASSUME NEW k \in DOMAIN worker'
        PROVE  \A j \in worker'[k].word : verdict[j] = "drop"
    BY <1>1, <1>3 DEF VerdictInv
  <2>2. ASSUME NEW k \in DOMAIN worker', worker'[k].step \in {"drop", "keep"}
        PROVE  verdict[worker'[k].next] = worker'[k].step
    BY <1>1, <1>3, <2>2 DEF VerdictInv
  <2>3. ASSUME NEW k \in DOMAIN worker', Judging, NEW j \in worker'[k].next .. worker'[k].end - 1,
               j > worker'[k].next \/ worker'[k].step = "look"
        PROVE  verdict[j] = "none"
    BY <1>1, <1>3, <2>3 DEF VerdictInv
  <2>4. QED
    BY <1>4, <2>1, <2>2, <2>3 DEF VerdictInv
<1>9. KeptInv'
  <2>1. SUFFICES ASSUME OneJudge PROVE KeptInv'
    BY <1>4 DEF KeptInv
  <2>2. Judging => \A k, m \in DOMAIN worker : k = m
    BY <1>1, <2>1 DEF KeptInv
  <2>3. \A k \in DOMAIN worker' : worker'[k].step \notin {"drop", "keep"}
    BY <1>1, <1>3, <2>2 DEF StageInv
  <2>4. ASSUME stage # "crashed", NEW j \in Batch, verdict[j] = "drop"
        PROVE  j \in skip'
    BY <1>3, <2>1, <2>3, <2>4
  <2>5. QED
    BY <1>3, <1>4, <2>2, <2>3, <2>4 DEF KeptInv
<1>10. SettledInv'
  <2>1. ASSUME stage = "deserializing", NEW k \in DOMAIN worker'
        PROVE  /\ worker'[k].start = worker[k].start /\ worker'[k].end = worker[k].end
               /\ worker'[k].next = worker[k].next
    BY <1>3, <2>1
  <2>2. EveryMessageSettled'
    BY <1>2 DEF EveryMessageSettled
  <2>3. QED
    BY <1>1, <1>3, <1>4, <2>1, <2>2 DEF SettledInv
<1>11. QED
  BY <1>3, <1>5, <1>6, <1>7, <1>8, <1>9, <1>10 DEF BatchInv, TypeInv

LEMMA StoreStep ==
  ASSUME BatchInv, NEW i \in DOMAIN worker, Store(i)
  PROVE  BatchInv'
<1>1. /\ worker[i].step \in {"drop", "keep"} /\ worker[i].next < worker[i].end
      /\ UNCHANGED <<config, preprocess, stage, batch, allocated, verdict, outcome>>
  BY DEF Store, At
<1>2. /\ ConfigOK /\ DataOK /\ WorkersOK /\ StageInv /\ VerdictInv /\ KeptInv
      /\ worker[i] \in WorkerRecord /\ PartOK(worker[i]) /\ worker[i].next \in Batch
  BY <1>1, AtFacts DEF BatchInv, TypeInv
<1>3. PICK n \in Batch : n = worker[i].next
  BY <1>2
<1>4. allocated /\ Judging /\ verdict[n] = worker[i].step
  BY <1>1, <1>2, <1>3 DEF StageInv, VerdictInv
<1>5. PICK w \in WorkerRecord :
        /\ worker' = [worker EXCEPT ![i] = w]
        /\ w.start = worker[i].start /\ w.end = worker[i].end /\ w.word = {}
        /\ stage = "preprocessing" => w.step = "look" /\ w.next = n + 1
        /\ stage # "preprocessing" => w.step = "settle" /\ w.next = n
  <2>1. CASE stage = "preprocessing"
    <3> DEFINE w == [worker[i] EXCEPT !.step = "look", !.next = n + 1, !.word = {}]
    <3>1. worker' = [worker EXCEPT ![i] = w]
      BY <1>2, <1>3, <2>1 DEF Store, WorkersOK
    <3>2. w \in WorkerRecord
      <4>1. n + 1 \in Nat
        BY DEF Batch
      <4>2. QED
        BY <1>2, <4>1 DEF WorkerRecord
    <3>3. w.start = worker[i].start /\ w.end = worker[i].end /\ w.word = {}
          /\ w.step = "look" /\ w.next = n + 1
      BY <1>2 DEF WorkerRecord
    <3> HIDE DEF w
    <3>4. QED
      BY <2>1, <3>1, <3>2, <3>3
  <2>2. CASE stage # "preprocessing"
    <3>1. worker' = [worker EXCEPT ![i] = [worker[i] EXCEPT !.step = "settle", !.word = {}]]
      BY <1>2, <2>2 DEF Store, WorkersOK
    <3>2. [worker[i] EXCEPT !.step = "settle", !.word = {}] \in WorkerRecord
      BY <1>2 DEF WorkerRecord
    <3>3. QED
      BY <1>2, <1>3, <2>2, <3>1, <3>2 DEF WorkerRecord
  <2>3. QED
    BY <2>1, <2>2
<1>6. n \in Nat /\ w.next \in {n, n + 1}
  BY <1>5 DEF Batch
<1>7. PartOK(w)
  BY <1>1, <1>2, <1>3, <1>5, <1>6 DEF PartOK, WorkerRecord
<1>8. \A j \in w.next .. w.end - 1 : j > w.next \/ w.step = "look" => verdict[j] = "none"
  <2>1. ASSUME NEW j \in w.next .. w.end - 1, j > w.next \/ w.step = "look"
        PROVE  verdict[j] = "none"
    <3>1. j > n /\ j \in worker[i].next .. worker[i].end - 1
      BY <1>2, <1>3, <1>5, <1>6, <2>1 DEF WorkerRecord
    <3>2. QED
      BY <1>2, <1>3, <1>4, <3>1 DEF VerdictInv
  <2>2. QED
    BY <2>1
<1>9. skip' = IF worker[i].step = "drop" THEN worker[i].word \union {n} ELSE worker[i].word \ {n}
  BY <1>3 DEF Store
<1>10. skip' \subseteq Batch /\ \A j \in skip' : verdict[j] = "drop"
  BY <1>2, <1>3, <1>4, <1>9 DEF PartOK, VerdictInv
<1>11. ASSUME OneJudge, NEW j \in Batch, verdict[j] = "drop"
       PROVE  j \in skip'
  <2>1. worker[i].word = skip /\ \A k \in DOMAIN worker : k = i
    BY <1>1, <1>2, <1>4, <1>11 DEF KeptInv
  <2>2. stage \in {"preprocessing", "deserializing"}
    BY <1>4 DEF Judging
  <2>3. j \in skip \/ (worker[i].step = "drop" /\ j = n)
    BY <1>2, <1>3, <1>11, <2>1, <2>2 DEF KeptInv
  <2>4. QED
    BY <1>4, <1>9, <1>11, <2>1, <2>3
<1>12. QED
  BY <1>1, <1>3, <1>4, <1>5, <1>7, <1>8, <1>10, <1>11, WorkerGoesOn

LEMMA LeaveRestStep ==
  ASSUME BatchInv, NEW i \in DOMAIN worker, LeaveRest(i)
  PROVE  BatchInv'
<1>1. /\ stage = "preprocessing" /\ worker[i].step = "look" /\ worker[i].next < worker[i].end
      /\ worker' = [worker EXCEPT ![i].next = worker[i].end]
      /\ UNCHANGED <<config, preprocess, stage, batch, allocated, skip, verdict, outcome>>
  BY DEF LeaveRest, At
<1>2. /\ DataOK /\ WorkersOK /\ VerdictInv /\ KeptInv
      /\ worker[i] \in WorkerRecord /\ PartOK(worker[i])
  BY <1>1, AtFacts DEF BatchInv, TypeInv
<1>3. PICK w \in WorkerRecord : w = [worker[i] EXCEPT !.next = worker[i].end]
  BY <1>2 DEF WorkerRecord
<1>4. /\ w.start = worker[i].start /\ w.next = worker[i].end /\ w.end = worker[i].end
      /\ w.step = "look" /\ w.word = worker[i].word
  BY <1>1, <1>2, <1>3 DEF WorkerRecord
<1>5. PartOK(w)
  BY <1>1, <1>2, <1>4 DEF PartOK, WorkerRecord
<1>6. worker' = [worker EXCEPT ![i] = w]
  BY <1>1, <1>2, <1>3 DEF WorkersOK
<1>7. w.next .. w.end - 1 = {}
  BY <1>2, <1>4 DEF WorkerRecord
<1>8. /\ skip' \subseteq Batch /\ (skip' # {} => allocated) /\ \A j \in skip' : verdict[j] = "drop"
  BY <1>1, <1>2 DEF DataOK, VerdictInv
<1>9. ASSUME OneJudge, NEW j \in Batch, verdict[j] = "drop"
      PROVE  \/ j \in skip'
             \/ \E k \in DOMAIN worker \ {i} : worker[k].step = "drop" /\ worker[k].next = j
  BY <1>1, <1>2, <1>9 DEF KeptInv
<1>10. /\ w.step \in {"look", "settle"} /\ w.word \subseteq worker[i].word
       /\ \A j \in w.next .. w.end - 1 : j > w.next \/ w.step = "look" => verdict[j] = "none"
  BY <1>4, <1>7
<1>11. OneJudge => \A j \in Batch : verdict[j] = "drop" =>
         \/ j \in skip'
         \/ \E k \in DOMAIN worker \ {i} : worker[k].step = "drop" /\ worker[k].next = j
         \/ stage = "crashed"
  BY <1>9
<1>12. stage # "deserializing"
  BY <1>1
<1>13. QED
  BY <1>1, <1>4, <1>5, <1>6, <1>8, <1>10, <1>11, <1>12, WorkerGoesOn

LEMMA PassOverStep ==
  ASSUME BatchInv, NEW i \in DOMAIN worker, PassOver(i)
  PROVE  BatchInv'
<1>1. /\ stage = "deserializing" /\ worker[i].step = "look" /\ worker[i].next < worker[i].end
      /\ worker' = [worker EXCEPT ![i].step = "settle"]
      /\ UNCHANGED <<config, preprocess, stage, batch, allocated, skip, verdict, outcome>>
  BY DEF PassOver, At
<1>2. /\ DataOK /\ WorkersOK /\ VerdictInv /\ KeptInv
      /\ worker[i] \in WorkerRecord /\ PartOK(worker[i])
  BY <1>1, AtFacts DEF BatchInv, TypeInv
<1>3. PICK w \in WorkerRecord : w = [worker[i] EXCEPT !.step = "settle"]
  BY <1>2 DEF WorkerRecord
<1>4. /\ w.start = worker[i].start /\ w.next = worker[i].next /\ w.end = worker[i].end
      /\ w.step = "settle" /\ w.word = worker[i].word
  BY <1>2, <1>3 DEF WorkerRecord
<1>5. PartOK(w)
  BY <1>1, <1>2, <1>4 DEF PartOK
<1>6. worker' = [worker EXCEPT ![i] = w]
  BY <1>1, <1>2, <1>3 DEF WorkersOK
<1>7. Judging => \A j \in w.next .. w.end - 1 :
        j > w.next \/ w.step = "look" => verdict[j] = "none"
  BY <1>1, <1>2, <1>4 DEF VerdictInv
<1>8. /\ skip' \subseteq Batch /\ (skip' # {} => allocated) /\ \A j \in skip' : verdict[j] = "drop"
  BY <1>1, <1>2 DEF DataOK, VerdictInv
<1>9. ASSUME OneJudge, NEW j \in Batch, verdict[j] = "drop"
      PROVE  \/ j \in skip'
             \/ \E k \in DOMAIN worker \ {i} : worker[k].step = "drop" /\ worker[k].next = j
  BY <1>1, <1>2, <1>9 DEF KeptInv
<1>10. /\ w.step \in {"look", "settle"} /\ w.word \subseteq worker[i].word
       /\ stage = "deserializing" => w.next = worker[i].next
  BY <1>4
<1>11. OneJudge => \A j \in Batch : verdict[j] = "drop" =>
         \/ j \in skip'
         \/ \E k \in DOMAIN worker \ {i} : worker[k].step = "drop" /\ worker[k].next = j
         \/ stage = "crashed"
  BY <1>9
<1>12. QED
  BY <1>1, <1>4, <1>5, <1>6, <1>7, <1>8, <1>10, <1>11, WorkerGoesOn

LEMMA SettleStep ==
  ASSUME BatchInv, NEW i \in DOMAIN worker, Settle(i)
  PROVE  BatchInv'
<1>1. /\ worker[i].step = "settle" /\ worker[i].next < worker[i].end
      /\ UNCHANGED <<config, preprocess, stage, batch, allocated, skip, verdict>>
      /\ worker' = [worker EXCEPT ![i].step = "look", ![i].next = @ + 1]
  BY DEF Settle, At
<1>2. /\ ConfigOK /\ DataOK /\ WorkersOK /\ StageInv /\ VerdictInv /\ KeptInv /\ SettledInv
  BY DEF BatchInv, TypeInv
<1>3. /\ worker[i] \in WorkerRecord /\ PartOK(worker[i]) /\ worker[i].next \in Batch
      /\ \A k \in DOMAIN worker \ {i} : \A j \in worker[k].start .. worker[k].end - 1 :
           j # worker[i].next
      /\ config.strategy # "roundrobin" /\ stage \notin {"begun", "ended"}
  BY <1>1, AtFacts
<1>4. PICK n \in Batch : n = worker[i].next
  BY <1>3
<1>5. PICK w \in WorkerRecord : w = [worker[i] EXCEPT !.step = "look", !.next = n + 1]
  <2>1. n + 1 \in Nat
    BY DEF Batch
  <2>2. QED
    BY <1>3, <2>1 DEF WorkerRecord
<1>6. /\ w.start = worker[i].start /\ w.next = n + 1 /\ w.end = worker[i].end
      /\ w.step = "look" /\ w.word = worker[i].word
  BY <1>3, <1>4, <1>5 DEF WorkerRecord
<1>7. PartOK(w)
  BY <1>1, <1>3, <1>4, <1>6 DEF PartOK, WorkerRecord
<1>8. worker' = [worker EXCEPT ![i] = w]
  BY <1>1, <1>2, <1>4, <1>5 DEF WorkersOK
<1>9. /\ WorkersOK' /\ DOMAIN worker' = DOMAIN worker /\ worker'[i] = w
      /\ \A k \in DOMAIN worker \ {i} : worker'[k] = worker[k]
  BY <1>1, <1>2, <1>6, <1>7, <1>8, WorkerMoves
<1>10. Size' = Size /\ Batch' = Batch /\ OneJudge' = OneJudge /\ Judging' = Judging
  BY <1>1 DEF Size, Batch, OneJudge, Judging
<1>11. /\ DOMAIN outcome' = Batch
       /\ \A j \in Batch \ {n} : outcome'[j] = outcome[j]
       /\ outcome'[n] = IF n \in skip THEN Dropped
                        ELSE DeserializeMessage(batch[n + 1], config.skipUnknown)
  BY <1>2, <1>4 DEF Settle, Skipped, Message, DataOK
<1>12. ConfigOK'
  BY <1>1, <1>2, <1>3 DEF ConfigOK
<1>13. DataOK'
  BY <1>1, <1>2, <1>10, <1>11 DEF DataOK
<1>14. StageInv'
  <2>1. \A k \in DOMAIN worker' : worker'[k].step \in {"drop", "keep"} => allocated' /\ Judging'
    BY <1>1, <1>2, <1>6, <1>9, <1>10 DEF StageInv
  <2>2. QED
    BY <1>1, <1>2, <1>3, <2>1 DEF StageInv
<1>15. VerdictInv'
  <2>1. ASSUME NEW k \in DOMAIN worker'
        PROVE  /\ \A j \in worker'[k].word : verdict[j] = "drop"
               /\ worker'[k].step \in {"drop", "keep"} => verdict[worker'[k].next] = worker'[k].step
    BY <1>2, <1>6, <1>9 DEF VerdictInv
  <2>2. ASSUME NEW k \in DOMAIN worker', Judging, NEW j \in worker'[k].next .. worker'[k].end - 1,
               j > worker'[k].next \/ worker'[k].step = "look"
        PROVE  verdict[j] = "none"
    <3>1. CASE k = i
      <4>1. j > worker[i].next /\ j \in worker[i].next .. worker[i].end - 1
        BY <1>3, <1>4, <1>6, <1>9, <2>2, <3>1 DEF WorkerRecord
      <4>2. QED
        BY <1>2, <2>2, <4>1 DEF VerdictInv
    <3>2. CASE k # i
      BY <1>2, <1>9, <2>2, <3>2 DEF VerdictInv
    <3>3. QED
      BY <3>1, <3>2
  <2>3. QED
    BY <1>1, <1>2, <1>10, <2>1, <2>2 DEF VerdictInv
<1>16. KeptInv'
  <2>1. SUFFICES ASSUME OneJudge PROVE KeptInv'
    BY <1>10 DEF KeptInv
  <2>2. Judging => \A k, m \in DOMAIN worker : k = m
    BY <1>2, <2>1 DEF KeptInv
  <2>3. \A k \in DOMAIN worker : worker[k].step \notin {"drop", "keep"}
    BY <1>1, <1>2, <2>2 DEF StageInv
  <2>4. \A k \in DOMAIN worker' : worker'[k].step \notin {"drop", "keep"}
    BY <1>6, <1>9, <2>3
  <2>5. ASSUME stage \in {"preprocessing", "deserializing"}, NEW j \in Batch, verdict[j] = "drop"
        PROVE  j \in skip
    BY <1>2, <2>1, <2>3, <2>5 DEF KeptInv
  <2>6. QED
    BY <1>1, <1>3, <1>9, <1>10, <2>2, <2>4, <2>5 DEF KeptInv
<1>17. SettledInv'
  <2>1. EveryMessageSettled'
    BY <1>1, <1>3 DEF EveryMessageSettled
  <2>2. ASSUME NEW j \in Batch, j # n, IsSettled(j)
        PROVE  IsSettled(j)'
    BY <1>1, <1>10, <1>11, <2>2 DEF IsSettled, PassedOn
  <2>3. ASSUME stage = "deserializing"
        PROVE  IsSettled(n)'
    <3>1. n \in skip => verdict[n] = "drop"
      BY <1>2 DEF VerdictInv
    <3>2. OneJudge /\ verdict[n] = "drop" => n \in skip
      <4>1. SUFFICES ASSUME OneJudge, verdict[n] = "drop" PROVE n \in skip
        OBVIOUS
      <4>2. Judging => \A k \in DOMAIN worker : k = i
        BY <1>2, <4>1 DEF KeptInv
      <4>3. \A k \in DOMAIN worker : worker[k].step # "drop"
        BY <1>1, <1>2, <4>2 DEF StageInv
      <4>4. QED
        BY <1>2, <2>3, <4>1, <4>3 DEF KeptInv
    <3>3. QED
      BY <1>1, <1>10, <1>11, <3>1, <3>2 DEF IsSettled
  <2>4. ASSUME stage = "deserializing", NEW k \in DOMAIN worker',
               NEW j \in worker'[k].start .. worker'[k].next - 1
        PROVE  IsSettled(j)'
    <3>1. worker[k] \in WorkerRecord /\ PartOK(worker[k]) /\ Size \in Nat
      BY <1>2, <1>9 DEF WorkersOK, DataOK
    <3>2. CASE k = i /\ j = n
      BY <2>3, <2>4, <3>2
    <3>3. CASE k = i /\ j # n
      <4>1. j \in worker[i].start .. worker[i].next - 1 /\ j \in Batch
        BY <1>1, <1>4, <1>6, <1>9, <2>4, <3>1, <3>3 DEF WorkerRecord, PartOK, Batch
      <4>2. QED
        BY <1>2, <2>2, <2>4, <3>3, <4>1 DEF SettledInv
    <3>4. CASE k # i
      <4>1. worker'[k] = worker[k] /\ j \in worker[k].start .. worker[k].next - 1
        BY <1>9, <2>4, <3>4
      <4>2. j \in worker[k].start .. worker[k].end - 1 /\ j \in Batch
        BY <3>1, <4>1 DEF WorkerRecord, PartOK, Batch
      <4>3. j # n
        BY <1>3, <1>4, <1>9, <3>4, <4>2
      <4>4. QED
        BY <1>2, <1>9, <2>2, <2>4, <4>1, <4>2, <4>3 DEF SettledInv
    <3>5. QED
      BY <3>2, <3>3, <3>4
  <2>5. \A k \in DOMAIN worker : worker'[k].start = worker[k].start /\ worker'[k].end = worker[k].end
    BY <1>6, <1>9
  <2>6. QED
    BY <1>1, <1>2, <1>9, <1>10, <2>1, <2>4, <2>5 DEF SettledInv
<1>18. QED
  BY <1>9, <1>12, <1>13, <1>14, <1>15, <1>16, <1>17 DEF BatchInv, TypeInv

-------------------------------------------------------------------------------
(* A message that is read singly                                           *)

\* Without workers or bits, what holds is a matter of the messages alone.
LEMMA SinglyStep ==
  ASSUME BatchInv, config.strategy = "roundrobin",
         UNCHANGED <<config, preprocess, stage, allocated, skip, worker>>,
         Size' \in Nat, Size' <= Len(ReadBatch), verdict' \in [Batch' -> Answers],
         DOMAIN outcome' = Batch', \A j \in Batch' : IsSettled(j)'
  PROVE  BatchInv'
<1>1. /\ stage = "ended" /\ skip = {} /\ worker = <<>> /\ DOMAIN worker = {}
  BY EmptySequence DEF BatchInv, TypeInv, ConfigOK
<1>2. ConfigOK'
  BY DEF BatchInv, TypeInv, ConfigOK
<1>3. DataOK'
  <2>1. /\ preprocess' \in BOOLEAN /\ allocated' \in BOOLEAN /\ stage' \in Stages /\ skip' = {}
    BY <1>1 DEF BatchInv, TypeInv, DataOK
  <2>2. QED
    BY <2>1 DEF DataOK
<1>4. WorkersOK'
  BY <1>1, EmptySequence DEF WorkersOK
<1>5. StageInv' /\ VerdictInv' /\ KeptInv'
  BY <1>1 DEF StageInv, VerdictInv, KeptInv, WorkersDone
<1>6. SettledInv'
  BY <1>1 DEF SettledInv, EveryMessageSettled
<1>7. QED
  BY <1>2, <1>3, <1>4, <1>5, <1>6 DEF BatchInv, TypeInv

LEMMA ReadSinglyStep ==
  ASSUME BatchInv, NEW message \in SingleMessages, NEW answer \in {"drop", "keep"},
         ReadSingly(message, answer)
  PROVE  BatchInv'
<1> DEFINE judged == ~message.error /\ config.registered /\ preprocess
<1>1. /\ config.strategy = "roundrobin" /\ batch' = <<message>>
      /\ verdict' = [j \in {0} |-> IF judged THEN answer ELSE "none"]
      /\ outcome' = [j \in {0} |->
           IF message.error THEN NotDeserialized
           ELSE IF judged /\ answer = "drop" THEN Dropped
           ELSE DeserializeMessage(message, config.skipUnknown)]
      /\ UNCHANGED <<config, preprocess, stage, allocated, skip, worker>>
  BY DEF ReadSingly
<1>2. /\ Size' = 1 /\ Batch' = {0} /\ batch'[1] = message
  BY <1>1 DEF Size, Batch
<1>3. Size' \in Nat /\ Size' <= Len(ReadBatch)
  BY <1>2, BatchLength
<1>4. verdict' \in [Batch' -> Answers] /\ DOMAIN outcome' = Batch'
  BY <1>1, <1>2 DEF Answers
<1>5. IsSettled(0)'
  <2>1. verdict'[0] = IF judged THEN answer ELSE "none"
    BY <1>1
  <2>2. outcome'[0] = IF message.error THEN NotDeserialized
                      ELSE IF judged /\ answer = "drop" THEN Dropped
                      ELSE DeserializeMessage(message, config.skipUnknown)
    BY <1>1
  <2>3. batch'[0 + 1] = message
    BY <1>2
  <2>4. verdict'[0] = "drop" => outcome'[0] = Dropped
    BY <2>1, <2>2
  <2>5. \/ outcome'[0] = DeserializeMessage(batch'[0 + 1], config'.skipUnknown)
        \/ outcome'[0] = Dropped /\ verdict'[0] = "drop"
        \/ PassedOn(0)'
    BY <1>1, <2>1, <2>2, <2>3 DEF PassedOn
  <2>6. QED
    BY <2>4, <2>5 DEF IsSettled
<1>6. \A j \in Batch' : IsSettled(j)'
  BY <1>2, <1>5
<1>7. QED
  BY <1>1, <1>3, <1>4, <1>6, SinglyStep

LEMMA PassOnStep ==
  ASSUME BatchInv, PassOn
  PROVE  BatchInv'
<1>1. /\ config.strategy = "roundrobin" /\ batch' = <<>> /\ verdict' = <<>> /\ outcome' = <<>>
      /\ UNCHANGED <<config, preprocess, stage, allocated, skip, worker>>
  BY DEF PassOn
<1>2. Size' = 0 /\ Batch' = {}
  BY <1>1, EmptySequence DEF Size, Batch
<1>3. verdict' \in [Batch' -> Answers] /\ DOMAIN outcome' = Batch'
  BY <1>1, <1>2, EmptySequence
<1>4. Size' \in Nat /\ Size' <= Len(ReadBatch)
  BY <1>2, BatchLength
<1>5. QED
  BY <1>1, <1>2, <1>3, <1>4, SinglyStep

-------------------------------------------------------------------------------
(* What is made of one message                                             *)

\* What holds of 0 and goes on from every number below N to the next holds of N.
LEMMA CountUp ==
  ASSUME NEW N \in Nat, NEW S \in SUBSET (0 .. N), 0 \in S,
         \A n \in S : n < N => n + 1 \in S
  PROVE  N \in S
<1>1. IsFiniteSet(S)
  <2>1. IsFiniteSet(0 .. N)
    BY FS_Interval
  <2>2. QED
    BY <2>1, FS_Subset
<1>2. PICK n \in S : n + 1 \notin S
  BY <1>1, StepOut
<1>3. QED
  BY <1>2

LEMMA MinFacts ==
  ASSUME NEW S \in SUBSET Nat, S # {}
  PROVE  Min(S) \in S /\ \A n \in S : Min(S) <= n
<1>1. PICK m \in S : m \in Nat
  OBVIOUS
<1> DEFINE Below == {n \in 0 .. m : \A k \in S : n <= k}
<1>2. Below \in SUBSET Nat /\ 0 \in Below /\ Below \subseteq 0 .. m
  BY <1>1
<1>3. IsFiniteSet(Below)
  <2>1. IsFiniteSet(0 .. m)
    BY <1>1, FS_Interval
  <2> HIDE DEF Below
  <2>2. QED
    BY <1>2, <2>1, FS_Subset
<1>4. PICK n \in Below : n + 1 \notin Below
  <2> HIDE DEF Below
  <2> QED BY <1>2, <1>3, StepOut
<1>5. n \in S
  <2>1. CASE n = m
    BY <1>1, <2>1
  <2>2. CASE n # m
    <3>1. n + 1 \in 0 .. m
      BY <1>1, <1>4, <2>2
    <3>2. PICK k \in S : ~ n + 1 <= k
      BY <1>4, <3>1
    <3>3. k \in Nat /\ n <= k /\ n \in Nat
      BY <1>4
    <3>4. k = n
      BY <3>2, <3>3
    <3>5. QED
      BY <3>4
  <2>3. QED
    BY <2>1, <2>2
<1>6. \A k \in S : n <= k
  BY <1>4
<1>7. QED
  BY <1>5, <1>6 DEF Min

LEMMA MinIs ==
  ASSUME NEW S \in SUBSET Nat, NEW m \in S, \A n \in S : m <= n
  PROVE  Min(S) = m
<1>1. Min(S) \in S /\ Min(S) <= m
  BY MinFacts
<1>2. Min(S) \in Nat /\ m \in Nat /\ m <= Min(S)
  BY <1>1
<1>3. QED
  BY <1>1, <1>2

LEMMA MaxIs ==
  ASSUME NEW S \in SUBSET Nat, NEW m \in S, \A n \in S : n <= m
  PROVE  Max(S) = m
<1>1. Max(S) \in S /\ \A n \in S : Max(S) >= n
  BY DEF Max
<1>2. Max(S) \in Nat /\ m \in Nat /\ Max(S) >= m /\ Max(S) <= m
  BY <1>1
<1>3. QED
  BY <1>2

LEMMA NamesFacts ==
  /\ Len(HeaderNames) \in Nat /\ DOMAIN HeaderNames = 1 .. Len(HeaderNames)
  /\ DOMAIN HeaderNames \subseteq Nat \ {0}
  /\ \A p \in DOMAIN HeaderNames : HeaderNames[p] \in DOMAIN LowerCase
<1>1. HeaderNames \in Seq(DOMAIN LowerCase)
  BY HeaderAssumption
<1>2. QED
  BY <1>1

\* The entry of a name is where its name is declared, and 0 is none.
LEMMA PositionFacts ==
  ASSUME NEW name
  PROVE  /\ Declared(name) => /\ Position(name) \in DOMAIN HeaderNames
                              /\ HeaderNames[Position(name)] = name
         /\ ~ Declared(name) => Position(name) \notin DOMAIN HeaderNames
<1> DEFINE S == {p \in DOMAIN HeaderNames : HeaderNames[p] = name}
<1>1. S \in SUBSET Nat
  BY NamesFacts
<1>2. CASE S = {}
  <2>1. ~ Declared(name)
    BY <1>2 DEF Declared
  <2>2. Position(name) = 0
    BY <1>2 DEF Position, First
  <2>3. QED
    BY <2>1, <2>2, NamesFacts
<1>3. CASE S # {}
  <2>1. Declared(name)
    BY <1>3 DEF Declared
  <2>2. Min(S) \in S
    <3> HIDE DEF S
    <3> QED BY <1>1, <1>3, MinFacts
  <2>3. Position(name) = Min(S)
    BY <1>3 DEF Position, First
  <2>4. QED
    BY <2>1, <2>2, <2>3
<1>4. QED
  BY <1>2, <1>3

\* The turns of the loop over the headers are a function: it can be given up to each one.
LEMMA LoopTurns ==
  ASSUME NEW raw, NEW skipUnknown, NEW start, Len(raw) \in Nat
  PROVE  \E after :
           /\ after[0] = start
           /\ \A i \in 1 .. Len(raw) : after[i] = TakeHeader(raw, i, skipUnknown, after[i - 1])
           /\ TakeHeaders(raw, skipUnknown, start) = after[Len(raw)]
<1> DEFINE N == Len(raw)
           Value(t, n) == IF n = 0 THEN start ELSE TakeHeader(raw, n, skipUnknown, t[n - 1])
           Known == {n \in 0 .. N : \E t : t = [m \in 0 .. n |-> Value(t, m)]}
<1>1. 0 \in Known
  <2> DEFINE t == [m \in 0 .. 0 |-> start]
  <2>1. t = [m \in 0 .. 0 |-> Value(t, m)]
    OBVIOUS
  <2>2. 0 \in 0 .. N
    OBVIOUS
  <2> HIDE DEF t, Value
  <2>3. QED
    BY <2>1, <2>2
<1>2. ASSUME NEW n \in Known, n < N PROVE n + 1 \in Known
  <2>1. n \in 0 .. N /\ n \in Nat
    OBVIOUS
  <2>2. PICK t : t = [m \in 0 .. n |-> Value(t, m)]
    BY <1>2
  <2> DEFINE u == [m \in 0 .. n + 1 |-> IF m <= n THEN t[m] ELSE Value(t, m)]
  <2>3. ASSUME NEW m \in 0 .. n + 1 PROVE u[m] = Value(u, m)
    <3>1. u[m] = Value(t, m)
      BY <2>1, <2>2
    <3>2. m # 0 => m - 1 \in 0 .. n
      BY <2>1
    <3>3. m # 0 => u[m - 1] = t[m - 1]
      BY <2>1, <3>2
    <3> HIDE DEF u
    <3>4. QED
      BY <3>1, <3>3
  <2>4. u = [m \in 0 .. n + 1 |-> Value(u, m)]
    BY <2>3
  <2>5. n + 1 \in 0 .. N
    BY <1>2, <2>1
  <2> HIDE DEF u, Value
  <2>6. QED
    BY <2>4, <2>5
<1>3. N \in Known
  <2>1. Known \in SUBSET (0 .. N) /\ N \in Nat
    OBVIOUS
  <2> HIDE DEF Known, N
  <2>2. QED
    BY <1>1, <1>2, <2>1, CountUp
<1> DEFINE after == CHOOSE t : t = [n \in 0 .. N |-> Value(t, n)]
<1>4. after = [n \in 0 .. N |-> Value(after, n)]
  BY <1>3
<1>5. TakeHeaders(raw, skipUnknown, start) = after[N]
  BY DEF TakeHeaders
<1> HIDE DEF after
<1>6. after[0] = start /\ \A i \in 1 .. N : after[i] = TakeHeader(raw, i, skipUnknown, after[i - 1])
  BY <1>4
<1>7. QED
  BY <1>5, <1>6

\* What the loop has made of the headers so far.
Entries == [DOMAIN HeaderNames -> [name : DOMAIN LowerCase, value : Nat]]

Errors == {"none", "NOT_IMPLEMENTED", "KEY_DESERIALIZATION", "VALUE_DESERIALIZATION"}

Results ==
  [key : BOOLEAN, payload : BOOLEAN, headers : Entries, error : Errors,
   sources : SUBSET {"key", "header", "payload"}, headerNum : Int]

LoopStates == [result : Results, num : Nat, broken : BOOLEAN]

\* A header that spoils the message is flagged with the number of those before it.
Breaks(s, t, error) ==
  /\ t.broken /\ t.result.error = error /\ t.result.headerNum = s.num
  /\ t.result.sources = s.result.sources \union {"header"}

\* A header that decodes is put in its place.
Takes(s, t, position, entry) ==
  /\ ~ t.broken /\ t.num = s.num + 1
  /\ t.result.error = s.result.error /\ t.result.sources = s.result.sources
  /\ t.result.headerNum = s.result.headerNum
  /\ \A p \in DOMAIN HeaderNames :
       t.result.headers[p] = IF p = position THEN entry ELSE s.result.headers[p]

LEMMA FlaggedFacts ==
  ASSUME NEW r \in Results, NEW error \in Errors, NEW source \in {"key", "header", "payload"}
  PROVE  /\ Flagged(r, error, source) \in Results
         /\ Flagged(r, error, source).error = error
         /\ Flagged(r, error, source).sources = r.sources \union {source}
         /\ Flagged(r, error, source).key = r.key
         /\ Flagged(r, error, source).payload = r.payload
         /\ Flagged(r, error, source).headers = r.headers
         /\ Flagged(r, error, source).headerNum = r.headerNum
BY DEF Flagged, Results

LEMMA SpoiltByFacts ==
  ASSUME NEW s \in LoopStates, NEW error \in Errors, NEW t, t = SpoiltBy(s, error)
  PROVE  /\ t \in LoopStates /\ Breaks(s, t, error)
         /\ t.result.key = s.result.key /\ t.result.payload = s.result.payload
<1>1. s.result \in Results /\ s.num \in Nat
  BY DEF LoopStates
<1> DEFINE f == Flagged(s.result, error, "header")
<1>2. /\ f \in Results /\ f.error = error /\ f.sources = s.result.sources \union {"header"}
      /\ f.key = s.result.key /\ f.payload = s.result.payload
  BY <1>1, FlaggedFacts
<1>3. t = [result |-> [f EXCEPT !.headerNum = s.num], num |-> s.num, broken |-> TRUE]
  BY DEF SpoiltBy
<1> HIDE DEF f
<1>4. [f EXCEPT !.headerNum = s.num] \in Results
  BY <1>1, <1>2 DEF Results
<1>5. t \in LoopStates
  BY <1>1, <1>3, <1>4 DEF LoopStates
<1>6. Breaks(s, t, error) /\ t.result.key = s.result.key /\ t.result.payload = s.result.payload
  BY <1>1, <1>2, <1>3 DEF Breaks, Results
<1>7. QED
  BY <1>5, <1>6

LEMMA TakeHeaderFacts ==
  ASSUME NEW raw, NEW i \in Nat \ {0}, NEW skipUnknown, NEW s \in LoopStates,
         NEW t, t = TakeHeader(raw, i, skipUnknown, s)
  PROVE  LET name == raw[i].name
         IN  /\ t \in LoopStates
             /\ t.result.key = s.result.key /\ t.result.payload = s.result.payload
             /\ s.broken => t = s
             /\ ~ s.broken /\ ~ Declared(name) /\ skipUnknown => t = s
             /\ ~ s.broken /\ ~ Declared(name) /\ ~ skipUnknown => Breaks(s, t, "NOT_IMPLEMENTED")
             /\ ~ s.broken /\ Declared(name) /\ ~ raw[i].decodes => Breaks(s, t, "VALUE_DESERIALIZATION")
             /\ ~ s.broken /\ Declared(name) /\ raw[i].decodes =>
                  Takes(s, t, Position(name), [name |-> name, value |-> i])
<1> DEFINE name  == raw[i].name
           value == IF raw[i].decodes THEN i ELSE 0
           taken == [s EXCEPT !.result.headers = Put(@, name, value)]
<1>1. s.result \in Results /\ s.num \in Nat /\ s.broken \in BOOLEAN /\ value \in Nat
  BY DEF LoopStates
<1>2. t = CASE s.broken -> s
            [] ~ s.broken /\ ~ Declared(name) ->
                 IF skipUnknown THEN s ELSE SpoiltBy(s, "NOT_IMPLEMENTED")
            [] ~ s.broken /\ Declared(name) ->
                 IF value = 0 THEN SpoiltBy(taken, "VALUE_DESERIALIZATION")
                 ELSE [taken EXCEPT !.num = @ + 1]
  BY DEF TakeHeader
<1>3. CASE s.broken
  BY <1>2, <1>3
<1>4. CASE ~ s.broken /\ ~ Declared(name) /\ skipUnknown
  BY <1>2, <1>4
<1>5. CASE ~ s.broken /\ ~ Declared(name) /\ ~ skipUnknown
  <2>1. t = SpoiltBy(s, "NOT_IMPLEMENTED")
    BY <1>2, <1>5
  <2>2. /\ t \in LoopStates /\ Breaks(s, t, "NOT_IMPLEMENTED")
        /\ t.result.key = s.result.key /\ t.result.payload = s.result.payload
    BY <2>1, SpoiltByFacts DEF Errors
  <2>3. QED
    BY <1>5, <2>2
<1>6. ASSUME ~ s.broken, Declared(name)
      PROVE  /\ taken \in LoopStates /\ taken.num = s.num /\ taken.broken = s.broken
             /\ taken.result.key = s.result.key /\ taken.result.payload = s.result.payload
             /\ taken.result.error = s.result.error /\ taken.result.sources = s.result.sources
             /\ taken.result.headerNum = s.result.headerNum
             /\ \A p \in DOMAIN HeaderNames :
                  taken.result.headers[p] = IF p = Position(name) THEN [name |-> name, value |-> value]
                                            ELSE s.result.headers[p]
  <2> DEFINE put == Put(s.result.headers, name, value)
  <2>1. Position(name) \in DOMAIN HeaderNames /\ name \in DOMAIN LowerCase
    BY <1>6, PositionFacts, NamesFacts
  <2>2. s.result.headers \in Entries
    BY <1>1 DEF Results
  <2>3. put = [s.result.headers EXCEPT ![Position(name)] = [name |-> name, value |-> value]]
    BY DEF Put
  <2> HIDE DEF put
  <2>4. put \in Entries /\ \A p \in DOMAIN HeaderNames :
          put[p] = IF p = Position(name) THEN [name |-> name, value |-> value] ELSE s.result.headers[p]
    <3> HIDE DEF value, name
    <3> QED BY <1>1, <2>1, <2>2, <2>3 DEF Entries
  <2>5. taken = [s EXCEPT !.result = [s.result EXCEPT !.headers = put]]
    BY <1>1 DEF LoopStates, Results, put
  <2> HIDE DEF taken, name, value
  <2>6. [s.result EXCEPT !.headers = put] \in Results
    BY <1>1, <2>4 DEF Results
  <2>7. taken \in LoopStates
    BY <1>1, <2>5, <2>6 DEF LoopStates
  <2>8. /\ taken.num = s.num /\ taken.broken = s.broken
        /\ taken.result = [s.result EXCEPT !.headers = put]
    BY <2>5 DEF LoopStates
  <2>9. QED
    BY <1>1, <2>4, <2>7, <2>8 DEF Results
<1>7. CASE ~ s.broken /\ Declared(name) /\ ~ raw[i].decodes
  <2>1. t = SpoiltBy(taken, "VALUE_DESERIALIZATION")
    BY <1>2, <1>7
  <2>2. taken \in LoopStates
    BY <1>6, <1>7
  <2>3. PICK u : u = taken
    OBVIOUS
  <2>4. /\ t \in LoopStates /\ Breaks(u, t, "VALUE_DESERIALIZATION")
        /\ t.result.key = u.result.key /\ t.result.payload = u.result.payload
    <3> HIDE DEF taken
    <3> QED BY <2>1, <2>2, <2>3, SpoiltByFacts DEF Errors
  <2>5. /\ u.num = s.num /\ u.result.sources = s.result.sources
        /\ u.result.key = s.result.key /\ u.result.payload = s.result.payload
    BY <1>6, <1>7, <2>3
  <2>6. Breaks(s, t, "VALUE_DESERIALIZATION")
    BY <2>4, <2>5 DEF Breaks
  <2>7. QED
    BY <1>7, <2>4, <2>5, <2>6
<1>8. CASE ~ s.broken /\ Declared(name) /\ raw[i].decodes
  <2>1. t = [taken EXCEPT !.num = @ + 1]
    BY <1>2, <1>8
  <2>2. PICK u : u = taken
    OBVIOUS
  <2>3. u \in LoopStates
    BY <1>6, <1>8, <2>2
  <2>4. t = [u EXCEPT !.num = u.num + 1]
    BY <2>1, <2>2
  <2>5. t \in LoopStates /\ t.result = u.result /\ t.broken = u.broken /\ t.num = u.num + 1
    BY <2>3, <2>4 DEF LoopStates
  <2>6. Takes(s, t, Position(name), [name |-> name, value |-> i])
    BY <1>6, <1>8, <2>2, <2>5 DEF Takes
  <2>7. QED
    BY <1>6, <1>8, <2>2, <2>5, <2>6
<1>9. QED
  BY <1>1, <1>3, <1>4, <1>5, <1>7, <1>8


\* A message with some sequence of raw headers.
IsMessage(message) ==
  /\ message.error \in BOOLEAN /\ message.key \in BOOLEAN /\ message.payload \in BOOLEAN
  /\ Len(message.headers) \in Nat /\ DOMAIN message.headers = 1 .. Len(message.headers)

\* What an entry tells of the first n raw headers: the last one that belongs there.
EntryTells(message, p, n, entry) ==
  LET at == HeadersAt(message, p) \cap (1 .. n)
  IN  IF at = {} THEN entry.name = "" /\ entry.value = 0
      ELSE /\ entry.name = HeaderNames[p]
           /\ entry.value \in at /\ \A k \in at : k <= entry.value

\* The header that spoils a message is the first one that does.
FirstSpoilt(message, skipUnknown, n, result) ==
  \E m \in Spoilt(message, skipUnknown) \cap (1 .. n) :
    /\ \A k \in Spoilt(message, skipUnknown) : m <= k
    /\ (\A k \in 1 .. m - 1 : Declared(message.headers[k].name)) => result.headerNum = m - 1
    /\ result.error = "NOT_IMPLEMENTED" => ~ Declared(message.headers[m].name)

\* After n raw headers: s is what the loop has made of r.
LoopInv(message, skipUnknown, r, s, n) ==
  /\ s \in LoopStates
  /\ s.result.key = r.key /\ s.result.payload = r.payload
  /\ ~ s.broken =>
       /\ Spoilt(message, skipUnknown) \cap (1 .. n) = {}
       /\ s.result.error = r.error /\ s.result.sources = r.sources
       /\ s.result.headerNum = r.headerNum
       /\ (\A k \in 1 .. n : Declared(message.headers[k].name)) => s.num = n
       /\ \A p \in DOMAIN HeaderNames : EntryTells(message, p, n, s.result.headers[p])
  /\ s.broken =>
       /\ s.result.error # "none" /\ s.result.sources = r.sources \union {"header"}
       /\ FirstSpoilt(message, skipUnknown, n, s.result)

NothingTaken(result) ==
  \A p \in DOMAIN HeaderNames : result.headers[p].name = "" /\ result.headers[p].value = 0

LEMMA LoopStarts ==
  ASSUME NEW message, IsMessage(message), NEW skipUnknown, NEW r \in Results,
         NothingTaken(r), NEW s, s = [result |-> r, num |-> 0, broken |-> FALSE]
  PROVE  LoopInv(message, skipUnknown, r, s, 0)
<1>1. s.result = r /\ s.num = 0 /\ ~ s.broken /\ s \in LoopStates
  BY DEF LoopStates
<1>2. 1 .. 0 = {}
  OBVIOUS
<1>3. \A p \in DOMAIN HeaderNames : EntryTells(message, p, 0, s.result.headers[p])
  BY <1>1, <1>2 DEF EntryTells, NothingTaken
<1>4. QED
  BY <1>1, <1>2, <1>3 DEF LoopInv

LEMMA LoopPasses ==
  ASSUME NEW message, IsMessage(message), NEW skipUnknown, NEW r \in Results,
         NEW s, NEW n \in Nat, n + 1 \in DOMAIN message.headers,
         LoopInv(message, skipUnknown, r, s, n), ~ s.broken,
         ~ Declared(message.headers[n + 1].name), skipUnknown
  PROVE  LoopInv(message, skipUnknown, r, s, n + 1)
<1>1. n + 1 \notin Spoilt(message, skipUnknown)
  BY DEF Spoilt
<1>2. 1 .. n + 1 = (1 .. n) \union {n + 1} /\ n + 1 \in 1 .. n + 1
  OBVIOUS
<1>3. Spoilt(message, skipUnknown) \cap (1 .. n + 1) = {}
  BY <1>1, <1>2 DEF LoopInv
<1>4. ASSUME NEW p \in DOMAIN HeaderNames
      PROVE  EntryTells(message, p, n + 1, s.result.headers[p])
  <2>1. n + 1 \notin HeadersAt(message, p)
    BY PositionFacts DEF HeadersAt
  <2>2. HeadersAt(message, p) \cap (1 .. n + 1) = HeadersAt(message, p) \cap (1 .. n)
    BY <1>2, <2>1
  <2>3. EntryTells(message, p, n, s.result.headers[p])
    BY DEF LoopInv
  <2>4. QED
    BY <2>2, <2>3 DEF EntryTells
<1>5. ~ \A k \in 1 .. n + 1 : Declared(message.headers[k].name)
  BY <1>2
<1>6. QED
  BY <1>3, <1>4, <1>5 DEF LoopInv

LEMMA LoopTakes ==
  ASSUME NEW message, IsMessage(message), NEW skipUnknown, NEW r \in Results,
         NEW s, NEW t \in LoopStates, NEW n \in Nat, n + 1 \in DOMAIN message.headers,
         LoopInv(message, skipUnknown, r, s, n), ~ s.broken,
         t.result.key = s.result.key, t.result.payload = s.result.payload,
         Declared(message.headers[n + 1].name), message.headers[n + 1].decodes,
         Takes(s, t, Position(message.headers[n + 1].name),
               [name |-> message.headers[n + 1].name, value |-> n + 1])
  PROVE  LoopInv(message, skipUnknown, r, t, n + 1)
<1> DEFINE name == message.headers[n + 1].name
<1>1. n + 1 \notin Spoilt(message, skipUnknown)
  BY DEF Spoilt
<1>2. 1 .. n + 1 = (1 .. n) \union {n + 1} /\ n + 1 \in 1 .. n + 1
  OBVIOUS
<1>3. Spoilt(message, skipUnknown) \cap (1 .. n + 1) = {}
  BY <1>1, <1>2 DEF LoopInv
<1>4. ASSUME NEW p \in DOMAIN HeaderNames
      PROVE  EntryTells(message, p, n + 1, t.result.headers[p])
  <2> DEFINE at == HeadersAt(message, p)
  <2>1. EntryTells(message, p, n, s.result.headers[p])
    BY DEF LoopInv
  <2>2. t.result.headers[p] = IF p = Position(name) THEN [name |-> name, value |-> n + 1]
                              ELSE s.result.headers[p]
    BY DEF Takes
  <2>3. CASE p = Position(name)
    <3>1. n + 1 \in at \cap (1 .. n + 1) /\ name = HeaderNames[p]
      BY <1>2, <2>3, PositionFacts DEF HeadersAt
    <3>2. \A k \in at \cap (1 .. n + 1) : k <= n + 1
      OBVIOUS
    <3>3. t.result.headers[p].name = name /\ t.result.headers[p].value = n + 1
      BY <2>2, <2>3
    <3> HIDE DEF at, name
    <3>4. QED
      BY <3>1, <3>2, <3>3 DEF EntryTells, at
  <2>4. CASE p # Position(name)
    <3>1. n + 1 \notin at
      BY <2>4 DEF HeadersAt
    <3>2. at \cap (1 .. n + 1) = at \cap (1 .. n)
      BY <1>2, <3>1
    <3>3. t.result.headers[p] = s.result.headers[p]
      BY <2>2, <2>4
    <3>4. QED
      BY <2>1, <3>2, <3>3 DEF EntryTells
  <2>5. QED
    BY <2>3, <2>4
<1>5. (\A k \in 1 .. n + 1 : Declared(message.headers[k].name)) => t.num = n + 1
  <2>1. t.num = s.num + 1
    BY DEF Takes
  <2>2. (\A k \in 1 .. n : Declared(message.headers[k].name)) => s.num = n
    BY DEF LoopInv
  <2>3. QED
    BY <1>2, <2>1, <2>2
<1>6. ~ t.broken /\ t.result.error = r.error /\ t.result.sources = r.sources
      /\ t.result.headerNum = r.headerNum
  BY DEF LoopInv, Takes
<1>7. t.result.key = r.key /\ t.result.payload = r.payload
  BY DEF LoopInv
<1>8. QED
  BY <1>3, <1>4, <1>5, <1>6, <1>7 DEF LoopInv

LEMMA LoopBreaks ==
  ASSUME NEW message, IsMessage(message), NEW skipUnknown, NEW r \in Results,
         NEW s, NEW t \in LoopStates, NEW n \in Nat, n + 1 \in DOMAIN message.headers,
         LoopInv(message, skipUnknown, r, s, n), ~ s.broken,
         t.result.key = s.result.key, t.result.payload = s.result.payload,
         n + 1 \in Spoilt(message, skipUnknown),
         NEW error, Breaks(s, t, error), error # "none",
         error = "NOT_IMPLEMENTED" => ~ Declared(message.headers[n + 1].name)
  PROVE  LoopInv(message, skipUnknown, r, t, n + 1)
<1>1. \A k \in Spoilt(message, skipUnknown) : n + 1 <= k
  <2>1. Spoilt(message, skipUnknown) \cap (1 .. n) = {}
    BY DEF LoopInv
  <2>2. Spoilt(message, skipUnknown) \subseteq Nat \ {0}
    BY DEF Spoilt, IsMessage
  <2>3. QED
    BY <2>1, <2>2
<1>2. (\A k \in 1 .. (n + 1) - 1 : Declared(message.headers[k].name))
        => t.result.headerNum = (n + 1) - 1
  <2>1. (n + 1) - 1 = n
    OBVIOUS
  <2>2. (\A k \in 1 .. n : Declared(message.headers[k].name)) => s.num = n
    BY DEF LoopInv
  <2>3. t.result.headerNum = s.num
    BY DEF Breaks
  <2>4. QED
    BY <2>1, <2>2, <2>3
<1>3. n + 1 \in Spoilt(message, skipUnknown) \cap (1 .. n + 1)
  OBVIOUS
<1>4. t.result.error = "NOT_IMPLEMENTED" => ~ Declared(message.headers[n + 1].name)
  BY DEF Breaks
<1>5. FirstSpoilt(message, skipUnknown, n + 1, t.result)
  BY <1>1, <1>2, <1>3, <1>4 DEF FirstSpoilt
<1>6. t.broken /\ t.result.error # "none" /\ t.result.sources = r.sources \union {"header"}
  BY DEF Breaks, LoopInv
<1>7. t.result.key = r.key /\ t.result.payload = r.payload
  BY DEF LoopInv
<1>8. QED
  BY <1>5, <1>6, <1>7 DEF LoopInv

LEMMA LoopTurn ==
  ASSUME NEW message, IsMessage(message), NEW skipUnknown, NEW r \in Results,
         NEW s, NEW n \in Nat, n + 1 \in DOMAIN message.headers,
         LoopInv(message, skipUnknown, r, s, n),
         NEW t, t = TakeHeader(message.headers, n + 1, skipUnknown, s)
  PROVE  LoopInv(message, skipUnknown, r, t, n + 1)
<1> DEFINE name == message.headers[n + 1].name
<1>1. /\ t \in LoopStates
      /\ t.result.key = s.result.key /\ t.result.payload = s.result.payload
      /\ s.broken => t = s
      /\ ~ s.broken /\ ~ Declared(name) /\ skipUnknown => t = s
      /\ ~ s.broken /\ ~ Declared(name) /\ ~ skipUnknown => Breaks(s, t, "NOT_IMPLEMENTED")
      /\ ~ s.broken /\ Declared(name) /\ ~ message.headers[n + 1].decodes
           => Breaks(s, t, "VALUE_DESERIALIZATION")
      /\ ~ s.broken /\ Declared(name) /\ message.headers[n + 1].decodes =>
           Takes(s, t, Position(name), [name |-> name, value |-> n + 1])
  <2>1. n + 1 \in Nat \ {0} /\ s \in LoopStates
    BY DEF LoopInv
  <2>2. PICK i : i = n + 1
    OBVIOUS
  <2>3. QED
    BY <2>1, <2>2, TakeHeaderFacts
<1>2. CASE s.broken
  <2>1. t = s
    BY <1>1, <1>2
  <2>2. FirstSpoilt(message, skipUnknown, n, s.result)
    BY <1>2 DEF LoopInv
  <2>3. FirstSpoilt(message, skipUnknown, n + 1, s.result)
    <3>1. 1 .. n \subseteq 1 .. n + 1
      OBVIOUS
    <3>2. QED
      BY <2>2, <3>1 DEF FirstSpoilt
  <2>4. QED
    BY <1>2, <2>1, <2>3 DEF LoopInv
<1>3. CASE ~ s.broken /\ ~ Declared(name) /\ skipUnknown
  <2>1. t = s
    BY <1>1, <1>3
  <2>2. QED
    BY <1>3, <2>1, LoopPasses
<1>4. CASE ~ s.broken /\ ~ Declared(name) /\ ~ skipUnknown
  <2>1. n + 1 \in Spoilt(message, skipUnknown)
    BY <1>4 DEF Spoilt
  <2>2. Breaks(s, t, "NOT_IMPLEMENTED")
    BY <1>1, <1>4
  <2>3. QED
    BY <1>1, <1>4, <2>1, <2>2, LoopBreaks
<1>5. CASE ~ s.broken /\ Declared(name) /\ ~ message.headers[n + 1].decodes
  <2>1. n + 1 \in Spoilt(message, skipUnknown)
    BY <1>5 DEF Spoilt
  <2>2. Breaks(s, t, "VALUE_DESERIALIZATION")
    BY <1>1, <1>5
  <2>3. QED
    BY <1>1, <1>5, <2>1, <2>2, LoopBreaks
<1>6. CASE ~ s.broken /\ Declared(name) /\ message.headers[n + 1].decodes
  BY <1>1, <1>6, LoopTakes
<1>7. QED
  BY <1>2, <1>3, <1>4, <1>5, <1>6

LEMMA LoopResult ==
  ASSUME NEW message, IsMessage(message), NEW skipUnknown, NEW r \in Results,
         NothingTaken(r)
  PROVE  LoopInv(message, skipUnknown, r,
           TakeHeaders(message.headers, skipUnknown, [result |-> r, num |-> 0, broken |-> FALSE]),
           Len(message.headers))
<1> DEFINE N == Len(message.headers)
           start == [result |-> r, num |-> 0, broken |-> FALSE]
<1>1. N \in Nat /\ DOMAIN message.headers = 1 .. N
  BY DEF IsMessage
<1>2. PICK after :
        /\ after[0] = start
        /\ \A i \in 1 .. N : after[i] = TakeHeader(message.headers, i, skipUnknown, after[i - 1])
        /\ TakeHeaders(message.headers, skipUnknown, start) = after[N]
  <2>1. PICK raw, begun : raw = message.headers /\ begun = start
    OBVIOUS
  <2>2. Len(raw) \in Nat
    BY <1>1, <2>1
  <2>3. PICK after :
          /\ after[0] = begun
          /\ \A i \in 1 .. Len(raw) : after[i] = TakeHeader(raw, i, skipUnknown, after[i - 1])
          /\ TakeHeaders(raw, skipUnknown, begun) = after[Len(raw)]
    BY <2>2, LoopTurns
  <2> HIDE DEF start
  <2>4. QED
    BY <2>1, <2>3
<1> DEFINE Reached == {n \in 0 .. N : LoopInv(message, skipUnknown, r, after[n], n)}
<1>3. 0 \in Reached
  <2>1. LoopInv(message, skipUnknown, r, after[0], 0)
    BY <1>2, LoopStarts
  <2>2. QED
    BY <1>1, <2>1
<1>4. ASSUME NEW n \in Reached, n < N PROVE n + 1 \in Reached
  <2>1. n \in Nat /\ n + 1 \in 1 .. N /\ (n + 1) - 1 = n
    BY <1>1, <1>4
  <2>2. after[n + 1] = TakeHeader(message.headers, n + 1, skipUnknown, after[n])
    BY <1>2, <2>1
  <2>3. PICK s, t : s = after[n] /\ t = after[n + 1]
    OBVIOUS
  <2>4. LoopInv(message, skipUnknown, r, s, n)
    BY <2>3
  <2>5. LoopInv(message, skipUnknown, r, t, n + 1)
    BY <1>1, <2>1, <2>2, <2>3, <2>4, LoopTurn
  <2>6. QED
    BY <1>1, <2>1, <2>3, <2>5
<1>5. N \in Reached
  <2>1. Reached \in SUBSET (0 .. N)
    OBVIOUS
  <2> HIDE DEF Reached, N
  <2>2. QED
    BY <1>1, <1>3, <1>4, <2>1, CountUp
<1>6. QED
  BY <1>2, <1>5


\* What the result of a message that is one tells.
Tells(message, skipUnknown, R) ==
  LET spoilt == Spoilt(message, skipUnknown)
  IN  /\ R \in Results
      /\ R.key = message.key /\ R.payload = message.payload
      /\ "key" \in R.sources <=> ~ message.key
      /\ "payload" \in R.sources <=> ~ message.payload
      /\ "header" \in R.sources <=> spoilt # {}
      /\ R.error = "none" <=> message.key /\ message.payload /\ spoilt = {}
      /\ spoilt = {} =>
           /\ R.headerNum = -1 /\ R.error # "NOT_IMPLEMENTED"
           /\ \A p \in DOMAIN HeaderNames :
                EntryTells(message, p, Len(message.headers), R.headers[p])
      /\ spoilt # {} =>
           \E m \in spoilt :
             /\ \A k \in spoilt : m <= k
             /\ (\A k \in 1 .. m - 1 : Declared(message.headers[k].name)) => R.headerNum = m - 1
             /\ R.error = "NOT_IMPLEMENTED" => ~ Declared(message.headers[m].name)

\* The key and the payload before any header is taken.
LEMMA KeyedFacts ==
  ASSUME NEW message, IsMessage(message)
  PROVE  LET keyed == [NotDeserialized EXCEPT !.key = message.key, !.payload = message.payload,
                         !.headers = [p \in DOMAIN HeaderNames |-> [name |-> "", value |-> 0]]]
         IN  /\ keyed \in Results /\ NothingTaken(keyed)
             /\ keyed.key = message.key /\ keyed.payload = message.payload
             /\ keyed.error = "none" /\ keyed.sources = {} /\ keyed.headerNum = -1
<1> DEFINE headers == [p \in DOMAIN HeaderNames |-> [name |-> "", value |-> 0]]
<1>1. headers \in Entries /\ \A p \in DOMAIN HeaderNames : headers[p].name = "" /\ headers[p].value = 0
  BY HeaderAssumption DEF Entries
<1> HIDE DEF headers
<1>2. PICK k \in BOOLEAN, v \in BOOLEAN : k = message.key /\ v = message.payload
  BY DEF IsMessage
<1> DEFINE keyed == [NotDeserialized EXCEPT !.key = k, !.payload = v, !.headers = headers]
<1>3. keyed = [NotDeserialized EXCEPT !.key = message.key, !.payload = message.payload,
                 !.headers = headers]
  BY <1>2
<1> DEFINE Wide == [key : BOOLEAN, payload : BOOLEAN, headers : Entries \union {<<>>}, error : Errors,
                    sources : SUBSET {"key", "header", "payload"}, headerNum : Int]
<1>4. /\ NotDeserialized \in Wide /\ NotDeserialized.error = "none"
      /\ NotDeserialized.sources = {} /\ NotDeserialized.headerNum = -1
  BY DEF NotDeserialized, Errors
<1>5. /\ keyed \in Wide /\ keyed.headers = headers /\ keyed.key = k /\ keyed.payload = v
      /\ keyed.error = "none" /\ keyed.sources = {} /\ keyed.headerNum = -1
  BY <1>1, <1>4
<1> HIDE DEF keyed
<1>6. keyed \in Results
  BY <1>1, <1>5 DEF Results
<1>7. NothingTaken(keyed)
  BY <1>1, <1>5 DEF NothingTaken
<1>8. QED
  BY <1>2, <1>3, <1>5, <1>6, <1>7 DEF headers

LEMMA DeserializedTells ==
  ASSUME NEW message, IsMessage(message), ~ message.error, NEW skipUnknown
  PROVE  Tells(message, skipUnknown, DeserializeMessage(message, skipUnknown))
<1> DEFINE keyed   == [NotDeserialized EXCEPT !.key = message.key, !.payload = message.payload,
                         !.headers = [p \in DOMAIN HeaderNames |-> [name |-> "", value |-> 0]]]
           flagged == IF message.key THEN keyed ELSE Flagged(keyed, "KEY_DESERIALIZATION", "key")
           state   == TakeHeaders(message.headers, skipUnknown,
                        [result |-> flagged, num |-> 0, broken |-> FALSE])
           R       == DeserializeMessage(message, skipUnknown)
           N       == Len(message.headers)
           spoilt  == Spoilt(message, skipUnknown)
<1>1. /\ keyed \in Results /\ NothingTaken(keyed)
      /\ keyed.key = message.key /\ keyed.payload = message.payload
      /\ keyed.error = "none" /\ keyed.sources = {} /\ keyed.headerNum = -1
  BY KeyedFacts
<1>2. R = IF message.payload THEN state.result
          ELSE Flagged(state.result, "VALUE_DESERIALIZATION", "payload")
  BY DEF DeserializeMessage
<1> HIDE DEF keyed, R
<1>3. /\ flagged \in Results /\ NothingTaken(flagged)
      /\ flagged.key = message.key /\ flagged.payload = message.payload
      /\ flagged.error = IF message.key THEN "none" ELSE "KEY_DESERIALIZATION"
      /\ flagged.sources = IF message.key THEN {} ELSE {"key"}
      /\ flagged.headerNum = -1
  <2>1. CASE message.key
    BY <1>1, <2>1
  <2>2. CASE ~ message.key
    <3> DEFINE f == Flagged(keyed, "KEY_DESERIALIZATION", "key")
    <3>1. /\ f \in Results /\ f.error = "KEY_DESERIALIZATION" /\ f.sources = keyed.sources \union {"key"}
          /\ f.key = keyed.key /\ f.payload = keyed.payload
          /\ f.headers = keyed.headers /\ f.headerNum = keyed.headerNum
      BY <1>1, FlaggedFacts DEF Errors
    <3>2. flagged = f
      BY <2>2
    <3> HIDE DEF f, flagged
    <3>3. NothingTaken(f)
      BY <1>1, <3>1 DEF NothingTaken
    <3>4. f.sources = {"key"}
      BY <1>1, <3>1
    <3>5. QED
      BY <1>1, <2>2, <3>1, <3>2, <3>3, <3>4
  <2>3. QED
    BY <2>1, <2>2
<1> HIDE DEF flagged
<1>4. LoopInv(message, skipUnknown, flagged, state, N)
  BY <1>3, LoopResult
<1> HIDE DEF state
<1>5. /\ state.result \in Results
      /\ state.result.key = message.key /\ state.result.payload = message.payload
  BY <1>3, <1>4 DEF LoopInv, LoopStates
<1>6. spoilt \cap (1 .. N) = spoilt
  BY DEF Spoilt, IsMessage
<1>7. state.broken \in BOOLEAN /\ (state.broken <=> spoilt # {})
  <2>1. state.broken \in BOOLEAN
    BY <1>4 DEF LoopInv, LoopStates
  <2>2. ~ state.broken => spoilt \cap (1 .. N) = {}
    BY <1>4 DEF LoopInv
  <2>3. state.broken => spoilt \cap (1 .. N) # {}
    BY <1>4 DEF LoopInv, FirstSpoilt
  <2>4. QED
    BY <1>6, <2>1, <2>2, <2>3
<1>8. /\ state.result.error = "none" <=> message.key /\ spoilt = {}
      /\ state.result.sources = (IF message.key THEN {} ELSE {"key"})
                                  \union (IF spoilt = {} THEN {} ELSE {"header"})
  <2>1. CASE spoilt = {}
    <3>1. state.result.error = flagged.error /\ state.result.sources = flagged.sources
      BY <1>4, <1>7, <2>1 DEF LoopInv
    <3>2. QED
      BY <1>3, <2>1, <3>1
  <2>2. CASE spoilt # {}
    <3>1. state.result.error # "none" /\ state.result.sources = flagged.sources \union {"header"}
      BY <1>4, <1>7, <2>2 DEF LoopInv
    <3>2. QED
      BY <1>3, <2>2, <3>1
  <2>3. QED
    BY <2>1, <2>2
<1>9. spoilt = {} =>
        /\ state.result.headerNum = -1 /\ state.result.error # "NOT_IMPLEMENTED"
        /\ \A p \in DOMAIN HeaderNames : EntryTells(message, p, N, state.result.headers[p])
  <2>1. SUFFICES ASSUME spoilt = {}
                 PROVE  /\ state.result.headerNum = -1 /\ state.result.error # "NOT_IMPLEMENTED"
                        /\ \A p \in DOMAIN HeaderNames :
                             EntryTells(message, p, N, state.result.headers[p])
    OBVIOUS
  <2>2. /\ state.result.headerNum = flagged.headerNum /\ state.result.error = flagged.error
        /\ \A p \in DOMAIN HeaderNames : EntryTells(message, p, N, state.result.headers[p])
    BY <1>4, <1>7, <2>1 DEF LoopInv
  <2>3. QED
    BY <1>3, <2>2
<1>10. spoilt # {} => FirstSpoilt(message, skipUnknown, N, state.result)
  BY <1>4, <1>7 DEF LoopInv
<1>11. /\ R \in Results /\ R.key = state.result.key /\ R.payload = state.result.payload
       /\ R.headers = state.result.headers /\ R.headerNum = state.result.headerNum
       /\ message.payload => R.error = state.result.error /\ R.sources = state.result.sources
       /\ ~ message.payload => /\ R.error = "VALUE_DESERIALIZATION"
                               /\ R.sources = state.result.sources \union {"payload"}
  <2>1. CASE message.payload
    BY <1>2, <1>5, <2>1
  <2>2. CASE ~ message.payload
    <3>1. PICK r : r = state.result
      OBVIOUS
    <3>2. R = Flagged(r, "VALUE_DESERIALIZATION", "payload") /\ r \in Results
      BY <1>2, <1>5, <2>2, <3>1
    <3>3. QED
      BY <2>2, <3>1, <3>2, FlaggedFacts DEF Errors
  <2>3. QED
    BY <2>1, <2>2
<1>12. /\ "key" \in R.sources <=> ~ message.key
       /\ "payload" \in R.sources <=> ~ message.payload
       /\ "header" \in R.sources <=> spoilt # {}
  BY <1>8, <1>11
<1>13. R.error = "none" <=> message.key /\ message.payload /\ spoilt = {}
  BY <1>8, <1>11
<1>14. spoilt = {} =>
         /\ R.headerNum = -1 /\ R.error # "NOT_IMPLEMENTED"
         /\ \A p \in DOMAIN HeaderNames : EntryTells(message, p, N, R.headers[p])
  BY <1>9, <1>11
<1>15. spoilt # {} =>
         \E m \in spoilt :
           /\ \A k \in spoilt : m <= k
           /\ (\A k \in 1 .. m - 1 : Declared(message.headers[k].name)) => R.headerNum = m - 1
           /\ R.error = "NOT_IMPLEMENTED" => ~ Declared(message.headers[m].name)
  <2>1. SUFFICES ASSUME spoilt # {}
                 PROVE  \E m \in spoilt :
                          /\ \A k \in spoilt : m <= k
                          /\ (\A k \in 1 .. m - 1 : Declared(message.headers[k].name))
                               => R.headerNum = m - 1
                          /\ R.error = "NOT_IMPLEMENTED" => ~ Declared(message.headers[m].name)
    OBVIOUS
  <2>2. PICK m \in spoilt :
          /\ \A k \in spoilt : m <= k
          /\ (\A k \in 1 .. m - 1 : Declared(message.headers[k].name))
               => state.result.headerNum = m - 1
          /\ state.result.error = "NOT_IMPLEMENTED" => ~ Declared(message.headers[m].name)
    BY <1>10, <2>1 DEF FirstSpoilt
  <2>3. R.error = "NOT_IMPLEMENTED" => state.result.error = "NOT_IMPLEMENTED"
    BY <1>11
  <2>4. QED
    BY <1>11, <2>2, <2>3
<1>16. R.key = message.key /\ R.payload = message.payload
  BY <1>5, <1>11
<1>17. QED
  BY <1>11, <1>12, <1>13, <1>14, <1>15, <1>16 DEF Tells, R


-------------------------------------------------------------------------------
(* What the accessors tell                                                 *)

\* An accessor of a message that was dropped or is none throws.
LEMMA ToldOfNone ==
  ASSUME NEW message, NEW skipUnknown, NEW received,
         message.error \/ "preprocessor" \in received.sources,
         received.sources \cap {"preprocessor", "kafka"} # {}, received.error # "none"
  PROVE  /\ ValuesTold(message, skipUnknown, received)
         /\ ErrorsTold(message, skipUnknown, received)
<1>1. \A source : ~ Valid(received, source)
  BY DEF Valid
<1>2. /\ GetKey(received) = "throws" /\ GetPayload(received) = "throws"
      /\ \A p : GetHeaderAt(received, p) = 0 /\ GetHeaderNamedAt(received, HeaderNames[p], p) = 0
  BY <1>1 DEF GetKey, GetPayload, GetHeaderAt, GetHeaderNamedAt
<1>3. ValuesTold(message, skipUnknown, received)
  BY <1>2 DEF ValuesTold
<1>4. ErrorsTold(message, skipUnknown, received)
  BY DEF ErrorsTold, GetError
<1>5. QED
  BY <1>3, <1>4

LEMMA ErrorsToldOfRead ==
  ASSUME NEW message, IsMessage(message), ~ message.error, NEW skipUnknown, NEW R,
         Tells(message, skipUnknown, R)
  PROVE  ErrorsTold(message, skipUnknown, R)
<1> DEFINE spoilt == Spoilt(message, skipUnknown)
<1>1. "preprocessor" \notin R.sources
  BY DEF Tells, Results
<1>2. R.error = "none" <=> message.key /\ message.payload /\ spoilt = {}
  BY DEF Tells
<1>3. spoilt = {} => R.headerNum = -1
  BY DEF Tells
<1>4. ASSUME spoilt # {},
             \A i \in 1 .. Min(spoilt) : Declared(message.headers[i].name) \/ i = Min(spoilt)
      PROVE  R.headerNum = Min(spoilt) - 1
  <2>1. PICK m \in spoilt :
          /\ \A k \in spoilt : m <= k
          /\ (\A k \in 1 .. m - 1 : Declared(message.headers[k].name)) => R.headerNum = m - 1
    BY <1>4 DEF Tells
  <2>2. spoilt \in SUBSET Nat /\ m \in Nat
    BY DEF Spoilt, IsMessage
  <2>3. Min(spoilt) = m
    <3> HIDE DEF spoilt
    <3> QED BY <2>1, <2>2, MinIs
  <2>4. \A k \in 1 .. m - 1 : k \in 1 .. m /\ k # m
    BY <2>2
  <2>5. \A k \in 1 .. m - 1 : Declared(message.headers[k].name)
    BY <1>4, <2>3, <2>4
  <2>6. QED
    BY <2>1, <2>3, <2>5
<1>5. QED
  BY <1>1, <1>2, <1>3, <1>4 DEF ErrorsTold, GetError, GetHeaderNumWithError

LEMMA ValuesToldOfRead ==
  ASSUME NEW message, IsMessage(message), ~ message.error, NEW skipUnknown, NEW R,
         Tells(message, skipUnknown, R)
  PROVE  ValuesTold(message, skipUnknown, R)
<1> DEFINE spoilt == Spoilt(message, skipUnknown)
           N == Len(message.headers)
           clean == spoilt = {}
<1>1. R \in Results /\ R.headers \in Entries /\ DOMAIN R.headers = DOMAIN HeaderNames
  BY DEF Tells, Results, Entries
<1>2. "preprocessor" \notin R.sources /\ "kafka" \notin R.sources
  BY <1>1 DEF Results
<1>3. /\ Valid(R, "key") <=> message.key
      /\ Valid(R, "payload") <=> message.payload
      /\ Valid(R, "header") <=> clean
  BY <1>2 DEF Tells, Valid
<1>4. GetKey(R) # "throws" <=> message.key
  BY <1>3 DEF GetKey, Tells
<1>5. GetPayload(R) # "throws" <=> message.payload
  BY <1>3 DEF GetPayload, Tells
<1>6. ASSUME ~ clean, NEW p \in DOMAIN HeaderNames
      PROVE  GetHeaderAt(R, p) = 0 /\ GetHeaderNamedAt(R, HeaderNames[p], p) = 0
  BY <1>3, <1>6 DEF GetHeaderAt, GetHeaderNamedAt
<1>7. ASSUME clean, NEW p \in DOMAIN HeaderNames
      PROVE  /\ HeadersAt(message, p) = {} => R.headers[p].name = "" /\ R.headers[p].value = 0
             /\ HeadersAt(message, p) # {} =>
                  /\ R.headers[p].name = HeaderNames[p] /\ R.headers[p].value # 0
                  /\ R.headers[p].value = Max(HeadersAt(message, p))
  <2> DEFINE at == HeadersAt(message, p)
             entry == R.headers[p]
  <2>1. EntryTells(message, p, N, R.headers[p])
    BY <1>7 DEF Tells
  <2>2. at \cap (1 .. N) = at /\ at \in SUBSET Nat /\ 0 \notin at
    BY DEF HeadersAt, IsMessage
  <2>3. IF at = {} THEN entry.name = "" /\ entry.value = 0
        ELSE entry.name = HeaderNames[p] /\ entry.value \in at /\ \A k \in at : k <= entry.value
    BY <2>1, <2>2 DEF EntryTells
  <2> HIDE DEF at, entry
  <2>4. CASE at = {}
    <3>1. entry.name = "" /\ entry.value = 0
      BY <2>3, <2>4
    <3>2. QED
      BY <2>4, <3>1 DEF at, entry
  <2>5. CASE at # {}
    <3>1. PICK m \in at : m = entry.value /\ \A k \in at : k <= m
      BY <2>3, <2>5
    <3>2. Max(at) = m
      BY <2>2, <3>1, MaxIs
    <3>3. entry.name = HeaderNames[p] /\ entry.value # 0 /\ entry.value = Max(at)
      BY <2>2, <2>3, <2>5, <3>1, <3>2
    <3>4. QED
      BY <2>5, <3>3 DEF at, entry
  <2>6. QED
    BY <2>4, <2>5
<1>8. ASSUME clean, NEW p \in DOMAIN HeaderNames
      PROVE  /\ GetAt(R, p) = R.headers[p].value
             /\ GetHeaderAt(R, p) = R.headers[p].value
             /\ GetHeaderNamedAt(R, HeaderNames[p], p) = R.headers[p].value
  <2>1. GetAt(R, p) = R.headers[p].value
    BY <1>1 DEF GetAt
  <2>2. GetHeaderAt(R, p) = R.headers[p].value
    BY <1>1, <1>3, <1>8, <2>1 DEF GetHeaderAt, IsHeaderValidAt
  <2>3. GetHeaderNamedAt(R, HeaderNames[p], p) = R.headers[p].value
    <3>1. HeadersAt(message, p) # {} => SameName(R.headers[p].name, HeaderNames[p])
      BY <1>7, <1>8 DEF SameName
    <3>2. HeadersAt(message, p) = {} => R.headers[p].value = 0
      BY <1>7, <1>8
    <3>3. QED
      BY <1>3, <1>8, <2>1, <3>1, <3>2 DEF GetHeaderNamedAt
  <2>4. QED
    BY <2>1, <2>2, <2>3
<1>9. ASSUME clean, NEW p \in DOMAIN HeaderNames, HeadersAt(message, p) # {},
             \A q \in DOMAIN HeaderNames \ {p} : ~ SameName(NameAt(message, q), HeaderNames[p])
      PROVE  GetHeader(R, HeaderNames[p]) = Max(HeadersAt(message, p))
  <2>1. \A q \in DOMAIN HeaderNames : R.headers[q].name = NameAt(message, q)
    BY <1>7, <1>9 DEF NameAt
  <2>2. SameName(R.headers[p].name, HeaderNames[p])
    BY <1>7, <1>9 DEF SameName
  <2>3. {q \in DOMAIN R.headers : SameName(R.headers[q].name, HeaderNames[p])} = {p}
    <3>1. \A q \in DOMAIN HeaderNames : SameName(R.headers[q].name, HeaderNames[p]) => q = p
      BY <1>9, <2>1
    <3>2. QED
      BY <1>1, <2>2, <3>1
  <2>4. p \in Nat /\ Min({p}) = p
    <3>1. p \in Nat
      BY NamesFacts
    <3>2. {p} \in SUBSET Nat /\ p \in {p} /\ \A n \in {p} : p <= n
      BY <3>1
    <3>3. QED
      BY <3>1, <3>2, MinIs
  <2>5. FirstNamed(R, HeaderNames[p]) = p
    BY <2>3, <2>4 DEF FirstNamed, First
  <2>6. GetHeader(R, HeaderNames[p]) = GetAt(R, p)
    BY <1>3, <1>9, <2>5 DEF GetHeader
  <2>7. QED
    BY <1>7, <1>8, <1>9, <2>6
<1>10. ASSUME clean
       PROVE  NumValidHeaders(R) = Cardinality({p \in DOMAIN HeaderNames : HeadersAt(message, p) # {}})
  <2>1. \A p \in DOMAIN HeaderNames : GetAt(R, p) # 0 <=> HeadersAt(message, p) # {}
    BY <1>7, <1>8, <1>10
  <2>2. {p \in DOMAIN R.headers : GetAt(R, p) # 0}
          = {p \in DOMAIN HeaderNames : HeadersAt(message, p) # {}}
    BY <1>1, <2>1
  <2>3. QED
    BY <2>2 DEF NumValidHeaders
<1>11. ASSUME NEW p \in DOMAIN HeaderNames
       PROVE  /\ GetHeaderAt(R, p) = IF clean /\ HeadersAt(message, p) # {}
                                     THEN Max(HeadersAt(message, p)) ELSE 0
              /\ GetHeaderNamedAt(R, HeaderNames[p], p) = GetHeaderAt(R, p)
  <2>1. CASE clean
    BY <1>7, <1>8, <2>1
  <2>2. CASE ~ clean
    BY <1>6, <2>2
  <2>3. QED
    BY <2>1, <2>2
<1> HIDE DEF clean
<1>12. QED
  BY <1>2, <1>4, <1>5, <1>9, <1>10, <1>11 DEF ValuesTold, clean


-------------------------------------------------------------------------------
(* What was sent                                                           *)

\* The headers that are given up to position p.
GivenUpTo(parts, p) == {q \in 1 .. p : parts[q] # "null"}

\* What has been made of them: each one is as far on as there are others before it.
SerializedUpTo(parts, p, raw) ==
  LET Rank(q) == Cardinality(GivenUpTo(parts, q))
  IN  /\ raw \in Seq([name : DOMAIN LowerCase, part : Parts])
      /\ Len(raw) = Rank(p)
      /\ \A q \in GivenUpTo(parts, p) : Rank(q) \in 1 .. Rank(p) /\ raw[Rank(q)].name = HeaderNames[q]
      /\ \A i \in 1 .. Rank(p) : \E q \in GivenUpTo(parts, p) : i = Rank(q)

AllParts == [DOMAIN HeaderNames -> Parts \union {"null"}]

LEMMA GivenFacts ==
  ASSUME NEW parts, NEW p \in Nat
  PROVE  /\ GivenUpTo(parts, 0) = {} /\ Cardinality(GivenUpTo(parts, 0)) = 0
         /\ GivenUpTo(parts, p) \subseteq 1 .. p
         /\ Cardinality(GivenUpTo(parts, p)) \in Nat
         /\ parts[p + 1] = "null" => GivenUpTo(parts, p + 1) = GivenUpTo(parts, p)
         /\ parts[p + 1] # "null" =>
              /\ GivenUpTo(parts, p + 1) = GivenUpTo(parts, p) \union {p + 1}
              /\ Cardinality(GivenUpTo(parts, p + 1)) = Cardinality(GivenUpTo(parts, p)) + 1
<1>1. IsFiniteSet(GivenUpTo(parts, p))
  <2>1. GivenUpTo(parts, p) \subseteq 1 .. p
    BY DEF GivenUpTo
  <2>2. IsFiniteSet(1 .. p)
    BY FS_Interval
  <2>3. QED
    BY <2>1, <2>2, FS_Subset
<1>2. Cardinality(GivenUpTo(parts, p)) \in Nat
  BY <1>1, FS_CardinalityType
<1>3. 1 .. p + 1 = (1 .. p) \union {p + 1} /\ p + 1 \notin 1 .. p
  OBVIOUS
<1>4. parts[p + 1] = "null" => GivenUpTo(parts, p + 1) = GivenUpTo(parts, p)
  BY <1>3 DEF GivenUpTo
<1>5. parts[p + 1] # "null" => GivenUpTo(parts, p + 1) = GivenUpTo(parts, p) \union {p + 1}
  BY <1>3 DEF GivenUpTo
<1>6. p + 1 \notin GivenUpTo(parts, p)
  BY <1>3 DEF GivenUpTo
<1>7. Cardinality(GivenUpTo(parts, p) \union {p + 1}) = Cardinality(GivenUpTo(parts, p)) + 1
  BY <1>1, <1>6, FS_AddElement
<1>8. GivenUpTo(parts, 0) = {}
  BY DEF GivenUpTo
<1>9. Cardinality(GivenUpTo(parts, 0)) = 0
  BY <1>8, FS_EmptySet
<1>10. GivenUpTo(parts, p) \subseteq 1 .. p
  BY DEF GivenUpTo
<1>11. QED
  BY <1>2, <1>4, <1>5, <1>7, <1>8, <1>9, <1>10

LEMMA SerializesOne ==
  ASSUME NEW parts \in AllParts, NEW p \in Nat, p + 1 \in DOMAIN HeaderNames,
         NEW raw, SerializedUpTo(parts, p, raw),
         NEW next, next = SerializeHeader(parts, p + 1, raw)
  PROVE  SerializedUpTo(parts, p + 1, next)
<1> DEFINE Rank(q) == Cardinality(GivenUpTo(parts, q))
           Before(q) == GivenUpTo(parts, q)
           Header == [name : DOMAIN LowerCase, part : Parts]
<1>1. /\ raw \in Seq(Header) /\ Len(raw) = Rank(p)
      /\ \A q \in Before(p) : Rank(q) \in 1 .. Rank(p) /\ raw[Rank(q)].name = HeaderNames[q]
      /\ \A i \in 1 .. Rank(p) : \E q \in Before(p) : i = Rank(q)
  BY DEF SerializedUpTo
<1>2. /\ Rank(p) \in Nat
      /\ parts[p + 1] = "null" => Before(p + 1) = Before(p)
      /\ parts[p + 1] # "null" =>
           /\ Before(p + 1) = Before(p) \union {p + 1}
           /\ Rank(p + 1) = Rank(p) + 1
  BY GivenFacts
<1>3. CASE parts[p + 1] = "null"
  <2>1. Rank(p + 1) = Rank(p) /\ Before(p + 1) = Before(p) /\ next = raw
    BY <1>2, <1>3 DEF SerializeHeader
  <2> HIDE DEF Rank, Before
  <2>2. QED
    BY <1>1, <2>1 DEF SerializedUpTo, Rank, Before
<1>4. CASE parts[p + 1] # "null"
  <2> DEFINE header == [name |-> HeaderNames[p + 1], part |-> parts[p + 1]]
  <2>1. header \in Header
    <3>1. HeaderNames[p + 1] \in DOMAIN LowerCase
      BY NamesFacts
    <3>2. parts[p + 1] \in Parts
      BY <1>4 DEF AllParts
    <3>3. QED
      BY <3>1, <3>2
  <2>2. next = Append(raw, header)
    BY <1>4 DEF SerializeHeader
  <2>3. header.name = HeaderNames[p + 1]
    OBVIOUS
  <2>4. Before(p + 1) = Before(p) \union {p + 1} /\ Rank(p + 1) = Rank(p) + 1
    BY <1>2, <1>4
  <2> HIDE DEF Rank, Before, header, Header
  <2>5. PICK m \in Nat : m = Rank(p)
    BY <1>2
  <2>6. /\ next \in Seq(Header) /\ Len(next) = m + 1 /\ next[m + 1] = header
        /\ \A i \in 1 .. m : next[i] = raw[i]
    <3>1. raw \in Seq(Header) /\ Len(raw) = m
      BY <1>1, <2>5
    <3>2. QED
      BY ONLY <2>1, <2>2, <3>1
  <2>7. \A q \in Before(p) : Rank(q) \in 1 .. m + 1 /\ next[Rank(q)].name = HeaderNames[q]
    <3>1. \A q \in Before(p) : Rank(q) \in 1 .. m /\ raw[Rank(q)].name = HeaderNames[q]
      BY <1>1, <2>5
    <3>2. 1 .. m \subseteq 1 .. m + 1
      OBVIOUS
    <3>3. QED
      BY <2>6, <3>1, <3>2
  <2>8. Rank(p + 1) \in 1 .. m + 1 /\ next[Rank(p + 1)].name = HeaderNames[p + 1]
    BY <2>3, <2>4, <2>5, <2>6
  <2>9. \A q \in Before(p + 1) : Rank(q) \in 1 .. Rank(p + 1) /\ next[Rank(q)].name = HeaderNames[q]
    BY <2>4, <2>5, <2>7, <2>8
  <2>10. \A i \in 1 .. Rank(p + 1) : \E q \in Before(p + 1) : i = Rank(q)
    <3>1. ASSUME NEW i \in 1 .. Rank(p + 1)
          PROVE  \E q \in Before(p + 1) : i = Rank(q)
      <4>1. i \in 1 .. m \/ i = m + 1
        BY <2>4, <2>5
      <4>2. QED
        BY <1>1, <2>4, <2>5, <4>1
    <3>2. QED
      BY <3>1
  <2>11. Len(next) = Rank(p + 1)
    BY <2>4, <2>5, <2>6
  <2>12. QED
    BY <2>6, <2>9, <2>10, <2>11 DEF SerializedUpTo, Rank, Before, Header
<1>5. QED
  BY <1>3, <1>4

LEMMA SerializeTurns ==
  ASSUME NEW parts, Len(parts) \in Nat
  PROVE  \E upTo :
           /\ upTo[0] = <<>>
           /\ \A p \in 1 .. Len(parts) :
                upTo[p] = SerializeHeader(parts, p, upTo[p - 1])
           /\ SerializeHeaders(parts) = upTo[Len(parts)]
<1> DEFINE N == Len(parts)
           Value(t, n) == IF n = 0 THEN <<>> ELSE SerializeHeader(parts, n, t[n - 1])
           Known == {n \in 0 .. N : \E t : t = [m \in 0 .. n |-> Value(t, m)]}
<1>1. 0 \in Known
  <2> DEFINE t == [m \in 0 .. 0 |-> <<>>]
  <2>1. t = [m \in 0 .. 0 |-> Value(t, m)]
    OBVIOUS
  <2>2. 0 \in 0 .. N
    OBVIOUS
  <2> HIDE DEF t, Value
  <2>3. QED
    BY <2>1, <2>2
<1>2. ASSUME NEW n \in Known, n < N PROVE n + 1 \in Known
  <2>1. n \in 0 .. N /\ n \in Nat
    OBVIOUS
  <2>2. PICK t : t = [m \in 0 .. n |-> Value(t, m)]
    BY <1>2
  <2> DEFINE u == [m \in 0 .. n + 1 |-> IF m <= n THEN t[m] ELSE Value(t, m)]
  <2>3. ASSUME NEW m \in 0 .. n + 1 PROVE u[m] = Value(u, m)
    <3>1. u[m] = Value(t, m)
      BY <2>1, <2>2
    <3>2. m # 0 => m - 1 \in 0 .. n
      BY <2>1
    <3>3. m # 0 => u[m - 1] = t[m - 1]
      BY <2>1, <3>2
    <3> HIDE DEF u
    <3>4. QED
      BY <3>1, <3>3
  <2>4. u = [m \in 0 .. n + 1 |-> Value(u, m)]
    BY <2>3
  <2>5. n + 1 \in 0 .. N
    BY <1>2, <2>1
  <2> HIDE DEF u, Value
  <2>6. QED
    BY <2>4, <2>5
<1>3. N \in Known
  <2>1. Known \in SUBSET (0 .. N) /\ N \in Nat
    OBVIOUS
  <2> HIDE DEF Known, N
  <2>2. QED
    BY <1>1, <1>2, <2>1, CountUp
<1> DEFINE upTo == CHOOSE t : t = [n \in 0 .. N |-> Value(t, n)]
<1>4. upTo = [n \in 0 .. N |-> Value(upTo, n)]
  BY <1>3
<1>5. SerializeHeaders(parts) = upTo[N]
  BY DEF SerializeHeaders
<1> HIDE DEF upTo
<1>6. upTo[0] = <<>> /\ \A p \in 1 .. N : upTo[p] = Value(upTo, p)
  BY <1>4
<1>7. QED
  BY <1>5, <1>6

LEMMA SerializedFacts ==
  ASSUME NEW parts \in AllParts
  PROVE  SerializedUpTo(parts, Len(HeaderNames), SerializeHeaders(parts))
<1> DEFINE N == Len(HeaderNames)
<1>1. N \in Nat /\ DOMAIN HeaderNames = 1 .. N
  BY NamesFacts
<1>2. Len(parts) = N
  BY <1>1 DEF AllParts
<1>3. PICK upTo :
        /\ upTo[0] = <<>>
        /\ \A p \in 1 .. N :
             upTo[p] = SerializeHeader(parts, p, upTo[p - 1])
        /\ SerializeHeaders(parts) = upTo[N]
  BY <1>1, <1>2, SerializeTurns
<1> DEFINE Reached == {n \in 0 .. N : SerializedUpTo(parts, n, upTo[n])}
<1>4. 0 \in Reached
  <2>1. GivenUpTo(parts, 0) = {} /\ Cardinality(GivenUpTo(parts, 0)) = 0
    BY GivenFacts
  <2>2. upTo[0] \in Seq([name : DOMAIN LowerCase, part : Parts]) /\ Len(upTo[0]) = 0
    BY <1>3
  <2>3. 1 .. 0 = {}
    OBVIOUS
  <2>4. SerializedUpTo(parts, 0, upTo[0])
    BY <2>1, <2>2, <2>3 DEF SerializedUpTo
  <2>5. QED
    BY <1>1, <2>4
<1>5. ASSUME NEW n \in Reached, n < N PROVE n + 1 \in Reached
  <2>1. n \in Nat /\ n + 1 \in 1 .. N /\ (n + 1) - 1 = n
    BY <1>1, <1>5
  <2>2. PICK raw, next : raw = upTo[n] /\ next = upTo[n + 1]
    OBVIOUS
  <2>3. next = SerializeHeader(parts, n + 1, raw)
    BY <1>3, <2>1, <2>2
  <2>4. SerializedUpTo(parts, n, raw)
    BY <2>2
  <2>5. SerializedUpTo(parts, n + 1, next)
    BY <1>1, <2>1, <2>3, <2>4, SerializesOne
  <2>6. QED
    BY <1>1, <2>1, <2>2, <2>5
<1>6. N \in Reached
  <2>1. Reached \in SUBSET (0 .. N)
    OBVIOUS
  <2> HIDE DEF Reached, N
  <2>2. QED
    BY <1>1, <1>4, <1>5, <2>1, CountUp
<1>7. QED
  BY <1>3, <1>6


\* A message that a producer of the topic has sent.
FromProducer(message) ==
  LET given == message.given
      raw   == SerializeHeaders(given.headers)
  IN  /\ given.headers \in AllParts /\ ~ message.error
      /\ DOMAIN message.headers = DOMAIN raw
      /\ \A i \in DOMAIN raw : message.headers[i].name = raw[i].name

\* The header that was given at a position is the only one that belongs there, and
\* none does where a NullHeader was given.
LEMMA SentAt ==
  ASSUME NEW message, FromProducer(message), NEW p \in DOMAIN HeaderNames, DeclaredOnce(p)
  PROVE  /\ message.given.headers[p] = "null" => HeadersAt(message, p) = {}
         /\ message.given.headers[p] # "null" =>
              /\ SentUpTo(message.given, p) \in Nat
              /\ HeadersAt(message, p) = {SentUpTo(message.given, p)}
<1> DEFINE parts == message.given.headers
           raw   == SerializeHeaders(parts)
           N     == Len(HeaderNames)
           Rank(q) == Cardinality(GivenUpTo(parts, q))
<1>1. parts \in AllParts /\ DOMAIN message.headers = DOMAIN raw
      /\ \A i \in DOMAIN raw : message.headers[i].name = raw[i].name
  BY DEF FromProducer
<1>2. SerializedUpTo(parts, N, raw)
  BY <1>1, SerializedFacts
<1>3. SentUpTo(message.given, p) = Rank(p)
  BY DEF SentUpTo, GivenUpTo
<1>4. /\ N \in Nat /\ DOMAIN HeaderNames = 1 .. N
  BY NamesFacts
<1>5. Rank(p) \in Nat
  <2>1. p \in Nat
    BY <1>4
  <2>2. QED
    BY <2>1, GivenFacts
<1> HIDE DEF parts, raw, N
<1>6. DOMAIN raw = 1 .. Rank(N)
  BY <1>2 DEF SerializedUpTo
<1>7. \A q \in GivenUpTo(parts, N) : Rank(q) \in DOMAIN raw /\ raw[Rank(q)].name = HeaderNames[q]
  BY <1>2, <1>6 DEF SerializedUpTo
<1>8. \A i \in DOMAIN raw : \E q \in GivenUpTo(parts, N) : i = Rank(q)
  BY <1>2, <1>6 DEF SerializedUpTo
<1>9. GivenUpTo(parts, N) = {q \in DOMAIN HeaderNames : parts[q] # "null"}
  BY <1>4 DEF GivenUpTo
<1> HIDE DEF Rank
<1>10. ASSUME NEW q \in DOMAIN HeaderNames
       PROVE  Position(HeaderNames[q]) = p <=> q = p
  <2>1. Position(HeaderNames[q]) \in DOMAIN HeaderNames
        /\ HeaderNames[Position(HeaderNames[q])] = HeaderNames[q]
    BY PositionFacts DEF Declared
  <2>2. Position(HeaderNames[q]) = p => q = p
    BY <2>1 DEF DeclaredOnce
  <2>3. q = p => Position(HeaderNames[q]) = p
    BY <2>1 DEF DeclaredOnce
  <2>4. QED
    BY <2>2, <2>3
<1>11. \A i \in HeadersAt(message, p) : parts[p] # "null" /\ i = Rank(p)
  <2>1. ASSUME NEW i \in HeadersAt(message, p)
        PROVE  parts[p] # "null" /\ i = Rank(p)
    <3>1. i \in DOMAIN raw /\ Position(message.headers[i].name) = p
      BY <1>1 DEF HeadersAt
    <3>2. PICK q \in GivenUpTo(parts, N) : i = Rank(q)
      BY <1>8, <3>1
    <3>3. message.headers[i].name = HeaderNames[q]
      BY <1>1, <1>7, <3>1, <3>2
    <3>4. q \in DOMAIN HeaderNames /\ parts[q] # "null"
      BY <1>9
    <3>5. q = p
      BY <1>10, <3>1, <3>3, <3>4
    <3>6. QED
      BY <3>2, <3>4, <3>5
  <2>2. QED
    BY <2>1
<1>12. parts[p] # "null" => Rank(p) \in HeadersAt(message, p)
  <2>1. SUFFICES ASSUME parts[p] # "null" PROVE Rank(p) \in HeadersAt(message, p)
    OBVIOUS
  <2>2. Rank(p) \in DOMAIN raw /\ raw[Rank(p)].name = HeaderNames[p]
    BY <1>7, <1>9, <2>1
  <2>3. Position(message.headers[Rank(p)].name) = p
    BY <1>1, <1>10, <2>2
  <2>4. QED
    BY <1>1, <2>2, <2>3 DEF HeadersAt
<1>13. QED
  BY <1>3, <1>5, <1>11, <1>12 DEF parts

LEMMA GivenBackIfTold ==
  ASSUME NEW message, IsMessage(message), FromProducer(message), NEW skipUnknown, NEW received,
         ValuesTold(message, skipUnknown, received),
         "preprocessor" \in received.sources
           \/ Tells(message, skipUnknown, received),
         "preprocessor" \in received.sources => received.error # "NOT_IMPLEMENTED"
  PROVE  GivenBack(message, received)
<1> DEFINE spoilt == Spoilt(message, skipUnknown)
           raw == SerializeHeaders(message.given.headers)
           allDecode == \A i \in DOMAIN message.headers : message.headers[i].decodes
           clean == "preprocessor" \notin received.sources /\ spoilt = {}
<1>1. \A i \in DOMAIN message.headers : Declared(message.headers[i].name)
  <2>1. ASSUME NEW i \in DOMAIN message.headers
        PROVE  Declared(message.headers[i].name)
    <3>1. message.given.headers \in AllParts /\ i \in DOMAIN raw /\ message.headers[i].name = raw[i].name
      BY DEF FromProducer
    <3>2. SerializedUpTo(message.given.headers, Len(HeaderNames), raw)
      BY <3>1, SerializedFacts
    <3>3. i \in 1 .. Cardinality(GivenUpTo(message.given.headers, Len(HeaderNames)))
      BY <3>1, <3>2 DEF SerializedUpTo
    <3>4. PICK q \in GivenUpTo(message.given.headers, Len(HeaderNames)) : raw[i].name = HeaderNames[q]
      BY <3>2, <3>3 DEF SerializedUpTo
    <3>5. q \in DOMAIN HeaderNames
      BY NamesFacts DEF GivenUpTo
    <3>6. QED
      BY <3>1, <3>4, <3>5 DEF Declared
  <2>2. QED
    BY <2>1
<1>2. spoilt = {} <=> allDecode
  BY <1>1 DEF Spoilt
<1>3. GetError(received) # "NOT_IMPLEMENTED"
  <2>1. CASE "preprocessor" \in received.sources
    BY <2>1 DEF GetError
  <2>2. CASE Tells(message, skipUnknown, received)
    <3>1. spoilt = {} => received.error # "NOT_IMPLEMENTED"
      BY <2>2 DEF Tells
    <3>2. spoilt # {} => \E m \in spoilt :
            received.error = "NOT_IMPLEMENTED" => ~ Declared(message.headers[m].name)
      BY <2>2 DEF Tells
    <3>3. \A m \in spoilt : Declared(message.headers[m].name)
      BY <1>1 DEF Spoilt
    <3>4. QED
      BY <3>1, <3>2, <3>3 DEF GetError
  <2>3. QED
    BY <2>1, <2>2
<1>4. ASSUME NEW p \in DOMAIN HeaderNames, DeclaredOnce(p)
      PROVE  GetHeaderAt(received, p) =
               IF clean /\ message.given.headers[p] # "null" THEN SentUpTo(message.given, p) ELSE 0
  <2>1. GetHeaderAt(received, p) = IF clean /\ HeadersAt(message, p) # {}
                                   THEN Max(HeadersAt(message, p)) ELSE 0
    <3>1. ~ message.error
      BY DEF FromProducer
    <3>2. QED
      BY <3>1 DEF ValuesTold
  <2>2. /\ message.given.headers[p] = "null" => HeadersAt(message, p) = {}
        /\ message.given.headers[p] # "null" =>
             /\ SentUpTo(message.given, p) \in Nat
             /\ HeadersAt(message, p) = {SentUpTo(message.given, p)}
    BY <1>4, SentAt
  <2>3. \A n \in Nat : Max({n}) = n
    <3>1. ASSUME NEW n \in Nat PROVE Max({n}) = n
      <4>1. {n} \in SUBSET Nat /\ n \in {n} /\ \A k \in {n} : k <= n
        OBVIOUS
      <4>2. QED
        BY <4>1, MaxIs
    <3>2. QED
      BY <3>1
  <2> HIDE DEF clean
  <2>4. QED
    BY <2>1, <2>2, <2>3
<1>5. QED
  BY <1>2, <1>3, <1>4 DEF GivenBack

-------------------------------------------------------------------------------
(* The messages that are read                                              *)

MessagesInv ==
  /\ Len(batch) \in Nat /\ DOMAIN batch = 1 .. Len(batch)
  /\ \A i \in DOMAIN batch :
       IsMessage(batch[i]) /\ (IsSent(batch[i]) => FromProducer(batch[i]))

ReadRecord == [error : BOOLEAN, key : BOOLEAN, payload : BOOLEAN, headers : Seq(RawHeaders)]

LEMMA ReadIsMessage ==
  ASSUME NEW message \in ReadRecord
  PROVE  IsMessage(message) /\ ~ IsSent(message)
<1>1. message.headers \in Seq(RawHeaders)
  BY DEF ReadRecord
<1>2. IsMessage(message)
  BY <1>1 DEF ReadRecord, IsMessage
<1>3. DOMAIN message = {"error", "key", "payload", "headers"}
  BY DEF ReadRecord
<1>4. QED
  BY <1>2, <1>3 DEF IsSent

LEMMA SingleIsMessage ==
  ASSUME NEW message \in Messages(MaxHeaders)
  PROVE  message \in ReadRecord
<1>1. ASSUME NEW h \in SeqOf(RawHeaders, MaxHeaders)
      PROVE  h \in Seq(RawHeaders)
  <2>1. PICK m \in 0 .. MaxHeaders : h \in [1 .. m -> RawHeaders]
    BY DEF SeqOf
  <2>2. m \in Nat
    BY BatchAssumption
  <2>3. QED
    BY <2>1, <2>2
<1>2. CASE \E k \in BOOLEAN, p \in BOOLEAN, h \in SeqOf(RawHeaders, MaxHeaders) :
             message = [error |-> FALSE, key |-> k, payload |-> p, headers |-> h]
  <2>1. PICK k \in BOOLEAN, p \in BOOLEAN, h \in SeqOf(RawHeaders, MaxHeaders) :
          message = [error |-> FALSE, key |-> k, payload |-> p, headers |-> h]
    BY <1>2
  <2>2. h \in Seq(RawHeaders)
    BY <1>1
  <2>3. QED
    BY <2>1, <2>2 DEF ReadRecord
<1>3. CASE message = [error |-> TRUE, key |-> FALSE, payload |-> FALSE, headers |-> <<>>]
  <2>1. <<>> \in Seq(RawHeaders)
    OBVIOUS
  <2>2. QED
    BY <1>3, <2>1 DEF ReadRecord
<1>4. QED
  BY <1>2, <1>3 DEF Messages

LEMMA SentIsMessage ==
  ASSUME NEW message \in SentMessages
  PROVE  IsMessage(message) /\ FromProducer(message)
<1>1. PICK given \in HandedIn : message \in Polled(given)
  BY DEF SentMessages
<1> DEFINE raw == SerializeHeaders(given.headers)
<1>2. given.headers \in AllParts
  BY DEF HandedIn, AllParts
<1>3. raw \in Seq([name : DOMAIN LowerCase, part : Parts])
  BY <1>2, SerializedFacts DEF SerializedUpTo
<1>4. PICK k \in BOOLEAN, p \in BOOLEAN, accepted \in [DOMAIN raw -> BOOLEAN] :
        message = [error |-> FALSE, key |-> k, payload |-> p, given |-> given,
                   headers |-> [i \in DOMAIN raw |-> [name |-> raw[i].name, decodes |-> accepted[i]]]]
  BY <1>1 DEF Polled
<1> HIDE DEF raw
<1> DEFINE headers == [i \in DOMAIN raw |-> [name |-> raw[i].name, decodes |-> accepted[i]]]
<1>5. DOMAIN headers = DOMAIN raw /\ \A i \in DOMAIN raw : headers[i].name = raw[i].name
  OBVIOUS
<1>6. Len(raw) \in Nat /\ DOMAIN raw = 1 .. Len(raw)
  BY <1>3
<1>7. Len(headers) = Len(raw)
  BY <1>6
<1> HIDE DEF headers
<1>8. /\ message.error = FALSE /\ message.key = k /\ message.payload = p
      /\ message.given = given /\ message.headers = headers
  BY <1>4 DEF headers
<1>9. IsMessage(message)
  BY <1>5, <1>6, <1>7, <1>8 DEF IsMessage
<1>10. FromProducer(message)
  BY <1>2, <1>5, <1>8 DEF FromProducer, raw
<1>11. QED
  BY <1>9, <1>10

LEMMA InitMessages == Init => MessagesInv
<1>1. ASSUME Init PROVE MessagesInv
  <2>1. batch = <<>>
    BY <1>1 DEF Init
  <2>2. Len(batch) = 0 /\ DOMAIN batch = {} /\ DOMAIN batch = 1 .. Len(batch)
    BY <2>1, EmptySequence
  <2>3. QED
    BY <2>2 DEF MessagesInv
<1>2. QED
  BY <1>1

LEMMA NextMessages == MessagesInv /\ [Next]_vars => MessagesInv'
<1> SUFFICES ASSUME MessagesInv, [Next]_vars PROVE MessagesInv'
  OBVIOUS
<1>1. CASE UNCHANGED batch
  BY <1>1 DEF MessagesInv
<1>2. ASSUME NEW n \in 0 .. Len(ReadBatch), NextBatch(n)
      PROVE  MessagesInv'
  <2>1. batch' = SubSeq(ReadBatch, 1, n)
    BY <1>2 DEF NextBatch
  <2>2. ReadBatch \in Seq(ReadRecord)
    BY BatchAssumption DEF ReadRecord
  <2>3. /\ Len(batch') = n /\ n \in Nat /\ DOMAIN batch' = 1 .. n
        /\ \A i \in 1 .. n : batch'[i] = ReadBatch[i] /\ ReadBatch[i] \in ReadRecord
    BY <2>1, <2>2
  <2>4. \A i \in 1 .. n : batch'[i] \in ReadRecord
    BY <2>3
  <2>5. QED
    BY <2>3, <2>4, ReadIsMessage DEF MessagesInv
<1>3. ASSUME NEW message \in SingleMessages, NEW answer \in {"drop", "keep"},
             ReadSingly(message, answer)
      PROVE  MessagesInv'
  <2>1. batch' = <<message>>
    BY <1>3 DEF ReadSingly
  <2>2. Len(batch') = 1 /\ DOMAIN batch' = 1 .. 1 /\ \A i \in 1 .. 1 : batch'[i] = message
    BY <2>1
  <2>3. IsMessage(message) /\ (IsSent(message) => FromProducer(message))
    <3>1. CASE message \in Messages(MaxHeaders)
      BY <3>1, SingleIsMessage, ReadIsMessage
    <3>2. CASE message \in SentMessages
      BY <3>2, SentIsMessage
    <3>3. QED
      BY <3>1, <3>2 DEF SingleMessages
  <2>4. QED
    BY <2>2, <2>3 DEF MessagesInv
<1>4. CASE PassOn
  <2>1. batch' = <<>>
    BY <1>4 DEF PassOn
  <2>2. Len(batch') = 0 /\ DOMAIN batch' = {} /\ DOMAIN batch' = 1 .. Len(batch')
    BY <2>1, EmptySequence
  <2>3. QED
    BY <2>2 DEF MessagesInv
<1>5. CASE Begin \/ PreprocessingEnds \/ DeserializingEnds
  BY <1>1, <1>5 DEF Begin, PreprocessingEnds, DeserializingEnds
<1>6. ASSUME NEW i \in DOMAIN worker, WorkerStep(i)
      PROVE  MessagesInv'
  <2>1. UNCHANGED batch
    BY <1>6 DEF WorkerStep, Judge, JudgeOutside, Store, LeaveRest, PassOver, Settle
  <2>2. QED
    BY <1>1, <2>1
<1>7. ASSUME NEW enable \in BOOLEAN, Preprocess(enable)
      PROVE  MessagesInv'
  BY <1>1, <1>7 DEF Preprocess
<1>8. CASE UNCHANGED vars
  BY <1>1, <1>8 DEF vars
<1>9. QED
  BY <1>2, <1>3, <1>4, <1>5, <1>6, <1>7, <1>8 DEF Next

LEMMA AlwaysMessages == Spec => []MessagesInv
<1>1. QED
  BY InitMessages, NextMessages, PTL DEF Spec

\* What the receiver is given of a settled message: none, or what was read.
LEMMA ReceivedIs ==
  ASSUME NEW j, IsSettled(j), IsMessage(batch[j + 1])
  PROVE  LET message == batch[j + 1]
             received == ToReceiver(j)
         IN  \/ /\ message.error \/ "preprocessor" \in received.sources
                /\ received.sources \cap {"preprocessor", "kafka"} # {}
                /\ received.error \in {"kafka", "BAD_MSG"}
             \/ ~ message.error /\ Tells(message, config.skipUnknown, received)
<1> DEFINE message  == batch[j + 1]
           received == ToReceiver(j)
<1>1. received = IF message.error /\ outcome[j].error = "none"
                 THEN Flagged(outcome[j], "kafka", "kafka") ELSE outcome[j]
  BY DEF ToReceiver, Received
<1>2. CASE outcome[j] = Dropped
  <2>1. outcome[j].error = "BAD_MSG" /\ outcome[j].sources = {"preprocessor"}
    BY <1>2 DEF Dropped, Flagged, NotDeserialized
  <2>2. QED
    BY <1>1, <2>1
<1>3. CASE PassedOn(j)
  <2>1. message.error /\ outcome[j] = NotDeserialized
    BY <1>3 DEF PassedOn
  <2>2. received = Flagged(NotDeserialized, "kafka", "kafka")
    BY <1>1, <2>1 DEF NotDeserialized
  <2>3. received.error = "kafka" /\ received.sources = {"kafka"}
    BY <2>2 DEF Flagged, NotDeserialized
  <2>4. QED
    BY <2>1, <2>3
<1>4. CASE outcome[j] = DeserializeMessage(message, config.skipUnknown) /\ message.error
  <2>1. outcome[j] = Flagged(NotDeserialized, "kafka", "kafka")
    BY <1>4 DEF DeserializeMessage
  <2>2. outcome[j].error = "kafka" /\ outcome[j].sources = {"kafka"}
    BY <2>1 DEF Flagged, NotDeserialized
  <2>3. QED
    BY <1>1, <1>4, <2>2
<1>5. CASE outcome[j] = DeserializeMessage(message, config.skipUnknown) /\ ~ message.error
  <2>1. received = DeserializeMessage(message, config.skipUnknown)
    BY <1>1, <1>5
  <2>2. Tells(message, config.skipUnknown, received)
    BY <1>5, <2>1, DeserializedTells
  <2>3. QED
    BY <1>5, <2>2
<1>6. QED
  BY <1>2, <1>3, <1>4, <1>5 DEF IsSettled

LEMMA SettledIsTold ==
  ASSUME NEW j, IsSettled(j), IsMessage(batch[j + 1])
  PROVE  /\ ValuesTold(batch[j + 1], config.skipUnknown, ToReceiver(j))
         /\ ErrorsTold(batch[j + 1], config.skipUnknown, ToReceiver(j))
<1>1. PICK message, received : message = batch[j + 1] /\ received = ToReceiver(j)
  OBVIOUS
<1>2. \/ /\ message.error \/ "preprocessor" \in received.sources
         /\ received.sources \cap {"preprocessor", "kafka"} # {}
         /\ received.error \in {"kafka", "BAD_MSG"}
      \/ ~ message.error /\ Tells(message, config.skipUnknown, received)
  BY <1>1, ReceivedIs
<1>3. IsMessage(message)
  BY <1>1
<1>4. /\ ValuesTold(message, config.skipUnknown, received)
      /\ ErrorsTold(message, config.skipUnknown, received)
  <2>1. CASE ~ message.error /\ Tells(message, config.skipUnknown, received)
    BY <1>3, <2>1, ValuesToldOfRead, ErrorsToldOfRead
  <2>2. CASE /\ message.error \/ "preprocessor" \in received.sources
             /\ received.sources \cap {"preprocessor", "kafka"} # {}
             /\ received.error \in {"kafka", "BAD_MSG"}
    <3>1. received.error # "none"
      BY <2>2
    <3>2. QED
      BY <2>2, <3>1, ToldOfNone
  <2>3. QED
    BY <1>2, <2>1, <2>2
<1>5. QED
  BY <1>1, <1>4

LEMMA SettledIsGivenBack ==
  ASSUME NEW j, IsSettled(j), IsMessage(batch[j + 1]), FromProducer(batch[j + 1])
  PROVE  GivenBack(batch[j + 1], ToReceiver(j))
<1>1. PICK message, received : message = batch[j + 1] /\ received = ToReceiver(j)
  OBVIOUS
<1>2. \/ /\ message.error \/ "preprocessor" \in received.sources
         /\ received.error \in {"kafka", "BAD_MSG"}
      \/ ~ message.error /\ Tells(message, config.skipUnknown, received)
  BY <1>1, ReceivedIs
<1>3. ValuesTold(message, config.skipUnknown, received)
  BY <1>1, SettledIsTold
<1>4. IsMessage(message) /\ FromProducer(message) /\ ~ message.error
  BY <1>1 DEF FromProducer
<1>5. "preprocessor" \in received.sources => ~ Tells(message, config.skipUnknown, received)
  BY DEF Tells, Results
<1>6. "preprocessor" \in received.sources => received.error # "NOT_IMPLEMENTED"
  BY <1>2, <1>5
<1>7. "preprocessor" \in received.sources \/ Tells(message, config.skipUnknown, received)
  BY <1>2, <1>4
<1>8. GivenBack(message, received)
  BY <1>3, <1>4, <1>6, <1>7, GivenBackIfTold
<1>9. QED
  BY <1>1, <1>8

-------------------------------------------------------------------------------
(* The theorems                                                            *)

LEMMA NextInv == BatchInv /\ [Next]_vars => BatchInv'
<1> SUFFICES ASSUME BatchInv, [Next]_vars PROVE BatchInv'
  OBVIOUS
<1>1. CASE \E n \in 0 .. Len(ReadBatch) : NextBatch(n)
  BY <1>1, NextBatchStep
<1>2. CASE \E message \in SingleMessages, answer \in {"drop", "keep"} : ReadSingly(message, answer)
  BY <1>2, ReadSinglyStep
<1>3. CASE PassOn
  BY <1>3, PassOnStep
<1>4. CASE Begin \/ PreprocessingEnds \/ DeserializingEnds
  BY <1>4, BeginStep, PreprocessingEndsStep, DeserializingEndsStep
<1>5. ASSUME NEW i \in DOMAIN worker, WorkerStep(i)
      PROVE  BatchInv'
  BY <1>5, JudgeStep, JudgeOutsideStep, StoreStep, LeaveRestStep, PassOverStep, SettleStep
     DEF WorkerStep
<1>6. ASSUME NEW enable \in BOOLEAN, Preprocess(enable)
      PROVE  BatchInv'
  BY <1>6, OutsideStep DEF Preprocess
<1>7. CASE UNCHANGED vars
  <2>1. preprocess' \in BOOLEAN
    BY <1>7 DEF vars, BatchInv, TypeInv, DataOK
  <2>2. QED
    BY <1>7, <2>1, OutsideStep DEF vars
<1>8. QED
  BY <1>1, <1>2, <1>3, <1>4, <1>5, <1>6, <1>7 DEF Next

LEMMA AlwaysBatchInv == Spec => []BatchInv
<1>1. QED
  BY InitInv, NextInv, PTL DEF Spec

\* The parts a batch is split into are disjoint and within it, for any batch and any
\* number of queues and threads; no worker leaves its part; no bit of an earlier
\* batch is left, and none is set in a vector without any.
THEOREM BatchTypeCorrect == Spec => []TypeOK
<1>1. BatchInv => TypeOK
  <2> SUFFICES ASSUME BatchInv PROVE TypeOK
    OBVIOUS
  <2>1. /\ ConfigOK /\ DataOK /\ WorkersOK
    BY DEF BatchInv, TypeInv
  <2>2. \A i \in DOMAIN worker : worker[i] \in WorkerRecord /\ PartOK(worker[i])
    BY <2>1 DEF WorkersOK
  <2>3. \A i \in DOMAIN worker :
          /\ worker[i].start <= worker[i].next /\ worker[i].next <= worker[i].end
          /\ worker[i].end <= Size
          /\ worker[i].step \in {"look", "drop", "keep", "settle"}
          /\ worker[i].word \subseteq Batch
    BY <2>2 DEF WorkerRecord, PartOK
  <2>4. \A i \in DOMAIN worker : \A k \in DOMAIN worker \ {i} :
          worker[i].end <= worker[k].start \/ worker[k].end <= worker[i].start
    BY <2>1 DEF WorkersOK
  <2>5. QED
    BY <2>1, <2>3, <2>4 DEF TypeOK, ConfigOK, DataOK, Stages, Answers
<1>2. QED
  BY <1>1, AlwaysBatchInv, PTL

\* Each message of a batch goes on to its receiver deserialized, or it was dropped
\* because the callback asked for that, however the workers race for the word and
\* whenever the application toggles the preprocessor, if the numbers of the coroutine
\* queues begin with 0.
THEOREM EverySettled ==
  ASSUME LowQueues = {0}
  PROVE  Spec => []EveryMessageSettled
<1>1. BatchInv => EveryMessageSettled
  BY DEF BatchInv, TypeInv, ConfigOK, SettledInv
<1>2. QED
  BY <1>1, AlwaysBatchInv, PTL

\* Of a batch that has ended, every message is settled.
LEMMA EndedIsSettled ==
  ASSUME LowQueues = {0}, BatchInv, MessagesInv, stage = "ended", NEW j \in Batch
  PROVE  IsSettled(j) /\ j + 1 \in DOMAIN batch
<1>1. EveryMessageSettled
  BY DEF BatchInv, TypeInv, ConfigOK, SettledInv
<1>2. j + 1 \in DOMAIN batch
  BY DEF MessagesInv, Batch, Size
<1>3. QED
  BY <1>1, <1>2 DEF EveryMessageSettled

\* The accessors of a received message tell its receiver what was read: its values,
\* the last of several headers with one name, and the first error, for any headers
\* that a topic declares and any that a message carries.
THEOREM TruthTold ==
  ASSUME LowQueues = {0}
  PROVE  Spec => []AccessorsTellTruth
<1>1. BatchInv /\ MessagesInv => AccessorsTellTruth
  <2>1. SUFFICES ASSUME BatchInv, MessagesInv, stage = "ended", NEW j \in Batch
                 PROVE  /\ ValuesTold(batch[j + 1], config.skipUnknown, ToReceiver(j))
                        /\ ErrorsTold(batch[j + 1], config.skipUnknown, ToReceiver(j))
    BY DEF AccessorsTellTruth
  <2>2. IsSettled(j) /\ j + 1 \in DOMAIN batch
    BY <2>1, EndedIsSettled
  <2>3. IsMessage(batch[j + 1])
    BY <2>1, <2>2 DEF MessagesInv
  <2>4. QED
    BY <2>2, <2>3, SettledIsTold
<1>2. QED
  BY <1>1, AlwaysBatchInv, AlwaysMessages, PTL

\* Whichever headers a producer of the topic left out, each one that it sent is given
\* back at the position it was given for, for any headers that the topic declares.
THEOREM SentComesBack ==
  ASSUME LowQueues = {0}
  PROVE  Spec => []SentIsReceived
<1>1. BatchInv /\ MessagesInv => SentIsReceived
  <2>1. SUFFICES ASSUME BatchInv, MessagesInv, stage = "ended", NEW j \in Batch,
                        IsSent(batch[j + 1])
                 PROVE  GivenBack(batch[j + 1], ToReceiver(j))
    BY DEF SentIsReceived
  <2>2. IsSettled(j) /\ j + 1 \in DOMAIN batch
    BY <2>1, EndedIsSettled
  <2>3. IsMessage(batch[j + 1]) /\ FromProducer(batch[j + 1])
    BY <2>1, <2>2 DEF MessagesInv
  <2>4. QED
    BY <2>2, <2>3, SettledIsGivenBack
<1>2. QED
  BY <1>1, AlwaysBatchInv, AlwaysMessages, PTL

===============================================================================
