--------------------------- MODULE ProducerFlowProofs ---------------------------
(***************************************************************************)
(* Proofs about ProducerFlow: its type invariant, with the one place that  *)
(* owns a message, that a call which waits for ever returns only with the  *)
(* broker's answer, that the edge of a full queue is triggered once, and   *)
(* that no synchronous flush is forgotten, for any number of threads, any  *)
(* capacity, any retries and multipliers, and any number of messages.      *)
(***************************************************************************)
EXTENDS ProducerFlow, FiniteSetTheorems, SequenceTheorems, TLAPS

-------------------------------------------------------------------------------
(* The inductive invariant                                                 *)

\* What setup() makes of any options.
ConfigOK == config.retries \in Nat /\ config.multiplier \in Nat

MessageRecord == [left : Nat, reports : 0 .. 1, call : {"open", "returned", "threw"}]

ThreadRecord ==
  [at : {"idle", "producing", "telling", "waiting"}, m : Nat, notify : BOOLEAN]

\* A thread that is not idle is at work on a message of its own.
ThreadsOK ==
  /\ message \in Seq(MessageRecord)
  /\ thread \in [Threads -> ThreadRecord]
  /\ \A x \in Threads : /\ thread[x].m \in Messages \union {0}
                        /\ ~At(x, "idle") => thread[x].m \in Messages
  /\ \A x, y \in Callers :
       ~At(x, "idle") /\ ~At(y, "idle") /\ thread[x].m = thread[y].m => x = y

Holds(x) == thread[x].at \in {"producing", "telling"}

\* A message is in one place at a time, and unanswered wherever it is.
PlacesOK ==
  /\ outbound \subseteq Messages /\ buffer \subseteq Messages /\ flush \subseteq Messages
  /\ outbound \intersect buffer = {} /\ outbound \intersect flush = {}
  /\ buffer \intersect flush = {}
  /\ \A m \in outbound \union buffer \union flush : message[m].reports = 0
  /\ \A x \in Threads :
       Holds(x) => /\ thread[x].m \notin outbound \union buffer \union flush
                   /\ message[thread[x].m].reports = 0
  /\ \A x, y \in Threads : Holds(x) /\ Holds(y) /\ thread[x].m = thread[y].m => x = y

CapacityOK == IsFiniteSet(outbound) /\ Cardinality(outbound) <= QueueCapacity

\* Only a flush keeps the poll task busy.
TaskOK ==
  /\ task \in {"none", "posted", "flushing"}
  /\ forced \in BOOLEAN /\ forceSyncFlush \in BOOLEAN /\ owed \in BOOLEAN
  /\ task # "flushing" => flush = {} /\ At(PollTask, "idle") /\ ~forced

ThrottleOK ==
  /\ throttle \in Nat /\ callback \in [ServingThreads -> {"none", "pausing", "resuming"}]
  /\ pollThread \in {"adjusting", "resuming"}
  /\ paused \in BOOLEAN /\ overlapped \in BOOLEAN

FlowInv ==
  ConfigOK /\ ThreadsOK /\ PlacesOK /\ CapacityOK /\ TaskOK /\ ThrottleOK

\* The trigger is down between a notification and the next reset, and no thread that
\* looked at it is still to tell; while one is, it is up and the only one.
TriggerInv ==
  /\ trigger \in BOOLEAN /\ raced \in BOOLEAN /\ notified \in 0 .. 2
  /\ config.queueFull = "edgeTriggered" /\ ~raced =>
       /\ trigger => notified = 0
       /\ ~trigger => notified = 1 /\ \A x \in Threads : ~At(x, "telling")
       /\ \A x, y \in Threads : At(x, "telling") /\ At(y, "telling") => x = y

\* The flag outlives any flush but a forced one, and none is under way.
FlushInv == owed => forceSyncFlush /\ ~forced

-------------------------------------------------------------------------------
(* The initial states                                                      *)

\* An option that is given is given on one side of ++, and has the value it has there.
LEMMA Joined ==
  ASSUME NEW o, NEW p, NEW n, IsGiven(o ++ p, n)
  PROVE  \/ IsGiven(o, n) /\ (o ++ p)[n] = o[n]
         \/ IsGiven(p, n) /\ (o ++ p)[n] = p[n]
  BY DEF IsGiven, ++

LEMMA GivenValue ==
  ASSUME NEW name, NEW values, NEW o \in MayGive(name, values), NEW n, IsGiven(o, n)
  PROVE  n = name /\ o[n] \in values
  BY DEF IsGiven, MayGive, Option

\* What one group of options gives as retries and as multiplier are numbers.
LEMMA NumbersGiven ==
  ASSUME NEW o \in SendOptions \union FlushOptions \union ThrottleOptions
                     \union NotificationOptions,
         NEW n \in {"retries", "auto.throttle.multiplier"}, IsGiven(o, n)
  PROVE  o[n] \in Nat
<1>1. CASE o \in SendOptions
  <2>1. PICK w \in MayGive("wait.for.acks", Flag),
             t \in MayGive("wait.for.acks.timeout.ms", {-2, -1, 0, 5}),
             r \in MayGive("retries", Retries),
             p \in MayGive("payload.policy", {"copy", "passthrough", "other"}) :
          o = w ++ t ++ r ++ p
    BY <1>1 DEF SendOptions
  <2>2. ~IsGiven(w, n) /\ ~IsGiven(t, n) /\ ~IsGiven(p, n)
    BY GivenValue
  <2>3. IsGiven(r, n) /\ o[n] = r[n]
    BY <2>1, <2>2, Joined
  <2>4. r[n] \in Retries
    BY <2>3, GivenValue
  <2>5. QED
    BY <2>3, <2>4, FlowAssumption
<1>2. CASE o \in FlushOptions
  <2>1. PICK w \in MayGive("flush.wait.for.acks", Flag),
             t \in MayGive("flush.wait.for.acks.timeout.ms", {-2, -1, 0, 5}),
             r \in MayGive("retries", Retries) :
          o = w ++ t ++ r
    BY <1>2 DEF FlushOptions
  <2>2. ~IsGiven(w, n) /\ ~IsGiven(t, n)
    BY GivenValue
  <2>3. IsGiven(r, n) /\ o[n] = r[n]
    BY <2>1, <2>2, Joined
  <2>4. r[n] \in Retries
    BY <2>3, GivenValue
  <2>5. QED
    BY <2>3, <2>4, FlowAssumption
<1>3. CASE o \in ThrottleOptions
  <2>1. PICK a \in MayGive("auto.throttle", Flag),
             t \in MayGive("auto.throttle.multiplier", Multipliers) :
          o = a ++ t
    BY <1>3 DEF ThrottleOptions
  <2>2. ~IsGiven(a, n)
    BY GivenValue
  <2>3. IsGiven(t, n) /\ o[n] = t[n]
    BY <2>1, <2>2, Joined
  <2>4. t[n] \in Multipliers
    BY <2>3, GivenValue
  <2>5. QED
    BY <2>3, <2>4, FlowAssumption
<1>4. CASE o \in NotificationOptions
  BY <1>4, GivenValue DEF NotificationOptions
<1>5. QED
  BY <1>1, <1>2, <1>3, <1>4

LEMMA SettingsOK == config \in Settings => ConfigOK
<1>1. SUFFICES ASSUME config \in Settings PROVE ConfigOK
  OBVIOUS
<1>2. PICK s \in Setups :
        config = FlowSettings(Brokers ++ s.options, s.callbacks, s.works)
  BY <1>1 DEF Settings
<1>3. s.options \in SendOptions \union FlushOptions \union ThrottleOptions
                      \union NotificationOptions
  BY <1>2 DEF Setups
<1>4. ASSUME NEW n \in {"retries", "auto.throttle.multiplier"}, NEW default \in Nat
      PROVE  Given(Brokers ++ s.options, n, default) \in Nat
  <2>1. ~IsGiven(Brokers, n)
    BY DEF Brokers, Option, IsGiven
  <2>2. IsGiven(Brokers ++ s.options, n) =>
          IsGiven(s.options, n) /\ (Brokers ++ s.options)[n] = s.options[n]
    BY <2>1, Joined
  <2>3. QED
    BY <1>3, <2>2, NumbersGiven DEF Given
<1>5. Given(Brokers ++ s.options, "retries", 0) \in Nat
  BY <1>4
<1>6. Given(Brokers ++ s.options, "auto.throttle.multiplier", 1) % 65536 \in Nat
  BY <1>4
<1>7. QED
  BY <1>2, <1>5, <1>6 DEF ConfigOK, FlowSettings, ThrottleMultiplier

LEMMA InitInv == Init => FlowInv /\ TriggerInv /\ FlushInv
<1>1. SUFFICES ASSUME Init PROVE FlowInv /\ TriggerInv /\ FlushInv
  OBVIOUS
<1>2. ConfigOK
  BY <1>1, SettingsOK DEF Init
<1>3. ThreadsOK
  <2>1. message = <<>> /\ thread = [x \in Threads |-> Idle]
    BY <1>1 DEF Init
  <2>2. Callers \subseteq Threads /\ Idle \in ThreadRecord
    BY DEF Threads, Idle, ThreadRecord
  <2>3. QED
    BY <2>1, <2>2 DEF ThreadsOK, At, Idle, Messages
<1>4. PlacesOK
  BY <1>1 DEF Init, PlacesOK, Holds, Idle
<1>5. CapacityOK
  BY <1>1, FS_EmptySet, FlowAssumption DEF Init, CapacityOK
<1>6. TaskOK /\ ThrottleOK /\ FlushInv
  <2>1. PollTask \in Threads
    BY DEF Threads
  <2>2. At(PollTask, "idle")
    BY <1>1, <2>1 DEF Init, At, Idle
  <2>3. TaskOK
    BY <1>1, <2>2 DEF Init, TaskOK
  <2>4. ThrottleOK
    BY <1>1 DEF Init, ThrottleOK
  <2>5. FlushInv
    BY <1>1 DEF Init, FlushInv
  <2>6. QED
    BY <2>3, <2>4, <2>5
<1>7. TriggerInv
  <2>1. \A x \in Threads : ~At(x, "telling")
    BY <1>1 DEF Init, At, Idle
  <2>2. trigger = TRUE /\ raced = FALSE /\ notified = 0
    BY <1>1 DEF Init
  <2>3. notified \in 0 .. 2
    BY <2>2
  <2>4. QED
    BY <2>1, <2>2, <2>3, Zenon DEF TriggerInv
<1>8. QED
  BY <1>2, <1>3, <1>4, <1>5, <1>6, <1>7 DEF FlowInv

-------------------------------------------------------------------------------
(* Messages and threads, one at a time                                     *)

LEMMA MessageUpdated ==
  ASSUME message \in Seq(MessageRecord), NEW m \in Messages, NEW r \in MessageRecord,
         message' = [message EXCEPT ![m] = r]
  PROVE  /\ message' \in Seq(MessageRecord) /\ Messages' = Messages
         /\ \A i \in Messages : message'[i] = IF i = m THEN r ELSE message[i]
<1>1. message' \in Seq(MessageRecord) /\ Len(message') = Len(message)
  BY ExceptSeq DEF Messages
<1>2. DOMAIN message = 1 .. Len(message)
  OBVIOUS
<1>3. QED
  BY <1>1, <1>2 DEF Messages

LEMMA MessageAt ==
  ASSUME message \in Seq(MessageRecord), NEW m \in Messages
  PROVE  message[m] \in MessageRecord
  BY DEF Messages

\* A report of a message that has not been reported.
LEMMA Reported ==
  ASSUME ThreadsOK, NEW m \in Messages, message[m].reports = 0, Report(m)
  PROVE  /\ message' \in Seq(MessageRecord) /\ Messages' = Messages
         /\ \A i \in Messages :
              message'[i] = IF i = m THEN [message[m] EXCEPT !.reports = 1] ELSE message[i]
<1>1. message[m] \in MessageRecord
  BY MessageAt DEF ThreadsOK
<1>2. message' = [message EXCEPT ![m] = [message[m] EXCEPT !.reports = 1]]
  BY <1>1 DEF Report
<1>3. [message[m] EXCEPT !.reports = 1] \in MessageRecord
  BY <1>1 DEF MessageRecord
<1>4. QED
  BY <1>2, <1>3, MessageUpdated DEF ThreadsOK

LEMMA ThreadMoved ==
  ASSUME ThreadsOK, NEW x \in Threads, NEW step \in {"idle", "producing", "telling", "waiting"},
         Goes(x, step)
  PROVE  /\ thread' \in [Threads -> ThreadRecord]
         /\ thread'[x] = [thread[x] EXCEPT !.at = step]
         /\ \A y \in Threads : y # x => thread'[y] = thread[y]
<1>1. thread \in [Threads -> ThreadRecord]
  BY DEF ThreadsOK
<1>2. thread' = [thread EXCEPT ![x] = [thread[x] EXCEPT !.at = step]]
  BY DEF Goes
<1>3. [thread[x] EXCEPT !.at = step] \in ThreadRecord
  BY <1>1 DEF ThreadRecord
<1>4. QED
  BY <1>1, <1>2, <1>3

\* The call for a message ends; that of the poll task's was another thread's.
LEMMA CallEnded ==
  ASSUME ThreadsOK, NEW x \in Threads, ~At(x, "idle"),
         NEW how \in {"returned", "threw"}, Ends(x, how)
  PROVE  /\ message' \in Seq(MessageRecord) /\ Messages' = Messages
         /\ \A i \in Messages :
              message'[i] = IF i = thread[x].m /\ x # PollTask
                            THEN [message[i] EXCEPT !.call = how] ELSE message[i]
<1>1. CASE x = PollTask
  BY <1>1 DEF Ends, ThreadsOK, Messages
<1>2. CASE x # PollTask
  <2> DEFINE m == thread[x].m
             r == [message[m] EXCEPT !.call = how]
  <2>1. m \in Messages /\ message[m] \in MessageRecord
    BY MessageAt DEF ThreadsOK
  <2>2. message' = [message EXCEPT ![m] = r] /\ r \in MessageRecord
    BY <1>2, <2>1 DEF Ends, MessageRecord
  <2> HIDE DEF m, r
  <2>3. /\ message' \in Seq(MessageRecord) /\ Messages' = Messages
        /\ \A i \in Messages : message'[i] = IF i = m THEN r ELSE message[i]
    BY <2>1, <2>2, MessageUpdated DEF ThreadsOK
  <2>4. QED
    BY <1>2, <2>3 DEF m, r
<1>3. QED
  BY <1>1, <1>2

-------------------------------------------------------------------------------
(* The steps of a thread                                                   *)

\* A thread that is at work stays with its message, or becomes idle.
LEMMA WorkKeepsThreads ==
  ASSUME ThreadsOK, NEW x \in Threads, ~At(x, "idle"),
         message' \in Seq(MessageRecord), Messages' = Messages,
         thread' \in [Threads -> ThreadRecord], thread'[x].m = thread[x].m,
         \A y \in Threads : y # x => thread'[y] = thread[y]
  PROVE  ThreadsOK'
<1>1. \A y \in Threads : thread'[y].m = thread[y].m /\ (At(y, "idle") => At(y, "idle")')
  BY DEF At
<1>2. QED
  BY <1>1 DEF ThreadsOK, Threads

\* It leaves its message in one place, or in none; then it may have been reported.
LEMMA LetGo ==
  ASSUME ThreadsOK, PlacesOK, NEW x \in Threads, Holds(x), NEW m, m = thread[x].m,
         Messages' = Messages,
         \A i \in Messages : i # m => message'[i].reports = message[i].reports,
         ~Holds(x)', \A y \in Threads : y # x => thread'[y] = thread[y],
         flush' = flush,
         \/ /\ outbound' = outbound \union {m} /\ buffer' = buffer
            /\ message'[m].reports = message[m].reports
         \/ /\ outbound' = outbound /\ buffer' = buffer \union {m}
            /\ message'[m].reports = message[m].reports
         \/ outbound' = outbound /\ buffer' = buffer
  PROVE  PlacesOK'
<1>1. m \in Messages
  BY DEF Holds, At, ThreadsOK
<1>2. \A y \in Threads : Holds(y)' => /\ Holds(y) /\ y # x /\ thread'[y].m = thread[y].m
                                     /\ thread[y].m # m
  BY DEF Holds, PlacesOK
<1>3. \A y \in Threads : Holds(y) => thread[y].m \in Messages
  BY DEF Holds, At, ThreadsOK
<1>4. m \notin outbound \union buffer \union flush /\ message[m].reports = 0
  BY DEF PlacesOK
<1>5. /\ outbound' \subseteq Messages' /\ buffer' \subseteq Messages' /\ flush' \subseteq Messages'
      /\ outbound' \intersect buffer' = {} /\ outbound' \intersect flush' = {}
      /\ buffer' \intersect flush' = {}
  BY <1>1, <1>4 DEF PlacesOK
<1>6. \A i \in outbound' \union buffer' \union flush' : message'[i].reports = 0
  BY <1>1, <1>4 DEF PlacesOK
<1>7. \A y \in Threads :
        Holds(y)' => /\ thread'[y].m \notin outbound' \union buffer' \union flush'
                     /\ message'[thread'[y].m].reports = 0
  BY <1>2, <1>3 DEF PlacesOK
<1>8. \A y, z \in Threads : Holds(y)' /\ Holds(z)' /\ thread'[y].m = thread'[z].m => y = z
  BY <1>2 DEF PlacesOK
<1>9. QED
  BY <1>5, <1>6, <1>7, <1>8 DEF PlacesOK, Holds

LEMMA EnqueueKeeps ==
  ASSUME FlowInv, NEW x \in Threads, Enqueue(x)
  PROVE  ThreadsOK' /\ PlacesOK' /\ CapacityOK'
<1> DEFINE m == thread[x].m
<1>1. ThreadsOK /\ PlacesOK /\ CapacityOK
  BY DEF FlowInv
<1>2. At(x, "producing") /\ ~At(x, "idle") /\ Holds(x) /\ m \in Messages
  BY <1>1 DEF Enqueue, At, Holds, ThreadsOK
<1>3. /\ message' \in Seq(MessageRecord) /\ Messages' = Messages
      /\ \A i \in Messages : message'[i].reports = message[i].reports
      /\ \E step \in {"idle", "waiting"} : Goes(x, step)
  <2>1. CASE x = PollTask \/ config.send = "not"
    <3>1. Ends(x, "returned")
      BY <2>1 DEF Enqueue, HandedOver
    <3>2. \A i \in Messages : message[i] \in MessageRecord
      BY <1>1, MessageAt DEF ThreadsOK
    <3>3. /\ message' \in Seq(MessageRecord) /\ Messages' = Messages
          /\ \A i \in Messages :
               message'[i] = IF i = m /\ x # PollTask
                             THEN [message[i] EXCEPT !.call = "returned"] ELSE message[i]
      BY <1>1, <1>2, <3>1, CallEnded
    <3>4. \A i \in Messages : message'[i].reports = message[i].reports
      BY <3>2, <3>3 DEF MessageRecord
    <3>5. QED
      BY <3>1, <3>3, <3>4 DEF Ends
  <2>2. CASE ~(x = PollTask \/ config.send = "not")
    BY <1>1, <2>2 DEF Enqueue, HandedOver, ThreadsOK, Messages
  <2>3. QED
    BY <2>1, <2>2
<1>4. /\ thread' \in [Threads -> ThreadRecord]
      /\ thread'[x].m = m /\ thread'[x].at \in {"idle", "waiting"}
      /\ \A y \in Threads : y # x => thread'[y] = thread[y]
  <2>1. PICK step \in {"idle", "waiting"} : Goes(x, step)
    BY <1>3
  <2>2. /\ thread' \in [Threads -> ThreadRecord]
        /\ thread'[x] = [thread[x] EXCEPT !.at = step]
        /\ \A y \in Threads : y # x => thread'[y] = thread[y]
    BY <1>1, <2>1, ThreadMoved
  <2>3. thread[x] \in ThreadRecord
    BY <1>1 DEF ThreadsOK
  <2>4. QED
    BY <2>1, <2>2, <2>3 DEF ThreadRecord
<1>5. ThreadsOK'
  BY <1>1, <1>2, <1>3, <1>4, WorkKeepsThreads
<1>6. PlacesOK'
  <2>1. ~Holds(x)'
    BY <1>4 DEF Holds
  <2>2. outbound' = outbound \union {m} /\ buffer' = buffer /\ flush' = flush
    BY DEF Enqueue
  <2>3. QED
    BY <1>1, <1>2, <1>3, <1>4, <2>1, <2>2, LetGo
<1>7. CapacityOK'
  <2>1. Cardinality(outbound) < QueueCapacity /\ outbound' = outbound \union {m}
    BY DEF Enqueue
  <2>2. IsFiniteSet(outbound) /\ Cardinality(outbound) \in Nat /\ QueueCapacity \in Nat
    BY <1>1, FS_CardinalityType, FlowAssumption DEF CapacityOK
  <2> HIDE DEF m
  <2>3. /\ IsFiniteSet(outbound \union {m})
        /\ Cardinality(outbound \union {m}) =
             IF m \in outbound THEN Cardinality(outbound) ELSE Cardinality(outbound) + 1
    BY <2>2, FS_AddElement
  <2>4. QED
    BY <2>1, <2>2, <2>3 DEF CapacityOK
<1>8. QED
  BY <1>5, <1>6, <1>7

LEMMA WaitEndsKeeps ==
  ASSUME FlowInv, NEW x \in Threads, WaitEnds(x)
  PROVE  ThreadsOK' /\ PlacesOK' /\ CapacityOK'
<1>1. ThreadsOK /\ PlacesOK /\ CapacityOK
  BY DEF FlowInv
<1>2. ~At(x, "idle") /\ ~Holds(x) /\ Ends(x, "returned") /\ Goes(x, "idle")
  BY DEF WaitEnds, Ends, At, Holds
<1>3. /\ message' \in Seq(MessageRecord) /\ Messages' = Messages
      /\ \A i \in Messages : message'[i].reports = message[i].reports
  <2>1. \A i \in Messages : message[i] \in MessageRecord
    BY <1>1, MessageAt DEF ThreadsOK
  <2>2. QED
    BY <1>1, <1>2, <2>1, CallEnded DEF MessageRecord
<1>4. /\ thread' \in [Threads -> ThreadRecord]
      /\ thread'[x].m = thread[x].m /\ thread'[x].at = "idle"
      /\ \A y \in Threads : y # x => thread'[y] = thread[y]
  BY <1>1, <1>2, ThreadMoved DEF ThreadsOK, ThreadRecord
<1>5. ThreadsOK'
  BY <1>1, <1>2, <1>3, <1>4, WorkKeepsThreads
<1>6. UNCHANGED <<outbound, buffer, flush>>
  BY DEF WaitEnds
<1>7. PlacesOK'
  <2>1. \A y \in Threads : Holds(y)' => Holds(y) /\ thread'[y] = thread[y] /\ thread[y].m \in Messages
    BY <1>1, <1>2, <1>4 DEF Holds, ThreadsOK, At
  <2>2. QED
    BY <1>1, <1>3, <1>6, <2>1 DEF PlacesOK, Holds
<1>8. QED
  BY <1>1, <1>5, <1>6, <1>7 DEF CapacityOK

LEMMA RefusedForNowKeeps ==
  ASSUME FlowInv, NEW x \in Threads, RefusedForNow(x)
  PROVE  ThreadsOK' /\ PlacesOK' /\ CapacityOK'
<1> DEFINE m == thread[x].m
<1>1. ThreadsOK /\ PlacesOK /\ CapacityOK
  BY DEF FlowInv
<1>2. ~At(x, "idle") /\ Holds(x) /\ m \in Messages /\ message[m] \in MessageRecord
  BY <1>1, MessageAt DEF RefusedForNow, At, Holds, ThreadsOK
<1>3. PICK r \in MessageRecord :
        message' = [message EXCEPT ![m] = r] /\ r.reports = message[m].reports
  <2>1. message[m].left - 1 \in Nat
    BY <1>2 DEF RefusedForNow, MessageRecord
  <2>2. CASE x = PollTask \/ config.send = "not"
    <3> DEFINE r == [message[m] EXCEPT !.left = @ - 1,
                       !.call = IF x = PollTask THEN @ ELSE "returned"]
    <3>1. message' = [message EXCEPT ![m] = r]
      BY <1>2, <2>2 DEF RefusedForNow, MessageRecord
    <3>2. r \in MessageRecord /\ r.reports = message[m].reports
      BY <1>2, <2>1 DEF MessageRecord
    <3>3. QED
      BY <3>1, <3>2
  <2>3. CASE ~(x = PollTask \/ config.send = "not")
    <3> DEFINE r == [message[m] EXCEPT !.left = @ - 1]
    <3>1. message' = [message EXCEPT ![m] = r]
      BY <1>2, <2>3 DEF RefusedForNow, MessageRecord
    <3>2. r \in MessageRecord /\ r.reports = message[m].reports
      BY <1>2, <2>1 DEF MessageRecord
    <3>3. QED
      BY <3>1, <3>2
  <2>4. QED
    BY <2>2, <2>3
<1>4. /\ message' \in Seq(MessageRecord) /\ Messages' = Messages
      /\ \A i \in Messages : message'[i].reports = message[i].reports
  <2> HIDE DEF m
  <2>1. /\ message' \in Seq(MessageRecord) /\ Messages' = Messages
        /\ \A i \in Messages : message'[i] = IF i = m THEN r ELSE message[i]
    BY <1>1, <1>2, <1>3, MessageUpdated DEF ThreadsOK
  <2>2. QED
    BY <1>3, <2>1
<1>5. /\ thread' \in [Threads -> ThreadRecord]
      /\ thread'[x].m = m /\ thread'[x].at \in {"idle", "waiting"}
      /\ \A y \in Threads : y # x => thread'[y] = thread[y]
  <2>1. PICK step \in {"idle", "waiting"} : Goes(x, step)
    BY DEF RefusedForNow
  <2>2. /\ thread' \in [Threads -> ThreadRecord]
        /\ thread'[x] = [thread[x] EXCEPT !.at = step]
        /\ \A y \in Threads : y # x => thread'[y] = thread[y]
    BY <1>1, <2>1, ThreadMoved
  <2>3. thread[x] \in ThreadRecord
    BY <1>1 DEF ThreadsOK
  <2>4. QED
    BY <2>1, <2>2, <2>3 DEF ThreadRecord
<1>6. ThreadsOK'
  BY <1>1, <1>2, <1>4, <1>5, WorkKeepsThreads
<1>7. outbound' = outbound /\ buffer' = buffer \union {m} /\ flush' = flush
  BY DEF RefusedForNow
<1>8. PlacesOK'
  BY <1>1, <1>2, <1>4, <1>5, <1>7, LetGo DEF Holds
<1>9. QED
  BY <1>1, <1>6, <1>7, <1>8 DEF CapacityOK

LEMMA RefusedKeeps ==
  ASSUME FlowInv, NEW x \in Threads, Refused(x)
  PROVE  ThreadsOK' /\ PlacesOK' /\ CapacityOK'
<1> DEFINE m == thread[x].m
           reports == IF x # PollTask /\ config.send = "forever" THEN 0 ELSE 1
           r == [message[m] EXCEPT !.reports = @ + reports,
                   !.call = IF x = PollTask THEN @ ELSE "threw"]
<1>1. ThreadsOK /\ PlacesOK /\ CapacityOK
  BY DEF FlowInv
<1>2. ~At(x, "idle") /\ Holds(x) /\ m \in Messages /\ message[m] \in MessageRecord
  BY <1>1, MessageAt DEF Refused, At, Holds, ThreadsOK
<1>3. message' = [message EXCEPT ![m] = r]
  BY <1>2 DEF Refused, MessageRecord
<1>4. r \in MessageRecord
  <2>1. message[m].reports = 0 /\ message[m].reports + reports \in 0 .. 1
    BY <1>1, <1>2 DEF PlacesOK
  <2>2. QED
    BY <1>2, <2>1 DEF MessageRecord
<1>5. /\ message' \in Seq(MessageRecord) /\ Messages' = Messages
      /\ \A i \in Messages : i # m => message'[i].reports = message[i].reports
  <2> HIDE DEF m, r
  <2>1. message \in Seq(MessageRecord) /\ m \in Messages
    BY <1>1, <1>2 DEF ThreadsOK
  <2>2. /\ message' \in Seq(MessageRecord) /\ Messages' = Messages
        /\ \A i \in Messages : message'[i] = IF i = m THEN r ELSE message[i]
    BY <1>3, <1>4, <2>1, MessageUpdated
  <2>3. QED
    BY <2>2
<1>6. /\ thread' \in [Threads -> ThreadRecord]
      /\ thread'[x].m = m /\ thread'[x].at = "idle"
      /\ \A y \in Threads : y # x => thread'[y] = thread[y]
  BY <1>1, ThreadMoved DEF Refused, ThreadsOK, ThreadRecord
<1>7. ThreadsOK'
  BY <1>1, <1>2, <1>5, <1>6, WorkKeepsThreads
<1>8. outbound' = outbound /\ buffer' = buffer /\ flush' = flush
  BY DEF Refused
<1>9. PlacesOK'
  BY <1>1, <1>2, <1>5, <1>6, <1>8, LetGo DEF Holds
<1>10. QED
  BY <1>1, <1>7, <1>8, <1>9 DEF CapacityOK

\* The notifications of a full queue leave the message with its thread.
LEMMA QueueFullKeeps ==
  ASSUME FlowInv, NEW x \in Threads, QueueFullLooks(x) \/ QueueFullTells(x)
  PROVE  ThreadsOK' /\ PlacesOK' /\ CapacityOK'
<1>1. ThreadsOK /\ PlacesOK /\ CapacityOK
  BY DEF FlowInv
<1>2. ~At(x, "idle") /\ Holds(x)
  BY DEF QueueFullLooks, QueueFullTells, Full, At, Holds
<1>3. UNCHANGED <<message, outbound, buffer, flush>>
  BY DEF QueueFullLooks, QueueFullTells
<1>4. Messages' = Messages
  BY <1>3 DEF Messages
<1>5. /\ thread' \in [Threads -> ThreadRecord]
      /\ thread'[x].m = thread[x].m /\ Holds(x)'
      /\ \A y \in Threads : y # x => thread'[y] = thread[y]
  <2>1. CASE QueueFullTells(x)
    <3>1. Goes(x, "producing")
      BY <2>1 DEF QueueFullTells
    <3>2. QED
      BY <1>1, <3>1, ThreadMoved DEF ThreadsOK, ThreadRecord, Holds
  <2>2. CASE QueueFullLooks(x)
    <3> DEFINE again == ClientNotifiesAgain(config.queueFull)
    <3>1. again \in BOOLEAN
      BY DEF ClientNotifiesAgain
    <3>2. thread' = [thread EXCEPT ![x].at = "telling", ![x].notify = again]
      BY <2>2 DEF QueueFullLooks
    <3> HIDE DEF again
    <3>3. QED
      BY <1>1, <3>1, <3>2 DEF ThreadsOK, ThreadRecord, Holds
  <2>3. QED
    BY <2>1, <2>2
<1>6. ThreadsOK'
  BY <1>1, <1>2, <1>3, <1>4, <1>5, WorkKeepsThreads DEF ThreadsOK
<1>7. PlacesOK'
  <2>1. \A y \in Threads : Holds(y)' => Holds(y) /\ thread'[y].m = thread[y].m
    BY <1>2, <1>5 DEF Holds
  <2>2. QED
    BY <1>1, <1>3, <1>4, <2>1 DEF PlacesOK, Holds
<1>8. QED
  BY <1>1, <1>3, <1>6, <1>7 DEF CapacityOK

-------------------------------------------------------------------------------
(* New messages, answers and the poll task                                 *)

LEMMA ProduceMessageKeeps ==
  ASSUME FlowInv, NEW x \in Callers, ProduceMessage(x)
  PROVE  ThreadsOK' /\ PlacesOK' /\ CapacityOK'
<1> DEFINE n == Len(message) + 1
           r == [left |-> config.retries, reports |-> 0, call |-> "open"]
<1>1. ConfigOK /\ ThreadsOK /\ PlacesOK /\ CapacityOK /\ x \in Threads /\ At(x, "idle")
  BY DEF FlowInv, Threads, ProduceMessage
<1>2. r \in MessageRecord /\ message' = Append(message, r)
  BY <1>1 DEF ConfigOK, MessageRecord, ProduceMessage
<1>3. /\ message' \in Seq(MessageRecord) /\ Messages' = Messages \union {n}
      /\ n \notin Messages /\ n \in Nat /\ message'[n].reports = 0
      /\ \A i \in Messages : message'[i] = message[i]
  BY <1>1, <1>2, AppendProperties, LenProperties DEF ThreadsOK, Messages
<1>4. /\ thread' \in [Threads -> ThreadRecord]
      /\ thread'[x].m = n /\ thread'[x].at = "producing"
      /\ \A y \in Threads : y # x => thread'[y] = thread[y]
  BY <1>1, <1>3 DEF ProduceMessage, Begins, ThreadsOK, ThreadRecord
<1>5. UNCHANGED <<outbound, buffer, flush>>
  BY DEF ProduceMessage
<1>6. ThreadsOK'
  BY <1>1, <1>3, <1>4 DEF ThreadsOK, At, Threads
<1>7. PlacesOK'
  <2>1. \A y \in Threads :
          y # x /\ Holds(y)' => Holds(y) /\ thread'[y] = thread[y] /\ thread[y].m \in Messages
    BY <1>1, <1>4 DEF Holds, ThreadsOK, At
  <2>2. QED
    BY <1>1, <1>3, <1>4, <1>5, <2>1 DEF PlacesOK, Holds
<1>8. QED
  BY <1>1, <1>5, <1>6, <1>7 DEF CapacityOK

LEMMA FewerOutbound ==
  ASSUME CapacityOK, outbound' \subseteq outbound
  PROVE  CapacityOK'
<1>1. IsFiniteSet(outbound) /\ Cardinality(outbound) \in Nat /\ QueueCapacity \in Nat
  BY FS_CardinalityType, FlowAssumption DEF CapacityOK
<1>2. IsFiniteSet(outbound') /\ Cardinality(outbound') <= Cardinality(outbound)
  BY <1>1, FS_Subset
<1>3. QED
  BY <1>1, <1>2, FS_CardinalityType DEF CapacityOK

\* The last answer for a message: BrokerAcks, or BrokerFails with no try left.
LEMMA LastAnswerKeeps ==
  ASSUME FlowInv, NEW m \in outbound, outbound' = outbound \ {m}, Report(m),
         UNCHANGED <<thread, buffer, flush>>
  PROVE  ThreadsOK' /\ PlacesOK' /\ CapacityOK'
<1>1. ThreadsOK /\ PlacesOK /\ CapacityOK
  BY DEF FlowInv
<1>2. m \in Messages /\ message[m].reports = 0
  BY <1>1 DEF PlacesOK
<1>3. /\ message' \in Seq(MessageRecord) /\ Messages' = Messages
      /\ \A i \in Messages : i # m => message'[i] = message[i]
  BY <1>1, <1>2, Reported
<1>4. ThreadsOK'
  BY <1>1, <1>2, <1>3 DEF ThreadsOK, At
<1>5. PlacesOK'
  <2>1. \A x \in Threads : Holds(x) => thread[x].m \in Messages /\ thread[x].m # m
    BY <1>1, <1>2 DEF Holds, ThreadsOK, At, PlacesOK
  <2>2. QED
    BY <1>1, <1>2, <1>3, <2>1 DEF PlacesOK, Holds
<1>6. CapacityOK'
  BY <1>1, FewerOutbound
<1>7. QED
  BY <1>4, <1>5, <1>6

\* Another try: by the thread that waits for the message, of which there is one, or by
\* the next flush.
LEMMA BrokerFailsKeeps ==
  ASSUME FlowInv, NEW m \in Messages, BrokerFails(m)
  PROVE  ThreadsOK' /\ PlacesOK' /\ CapacityOK'
<1>1. ThreadsOK /\ PlacesOK /\ CapacityOK
  BY DEF FlowInv
<1>2. m \in outbound /\ outbound' = outbound \ {m} /\ flush' = flush
  BY DEF BrokerFails
<1>3. CASE message[m].left = 0
  BY <1>2, <1>3, LastAnswerKeeps DEF BrokerFails
<1>4. CASE message[m].left # 0
  <2> DEFINE r == [message[m] EXCEPT !.left = @ - 1]
  <2>1. message[m] \in MessageRecord
    BY <1>1, MessageAt DEF ThreadsOK
  <2>2. r \in MessageRecord /\ r.reports = message[m].reports
    BY <1>4, <2>1 DEF MessageRecord
  <2>3. message' = [message EXCEPT ![m] = r]
    BY <1>4, <2>1 DEF BrokerFails, MessageRecord
  <2>4. /\ message' \in Seq(MessageRecord) /\ Messages' = Messages
        /\ \A i \in Messages : message'[i].reports = message[i].reports
    <3> HIDE DEF r
    <3>1. /\ message' \in Seq(MessageRecord) /\ Messages' = Messages
          /\ \A i \in Messages : message'[i] = IF i = m THEN r ELSE message[i]
      BY <1>1, <2>2, <2>3, MessageUpdated DEF ThreadsOK
    <3>2. QED
      BY <2>2, <3>1
  <2>5. CapacityOK'
    BY <1>1, <1>2, FewerOutbound
  <2>6. \A x \in Threads : Holds(x) => thread[x].m \in Messages /\ thread[x].m # m
    BY <1>1, <1>2 DEF Holds, ThreadsOK, At, PlacesOK
  <2>7. CASE SyncProducer(m) = {}
    <3>1. thread' = thread /\ buffer' = buffer \union {m}
      BY <1>4, <2>7 DEF BrokerFails
    <3>2. ThreadsOK'
      BY <1>1, <2>4, <3>1 DEF ThreadsOK, At
    <3>3. PlacesOK'
      BY <1>1, <1>2, <2>4, <2>6, <3>1 DEF PlacesOK, Holds
    <3>4. QED
      BY <2>5, <3>2, <3>3
  <2>8. CASE SyncProducer(m) # {}
    <3>1. PICK x \in SyncProducer(m) : TRUE
      BY <2>8
    <3>2. x \in Callers /\ x \in Threads /\ At(x, "waiting") /\ thread[x].m = m
      BY <3>1 DEF SyncProducer, Threads
    <3>3. SyncProducer(m) = {x}
      BY <1>1, <3>1, <3>2 DEF SyncProducer, ThreadsOK, At
    <3>4. /\ thread' = [y \in Threads |-> IF y \in SyncProducer(m)
                                          THEN [thread[y] EXCEPT !.at = "producing"]
                                          ELSE thread[y]]
          /\ buffer' = buffer
      BY <1>4, <2>8 DEF BrokerFails
    <3>5. /\ thread' \in [Threads -> ThreadRecord]
          /\ thread'[x].m = m /\ thread'[x].at = "producing"
          /\ \A y \in Threads : y # x => thread'[y] = thread[y]
      BY <1>1, <3>2, <3>3, <3>4 DEF ThreadsOK, ThreadRecord
    <3>6. ThreadsOK'
      <4>1. ~At(x, "idle")
        BY <3>2 DEF At
      <4>2. QED
        BY <1>1, <2>4, <3>2, <3>5, <4>1, WorkKeepsThreads
    <3>7. PlacesOK'
      <4>1. message'[m].reports = 0
        BY <1>1, <1>2, <2>4 DEF PlacesOK
      <4>2. m \notin outbound' \union buffer' \union flush'
        BY <1>1, <1>2, <3>4 DEF PlacesOK
      <4>3. \A y \in Threads : Holds(y)' => y = x \/ (Holds(y) /\ thread'[y] = thread[y])
        BY <3>5 DEF Holds
      <4>4. QED
        BY <1>1, <1>2, <2>4, <2>6, <3>4, <3>5, <4>1, <4>2, <4>3 DEF PlacesOK, Holds
    <3>8. QED
      BY <2>5, <3>6, <3>7
  <2>9. QED
    BY <2>7, <2>8
<1>5. QED
  BY <1>3, <1>4

\* What the poll task moves was where it takes it from.
LEMMA TaskKeeps ==
  ASSUME FlowInv, TaskBegins \/ \E m \in Messages : TaskProduces(m)
  PROVE  ThreadsOK' /\ PlacesOK' /\ CapacityOK'
<1>1. ThreadsOK /\ PlacesOK /\ CapacityOK
  BY DEF FlowInv
<1>2. UNCHANGED <<message, outbound>>
  BY DEF TaskBegins, TaskProduces
<1>3. Messages' = Messages
  BY <1>2 DEF Messages
<1>4. CapacityOK'
  BY <1>1, <1>2 DEF CapacityOK
<1>5. CASE TaskBegins
  <2>1. flush = {} /\ flush' = buffer /\ buffer' = {} /\ thread' = thread
    BY <1>5 DEF TaskBegins, FlowInv, TaskOK
  <2>2. ThreadsOK'
    BY <1>1, <1>2, <1>3, <2>1 DEF ThreadsOK, At
  <2>3. PlacesOK'
    BY <1>1, <1>2, <1>3, <2>1 DEF PlacesOK, Holds
  <2>4. QED
    BY <1>4, <2>2, <2>3
<1>6. ASSUME NEW m \in Messages, TaskProduces(m) PROVE ThreadsOK' /\ PlacesOK'
  <2>1. m \in flush /\ flush' = flush \ {m} /\ buffer' = buffer /\ At(PollTask, "idle")
    BY <1>6 DEF TaskProduces
  <2>2. /\ thread' \in [Threads -> ThreadRecord]
        /\ thread'[PollTask].m = m /\ Holds(PollTask)'
        /\ \A y \in Threads : y # PollTask => thread'[y] = thread[y]
    BY <1>1, <1>6 DEF TaskProduces, Begins, ThreadsOK, ThreadRecord, Holds, Threads, Messages
  <2>3. ThreadsOK'
    BY <1>1, <1>2, <1>3, <1>6, <2>2, FlowAssumption DEF ThreadsOK, At, Threads, Callers
  <2>4. m \notin outbound \union buffer /\ message[m].reports = 0
    BY <1>1, <2>1 DEF PlacesOK
  <2>5. \A y \in Threads :
          y # PollTask /\ Holds(y)' => Holds(y) /\ thread'[y] = thread[y] /\ thread[y].m # m
    BY <1>1, <2>1, <2>2 DEF Holds, PlacesOK
  <2>6. PlacesOK'
    BY <1>1, <1>2, <1>3, <2>1, <2>2, <2>4, <2>5 DEF PlacesOK, Holds
  <2>7. QED
    BY <2>3, <2>6
<1>7. QED
  BY <1>4, <1>5, <1>6

-------------------------------------------------------------------------------
(* Every step                                                              *)

\* A producer is set up once.
LEMMA ConfigKept ==
  ASSUME [Next]_vars
  PROVE  config' = config
  BY DEF Next, ThreadStep, PollTaskStep, PollThreadStep, vars, flowVars, throttleVars,
         requestVars, triggerVars, ProduceMessage, Enqueue, WaitEnds, RefusedForNow,
         Refused, QueueFullLooks, QueueFullTells, ResetQueueFullTrigger, BrokerAcks,
         BrokerFails, TaskBegins, TaskProduces, TaskEnds, Poll, ThrottleElapses,
         AdjustResumes, HandleThrottle, ThrottlePauses, ThrottleResumes

\* Which steps move a message or a thread.
LEMMA Moves ==
  ASSUME [Next]_vars
  PROVE  \/ UNCHANGED <<message, thread, outbound, buffer, flush>>
         \/ \E x \in Callers : ProduceMessage(x)
         \/ \E x \in Threads : Enqueue(x) \/ WaitEnds(x) \/ RefusedForNow(x) \/ Refused(x)
         \/ \E x \in Threads : QueueFullLooks(x) \/ QueueFullTells(x)
         \/ \E m \in Messages : BrokerAcks(m) \/ BrokerFails(m)
         \/ TaskBegins \/ \E m \in Messages : TaskProduces(m)
  BY DEF Next, ThreadStep, PollTaskStep, PollThreadStep, vars, flowVars, throttleVars,
         requestVars, triggerVars, ResetQueueFullTrigger, TaskEnds, Poll, ThrottleElapses,
         AdjustResumes, HandleThrottle, ThrottlePauses, ThrottleResumes

LEMMA MessagesKept ==
  ASSUME FlowInv, [Next]_vars
  PROVE  ThreadsOK' /\ PlacesOK' /\ CapacityOK'
<1>1. CASE UNCHANGED <<message, thread, outbound, buffer, flush>>
  BY <1>1 DEF FlowInv, ThreadsOK, PlacesOK, CapacityOK, Messages, At, Holds
<1>2. CASE \E x \in Callers : ProduceMessage(x)
  BY <1>2, ProduceMessageKeeps
<1>3. CASE \E x \in Threads : Enqueue(x) \/ WaitEnds(x) \/ RefusedForNow(x) \/ Refused(x)
  BY <1>3, EnqueueKeeps, WaitEndsKeeps, RefusedForNowKeeps, RefusedKeeps
<1>4. CASE \E x \in Threads : QueueFullLooks(x) \/ QueueFullTells(x)
  BY <1>4, QueueFullKeeps
<1>5. CASE \E m \in Messages : BrokerAcks(m) \/ BrokerFails(m)
  <2>1. ASSUME NEW m \in Messages, BrokerAcks(m) PROVE ThreadsOK' /\ PlacesOK' /\ CapacityOK'
    BY <2>1, LastAnswerKeeps DEF BrokerAcks
  <2>2. QED
    BY <1>5, <2>1, BrokerFailsKeeps
<1>6. CASE TaskBegins \/ \E m \in Messages : TaskProduces(m)
  BY <1>6, TaskKeeps
<1>7. QED
  BY <1>1, <1>2, <1>3, <1>4, <1>5, <1>6, Moves

\* A thread at work on the poll task's behalf means that a flush is under way.
LEMMA TaskKept ==
  ASSUME FlowInv, [Next]_vars
  PROVE  TaskOK'
<1>1. TaskOK /\ ThreadsOK /\ PollTask \notin Callers /\ PollTask \in Threads
  BY FlowAssumption DEF FlowInv, Callers, Threads
<1>2. \/ TaskBegins \/ TaskEnds \/ Poll \/ \E m \in Messages : TaskProduces(m)
      \/ AdjustResumes \/ \E k \in ServingThreads : ThrottleResumes(k)
      \/ UNCHANGED <<task, flush, forced, forceSyncFlush, owed>>
  BY DEF Next, ThreadStep, PollTaskStep, PollThreadStep, vars, flowVars, throttleVars,
         requestVars, triggerVars, ProduceMessage, Enqueue, WaitEnds, RefusedForNow,
         Refused, QueueFullLooks, QueueFullTells, ResetQueueFullTrigger, BrokerAcks,
         BrokerFails, ThrottleElapses, HandleThrottle, ThrottlePauses
<1>3. CASE TaskBegins
  BY <1>1, <1>3 DEF TaskBegins, TaskOK
<1>4. CASE TaskEnds
  <2>1. forceSyncFlush' \in BOOLEAN
    BY <1>4 DEF TaskEnds
  <2>2. At(PollTask, "idle")' /\ flush' = {} /\ forced' = FALSE /\ owed' = owed /\ task' = "none"
    BY <1>4 DEF TaskEnds, Flushed, At
  <2>3. QED
    BY <1>1, <2>1, <2>2 DEF TaskOK
<1>5. CASE Poll
  BY <1>1, <1>5 DEF Poll, requestVars, TaskOK, At
<1>6. CASE \E m \in Messages : TaskProduces(m)
  BY <1>1, <1>6 DEF TaskProduces, requestVars, TaskOK
<1>7. CASE AdjustResumes \/ \E k \in ServingThreads : ThrottleResumes(k)
  <2>1. ResumeTopic /\ UNCHANGED flowVars
    BY <1>7 DEF AdjustResumes, ThrottleResumes
  <2>2. forceSyncFlush' \in BOOLEAN /\ owed' \in BOOLEAN
    BY <2>1 DEF ResumeTopic
  <2>3. QED
    BY <1>1, <2>1, <2>2 DEF flowVars, TaskOK, At
<1>8. CASE UNCHANGED <<task, flush, forced, forceSyncFlush, owed>>
  <2>1. task # "flushing" => thread'[PollTask] = thread[PollTask]
    <3>1. SUFFICES ASSUME task # "flushing" PROVE thread'[PollTask] = thread[PollTask]
      OBVIOUS
    <3>2. At(PollTask, "idle") /\ flush = {} /\ thread \in [Threads -> ThreadRecord]
      BY <1>1, <3>1 DEF TaskOK, ThreadsOK
    <3>3. CASE UNCHANGED <<message, thread, outbound, buffer, flush>>
      BY <3>3
    <3>4. CASE \E x \in Callers : ProduceMessage(x)
      BY <1>1, <3>2, <3>4 DEF ProduceMessage, Begins
    <3>5. ASSUME NEW x \in Threads,
                 Enqueue(x) \/ WaitEnds(x) \/ RefusedForNow(x) \/ Refused(x)
          PROVE  thread'[PollTask] = thread[PollTask]
      <4>1. x # PollTask
        BY <3>2, <3>5 DEF Enqueue, WaitEnds, RefusedForNow, Refused, At
      <4>2. \E step \in {"idle", "waiting"} : Goes(x, step)
        BY <3>5 DEF Enqueue, HandedOver, WaitEnds, RefusedForNow, Refused, Ends
      <4>3. QED
        BY <1>1, <4>1, <4>2, ThreadMoved
    <3>6. CASE \E x \in Threads : QueueFullLooks(x) \/ QueueFullTells(x)
      BY <1>1, <3>2, <3>6 DEF QueueFullLooks, QueueFullTells, Full, At, Goes
    <3>7. CASE \E m \in Messages : BrokerAcks(m) \/ BrokerFails(m)
      BY <1>1, <3>2, <3>7 DEF BrokerAcks, BrokerFails, SyncProducer
    <3>8. CASE TaskBegins \/ \E m \in Messages : TaskProduces(m)
      BY <1>8, <3>1, <3>2, <3>8 DEF TaskBegins, TaskProduces
    <3>9. QED
      BY <3>3, <3>4, <3>5, <3>6, <3>7, <3>8, Moves
  <2>2. QED
    BY <1>1, <1>8, <2>1 DEF TaskOK, At
<1>9. QED
  BY <1>2, <1>3, <1>4, <1>5, <1>6, <1>7, <1>8

LEMMA ThrottleKept ==
  ASSUME FlowInv, [Next]_vars
  PROVE  ThrottleOK'
<1>1. ThrottleOK /\ config.multiplier \in Nat
  BY DEF FlowInv, ConfigOK
<1>2. \/ UNCHANGED throttleVars \/ ThrottleElapses \/ AdjustResumes
      \/ \E k \in ServingThreads :
           \/ \E duration \in 0 .. 1 : HandleThrottle(k, duration)
           \/ ThrottlePauses(k) \/ ThrottleResumes(k)
  BY DEF Next, ThreadStep, PollTaskStep, PollThreadStep, vars, flowVars, throttleVars,
         requestVars, triggerVars, ProduceMessage, Enqueue, WaitEnds, RefusedForNow,
         Refused, QueueFullLooks, QueueFullTells, ResetQueueFullTrigger, BrokerAcks,
         BrokerFails, TaskBegins, TaskProduces, TaskEnds, Poll
<1>3. CASE UNCHANGED throttleVars
  BY <1>1, <1>3 DEF throttleVars, ThrottleOK
<1>4. CASE ThrottleElapses \/ AdjustResumes
  <2>1. CASE ThrottleElapses
    BY <1>1, <2>1 DEF ThrottleElapses, ThrottleOK
  <2>2. CASE AdjustResumes
    <3>1. /\ paused' = FALSE /\ pollThread' = "adjusting"
          /\ UNCHANGED <<throttle, callback, overlapped>>
      BY <2>2 DEF AdjustResumes, ResumeTopic
    <3>2. QED
      BY <1>1, <3>1 DEF ThrottleOK
  <2>3. QED
    BY <1>4, <2>1, <2>2
<1>5. ASSUME NEW k \in ServingThreads, NEW duration \in 0 .. 1, HandleThrottle(k, duration)
      PROVE  ThrottleOK'
  <2>1. duration * config.multiplier \in Nat
    BY <1>1
  <2>2. QED
    BY <1>1, <1>5, <2>1 DEF HandleThrottle, Throttled, ThrottleOK
<1>6. ASSUME NEW k \in ServingThreads, ThrottlePauses(k) \/ ThrottleResumes(k)
      PROVE  ThrottleOK'
  BY <1>1, <1>6 DEF ThrottlePauses, ThrottleResumes, ResumeTopic, ThrottleOK
<1>7. QED
  BY <1>2, <1>3, <1>4, <1>5, <1>6

LEMMA FlowInvKept ==
  ASSUME FlowInv, [Next]_vars
  PROVE  FlowInv'
<1>1. ConfigOK'
  BY ConfigKept DEF FlowInv, ConfigOK
<1>2. QED
  BY <1>1, MessagesKept, TaskKept, ThrottleKept DEF FlowInv

\* Only a look at the trigger makes a thread about to tell.
LEMMA NobodyElseTells ==
  ASSUME FlowInv, [Next]_vars, NEW y \in Threads, At(y, "telling")', ~At(y, "telling")
  PROVE  QueueFullLooks(y)
<1>1. ThreadsOK /\ Callers \subseteq Threads /\ PollTask \in Threads
  BY DEF FlowInv, Threads
<1>2. thread'[y].at = "telling" /\ thread[y].at # "telling" /\ thread \in [Threads -> ThreadRecord]
  BY <1>1 DEF At, ThreadsOK
<1>3. CASE UNCHANGED <<message, thread, outbound, buffer, flush>>
  BY <1>2, <1>3
<1>4. CASE \E x \in Callers : ProduceMessage(x)
  BY <1>1, <1>2, <1>4 DEF ProduceMessage, Begins
<1>5. ASSUME NEW x \in Threads,
             Enqueue(x) \/ WaitEnds(x) \/ RefusedForNow(x) \/ Refused(x) \/ QueueFullTells(x)
      PROVE  FALSE
  <2>1. \E step \in {"idle", "waiting", "producing"} : Goes(x, step)
    BY <1>5 DEF Enqueue, HandedOver, WaitEnds, RefusedForNow, Refused, Ends, QueueFullTells
  <2>2. QED
    BY <1>2, <2>1 DEF Goes
<1>6. ASSUME NEW x \in Threads, QueueFullLooks(x) PROVE QueueFullLooks(y)
  <2>1. x # y => thread'[y] = thread[y]
    BY <1>2, <1>6 DEF QueueFullLooks
  <2>2. x = y
    BY <1>2, <2>1
  <2>3. QED
    BY <1>6, <2>2
<1>7. CASE \E m \in Messages : BrokerAcks(m) \/ BrokerFails(m)
  <2>1. thread' = thread \/ thread'[y] = [thread[y] EXCEPT !.at = "producing"]
                         \/ thread'[y] = thread[y]
    BY <1>7 DEF BrokerAcks, BrokerFails
  <2>2. QED
    BY <1>2, <2>1 DEF ThreadRecord
<1>8. CASE TaskBegins \/ \E m \in Messages : TaskProduces(m)
  BY <1>1, <1>2, <1>8 DEF TaskBegins, TaskProduces, Begins
<1>9. QED
  BY <1>3, <1>4, <1>5, <1>6, <1>7, <1>8, Moves

LEMMA TriggerKept ==
  ASSUME FlowInv, TriggerInv, [Next]_vars
  PROVE  TriggerInv'
<1>1. config' = config /\ ThreadsOK
  BY ConfigKept DEF FlowInv
<1>2. CASE \E x \in Threads : QueueFullLooks(x)
  <2>1. PICK x \in Threads : QueueFullLooks(x)
    BY <1>2
  <2>2. /\ config.queueFull = "edgeTriggered" => trigger
        /\ UNCHANGED <<trigger, notified>>
        /\ raced' = (raced \/ \E y \in Threads : At(y, "telling"))
    BY <2>1 DEF QueueFullLooks
  <2>3. \A y \in Threads : y # x => (At(y, "telling")' <=> At(y, "telling"))
    BY <1>1, <2>1 DEF QueueFullLooks, ThreadsOK, At
  <2>4. raced' \in BOOLEAN /\ (~raced' => ~raced /\ \A y \in Threads : ~At(y, "telling"))
    BY <2>2
  <2>5. ~raced' => \A y, z \in Threads : At(y, "telling")' /\ At(z, "telling")' => y = z
    BY <2>3, <2>4
  <2>6. QED
    BY <1>1, <2>2, <2>4, <2>5 DEF TriggerInv
<1>3. CASE \E x \in Threads : QueueFullTells(x)
  <2>1. PICK x \in Threads : QueueFullTells(x)
    BY <1>3
  <2>2. /\ At(x, "telling") /\ trigger' = FALSE /\ raced' = raced
        /\ notified' = IF notified < 2 THEN notified + 1 ELSE 2
    BY <2>1 DEF QueueFullTells
  <2>3. \A y \in Threads : At(y, "telling")' => At(y, "telling") /\ y # x
    <3>1. Goes(x, "producing")
      BY <2>1 DEF QueueFullTells
    <3>2. /\ thread'[x] = [thread[x] EXCEPT !.at = "producing"] /\ thread[x] \in ThreadRecord
          /\ \A y \in Threads : y # x => thread'[y] = thread[y]
      BY <1>1, <3>1, ThreadMoved DEF ThreadsOK
    <3>3. thread'[x].at = "producing"
      BY <3>2 DEF ThreadRecord
    <3>4. QED
      BY <3>2, <3>3 DEF At
  <2>4. trigger' \in BOOLEAN /\ raced' \in BOOLEAN /\ notified' \in 0 .. 2
    <3>1. raced' \in BOOLEAN /\ notified \in 0 .. 2
      BY <2>2 DEF TriggerInv
    <3>2. notified' \in 0 .. 2
      BY <2>2, <3>1
    <3>3. QED
      BY <2>2, <3>1, <3>2
  <2>5. ASSUME config.queueFull = "edgeTriggered", ~raced
        PROVE  notified' = 1 /\ \A y \in Threads : ~At(y, "telling")'
    <3>1. notified = 0
      BY <2>2, <2>5 DEF TriggerInv
    <3>2. \A y \in Threads : At(y, "telling") => y = x
      BY <2>2, <2>5 DEF TriggerInv
    <3>3. QED
      BY <2>2, <2>3, <3>1, <3>2
  <2>6. QED
    BY <1>1, <2>2, <2>4, <2>5 DEF TriggerInv
<1>4. CASE ResetQueueFullTrigger
  <2>1. /\ trigger' = TRUE /\ notified' = 0 /\ raced' = raced
        /\ \A y \in Threads : At(y, "telling")' <=> At(y, "telling")
    BY <1>4 DEF ResetQueueFullTrigger, flowVars, At
  <2>2. QED
    BY <1>1, <2>1 DEF TriggerInv
<1>5. CASE /\ ~ResetQueueFullTrigger
           /\ \A x \in Threads : ~QueueFullLooks(x) /\ ~QueueFullTells(x)
  <2>1. UNCHANGED triggerVars
    BY <1>5 DEF Next, ThreadStep, PollTaskStep, PollThreadStep, vars, flowVars, throttleVars,
         requestVars, triggerVars, ProduceMessage, Enqueue, WaitEnds, RefusedForNow,
         Refused, BrokerAcks, BrokerFails, TaskBegins, TaskProduces, TaskEnds, Poll,
         ThrottleElapses, AdjustResumes, HandleThrottle, ThrottlePauses, ThrottleResumes
  <2>2. \A y \in Threads : At(y, "telling")' => At(y, "telling")
    BY <1>5, NobodyElseTells
  <2>3. QED
    BY <1>1, <2>1, <2>2 DEF triggerVars, TriggerInv
<1>6. QED
  BY <1>2, <1>3, <1>4, <1>5

LEMMA FlushKept ==
  ASSUME FlowInv, FlushInv, [Next]_vars
  PROVE  FlushInv'
<1>1. \/ TaskBegins \/ TaskEnds
      \/ AdjustResumes \/ \E k \in ServingThreads : ThrottleResumes(k)
      \/ UNCHANGED <<forced, forceSyncFlush, owed>>
  BY DEF Next, ThreadStep, PollTaskStep, PollThreadStep, vars, flowVars, throttleVars,
         requestVars, triggerVars, ProduceMessage, Enqueue, WaitEnds, RefusedForNow,
         Refused, QueueFullLooks, QueueFullTells, ResetQueueFullTrigger, BrokerAcks,
         BrokerFails, TaskProduces, Poll, ThrottleElapses, HandleThrottle, ThrottlePauses
<1>2. CASE TaskBegins
  BY <1>2 DEF TaskBegins, FlushInv
<1>3. CASE TaskEnds
  BY <1>3 DEF TaskEnds, FlushInv
<1>4. CASE AdjustResumes \/ \E k \in ServingThreads : ThrottleResumes(k)
  <2>1. forceSyncFlush' = TRUE /\ owed' = (owed \/ ~forced) /\ forced' = forced
    BY <1>4 DEF AdjustResumes, ThrottleResumes, ResumeTopic, flowVars
  <2>2. QED
    BY <2>1 DEF FlushInv
<1>5. CASE UNCHANGED <<forced, forceSyncFlush, owed>>
  BY <1>5 DEF FlushInv
<1>6. QED
  BY <1>1, <1>2, <1>3, <1>4, <1>5

-------------------------------------------------------------------------------
(* What the invariant says of the owners of a message                      *)

LEMMA OneOwner ==
  ASSUME FlowInv, NEW m \in Messages
  PROVE  Cardinality({x \in Threads : m \in InHand(x)})
           + Cardinality({p \in {<<"outbound", outbound>>, <<"buffer", buffer>>, <<"flush", flush>>} :
                            m \in p[2]}) <= 1 - message[m].reports
<1> DEFINE hands  == {x \in Threads : m \in InHand(x)}
           places == {p \in {<<"outbound", outbound>>, <<"buffer", buffer>>, <<"flush", flush>>} :
                        m \in p[2]}
<1>1. message[m].reports \in 0 .. 1 /\ PlacesOK
  BY MessageAt DEF FlowInv, ThreadsOK, MessageRecord
<1>2. \A x \in hands : x \in Threads /\ Holds(x) /\ thread[x].m = m
  BY DEF InHand, Holds
<1>3. hands = {} \/ \E x : hands = {x}
  BY <1>1, <1>2 DEF PlacesOK
<1>4. places = {} \/ \E p : places = {p}
  <2>1. CASE m \in outbound
    <3>1. m \notin buffer /\ m \notin flush
      BY <1>1, <2>1 DEF PlacesOK
    <3>2. places = {<<"outbound", outbound>>}
      BY <2>1, <3>1
    <3>3. QED
      BY <3>2
  <2>2. CASE m \in buffer
    <3>1. m \notin outbound /\ m \notin flush
      BY <1>1, <2>2 DEF PlacesOK
    <3>2. places = {<<"buffer", buffer>>}
      BY <2>2, <3>1
    <3>3. QED
      BY <3>2
  <2>3. CASE m \in flush
    <3>1. m \notin outbound /\ m \notin buffer
      BY <1>1, <2>3 DEF PlacesOK
    <3>2. places = {<<"flush", flush>>}
      BY <2>3, <3>1
    <3>3. QED
      BY <3>2
  <2>4. CASE m \notin outbound /\ m \notin buffer /\ m \notin flush
    BY <2>4
  <2>5. QED
    BY <2>1, <2>2, <2>3, <2>4
<1>5. places # {} => m \in outbound \union buffer \union flush
  OBVIOUS
<1>6. /\ hands # {} => places = {} /\ message[m].reports = 0
      /\ places # {} => message[m].reports = 0
  BY <1>1, <1>2, <1>5 DEF PlacesOK
<1> HIDE DEF hands, places
<1>7. /\ Cardinality(hands) = IF hands = {} THEN 0 ELSE 1
      /\ Cardinality(places) = IF places = {} THEN 0 ELSE 1
  BY <1>3, <1>4, FS_EmptySet, FS_Singleton
<1>8. Cardinality(hands) + Cardinality(places) <= 1 - message[m].reports
  BY <1>1, <1>6, <1>7
<1>9. QED
  BY <1>8 DEF hands, places

LEMMA InvImpliesTypeOK == FlowInv /\ TriggerInv => TypeOK
<1>1. SUFFICES ASSUME FlowInv, TriggerInv PROVE TypeOK
  OBVIOUS
<1>2. ThreadsOK /\ PlacesOK /\ CapacityOK /\ TaskOK /\ ThrottleOK
  BY <1>1 DEF FlowInv
<1>3. message \in Seq([left : Nat, reports : 0 .. 1, call : {"open", "returned", "threw"}])
  BY <1>2 DEF ThreadsOK, MessageRecord
<1>4. \A x \in Threads : /\ thread[x].at \in {"idle", "producing", "telling", "waiting"}
                         /\ thread[x].m \in Messages \union {0} /\ thread[x].notify \in BOOLEAN
  BY <1>2 DEF ThreadsOK, ThreadRecord
<1>5. /\ outbound \subseteq Messages /\ Cardinality(outbound) <= QueueCapacity
      /\ buffer \subseteq Messages /\ flush \subseteq Messages
  BY <1>2 DEF PlacesOK, CapacityOK
<1>6. /\ task \in {"none", "posted", "flushing"}
      /\ task # "flushing" => flush = {} /\ At(PollTask, "idle") /\ ~forced
  BY <1>2 DEF TaskOK
<1>7. \A b \in {forced, forceSyncFlush, paused, trigger, raced, overlapped, owed} : b \in BOOLEAN
  BY <1>1, <1>2 DEF TaskOK, ThrottleOK, TriggerInv
<1>8. /\ throttle \in Nat /\ callback \in [ServingThreads -> {"none", "pausing", "resuming"}]
      /\ pollThread \in {"adjusting", "resuming"} /\ notified \in 0 .. 2
  BY <1>1, <1>2 DEF ThrottleOK, TriggerInv
<1>9. QED
  BY <1>1, <1>3, <1>4, <1>5, <1>6, <1>7, <1>8, OneOwner DEF TypeOK

-------------------------------------------------------------------------------
(* Calls that wait for ever                                                *)

LEMMA SendIsAckedKept ==
  ASSUME FlowInv, FlowInv', SendIsAcked, [Next]_vars
  PROVE  SendIsAcked'
<1>1. config' = config /\ ConfigOK /\ ThreadsOK /\ PlacesOK
  BY ConfigKept DEF FlowInv
<1>2. SUFFICES ASSUME config.send = "forever", NEW m \in Messages',
                      message'[m].call = "returned"
               PROVE  message'[m].reports = 1
  BY <1>1 DEF SendIsAcked
<1>3. message'[m].reports \in 0 .. 1 /\ \A i \in Messages : message[i] \in MessageRecord
  <2>1. \A i \in Messages : message[i] \in MessageRecord
    BY <1>1, MessageAt DEF ThreadsOK
  <2>2. message'[m] \in MessageRecord
    BY DEF FlowInv, ThreadsOK, Messages
  <2>3. QED
    BY <2>1, <2>2 DEF MessageRecord
<1>4. /\ \A x \in Threads : ~At(x, "idle") => thread[x].m \in Messages
      /\ DOMAIN message = Messages
  BY <1>1 DEF ThreadsOK, Messages
\* Anything that returned before did so with its only report.
<1>5. ASSUME m \in Messages, message[m].call = "returned",
             message'[m].reports >= message[m].reports
      PROVE  message'[m].reports = 1
  BY <1>2, <1>3, <1>5 DEF SendIsAcked
<1>6. CASE UNCHANGED <<message, thread, outbound, buffer, flush>>
  BY <1>2, <1>3, <1>5, <1>6 DEF Messages, MessageRecord
<1>7. ASSUME NEW x \in Callers, ProduceMessage(x)
      PROVE  message'[m].reports = 1
  <2>1. /\ message' = Append(message, [left |-> config.retries, reports |-> 0, call |-> "open"])
        /\ message \in Seq(MessageRecord)
    BY <1>1, <1>7 DEF ProduceMessage, ThreadsOK
  <2>2. m \in Messages /\ message'[m] = message[m]
    BY <1>2, <2>1 DEF Messages
  <2>3. QED
    BY <1>2, <1>3, <1>5, <2>2 DEF MessageRecord
<1>8. ASSUME NEW x \in Threads, Enqueue(x) \/ WaitEnds(x)
      PROVE  message'[m].reports = 1
  <2>1. CASE message' = message
    BY <1>2, <1>3, <1>5, <2>1 DEF Messages, MessageRecord
  <2>2. CASE message' # message
    <3>1. WaitEnds(x) /\ x # PollTask /\ Ends(x, "returned") /\ ~At(x, "idle")
      BY <1>2, <1>8, <2>2 DEF Enqueue, HandedOver, WaitEnds, Ends, At
    <3>2. message[thread[x].m].reports > 0
      BY <1>2, <3>1 DEF WaitEnds
    <3>3. /\ Messages' = Messages
          /\ \A i \in Messages :
               message'[i] = IF i = thread[x].m /\ x # PollTask
                             THEN [message[i] EXCEPT !.call = "returned"] ELSE message[i]
      <4>1. ThreadsOK /\ ~At(x, "idle") /\ Ends(x, "returned")
        BY <1>1, <3>1
      <4>2. QED
        BY <4>1, CallEnded
    <3>4. CASE m = thread[x].m
      <4>1. m \in Messages /\ message[m] \in MessageRecord /\ message[m].reports > 0
        BY <1>2, <1>3, <3>2, <3>3, <3>4
      <4>2. message'[m] = [message[m] EXCEPT !.call = "returned"]
        BY <3>1, <3>3, <3>4, <4>1
      <4>3. message'[m].reports = message[m].reports
        BY <4>1, <4>2 DEF MessageRecord
      <4>4. QED
        BY <4>1, <4>3 DEF MessageRecord
    <3>5. CASE m # thread[x].m
      <4>1. m \in Messages /\ message'[m] = message[m]
        BY <1>2, <3>3, <3>5
      <4>2. QED
        BY <1>2, <1>3, <1>5, <4>1 DEF MessageRecord
    <3>6. QED
      BY <3>4, <3>5
  <2>3. QED
    BY <2>1, <2>2
<1>9. ASSUME NEW x \in Threads, RefusedForNow(x)
      PROVE  message'[m].reports = 1
  <2>1. x = PollTask /\ thread[x].m \in Messages
    BY <1>2, <1>4, <1>9 DEF RefusedForNow, At
  <2>2. message' = [message EXCEPT ![thread[x].m].left = @ - 1,
                                   ![thread[x].m].call = @]
    BY <1>9, <2>1 DEF RefusedForNow
  <2>3. /\ Messages' = Messages
        /\ \A i \in Messages : message'[i].call = message[i].call
                               /\ message'[i].reports = message[i].reports
    <3>1. Len(message') = Len(message)
      BY <1>1, <1>9, RefusedForNowKeeps, <2>2 DEF ThreadsOK, Messages
    <3>2. QED
      BY <1>3, <1>4, <2>1, <2>2, <3>1 DEF Messages, MessageRecord
  <2>4. QED
    BY <1>2, <1>3, <1>5, <2>3 DEF MessageRecord
<1>10. ASSUME NEW x \in Threads, Refused(x)
       PROVE  message'[m].reports = 1
  <2> DEFINE n == thread[x].m
             reports == IF x # PollTask /\ config.send = "forever" THEN 0 ELSE 1
  <2>1. n \in Messages
    BY <1>4, <1>10 DEF Refused, At
  <2>2. message' = [message EXCEPT ![n].reports = @ + reports,
                      ![n].call = IF x = PollTask THEN @ ELSE "threw"]
    BY <1>10 DEF Refused
  <2>3. /\ Messages' = Messages
        /\ \A i \in Messages : /\ message'[i].call = "returned" => message[i].call = "returned"
                               /\ message'[i].reports >= message[i].reports
    <3>1. Messages' = Messages
      BY <2>2, <1>1 DEF ThreadsOK, Messages
    <3>2. QED
      BY <1>3, <1>4, <2>1, <2>2, <3>1 DEF MessageRecord
  <2>4. QED
    BY <1>2, <1>5, <2>3
<1>11. ASSUME NEW x \in Threads, QueueFullLooks(x) \/ QueueFullTells(x)
       PROVE  message'[m].reports = 1
  <2>1. message' = message
    BY <1>11 DEF QueueFullLooks, QueueFullTells
  <2>2. QED
    BY <1>2, <1>3, <1>5, <2>1 DEF Messages, MessageRecord
<1>12. ASSUME NEW n \in Messages, BrokerAcks(n) \/ BrokerFails(n)
       PROVE  message'[m].reports = 1
  <2>1. \/ message' = [message EXCEPT ![n].reports = @ + 1]
        \/ message' = [message EXCEPT ![n].left = @ - 1]
    BY <1>12 DEF BrokerAcks, BrokerFails, Report
  <2>2. /\ Messages' = Messages
        /\ \A i \in Messages : /\ message'[i].call = message[i].call
                               /\ message'[i].reports >= message[i].reports
    <3>1. Messages' = Messages
      BY <2>1, <1>1 DEF ThreadsOK, Messages
    <3>2. QED
      BY <1>3, <1>4, <2>1, <3>1 DEF MessageRecord
  <2>3. QED
    BY <1>2, <1>5, <2>2
<1>13. CASE TaskBegins \/ \E n \in Messages : TaskProduces(n)
  <2>1. message' = message
    BY <1>13 DEF TaskBegins, TaskProduces
  <2>2. QED
    BY <1>2, <1>3, <1>5, <2>1 DEF Messages, MessageRecord
<1>14. QED
  BY <1>6, <1>7, <1>8, <1>9, <1>10, <1>11, <1>12, <1>13, Moves

-------------------------------------------------------------------------------
(* Theorems                                                                *)

\* All parts of the invariant hold together.
LEMMA FlowInvariant == Spec => [](FlowInv /\ TriggerInv /\ FlushInv)
<1>1. FlowInv /\ TriggerInv /\ FlushInv /\ [Next]_vars => (FlowInv /\ TriggerInv /\ FlushInv)'
  BY FlowInvKept, TriggerKept, FlushKept
<1>2. QED
  BY InitInv, <1>1, PTL DEF Spec

\* The variables keep their types, and the client holds every message in one place at
\* most, and in none that it has reported, for any number of threads, of messages and
\* of retries, and whatever fits into rdkafka's queue.
THEOREM FlowTypeCorrect == Spec => []TypeOK
  BY FlowInvariant, InvImpliesTypeOK, PTL

\* send() with wait.for.acks and no timeout returns only when its message was answered
\* for the last time, however often it was refused, failed and was tried again.
THEOREM SendReturnsAcked == Spec => []SendIsAcked
<1>1. Init => SendIsAcked
  BY DEF Init, SendIsAcked, Messages
<1>2. FlowInv /\ FlowInv' /\ SendIsAcked /\ [Next]_vars => SendIsAcked'
  BY SendIsAckedKept
<1>3. QED
  BY <1>1, <1>2, FlowInvariant, PTL DEF Spec

\* With edge triggering the application is told once until it resets the trigger, and
\* can be told again then, unless two threads looked at the trigger at once.
THEOREM EdgeTriggeredOnce == Spec => []EdgeTriggered
<1>1. TriggerInv => EdgeTriggered
  BY DEF TriggerInv, EdgeTriggered
<1>2. QED
  BY <1>1, FlowInvariant, PTL

\* The synchronous flush that resuming a producer asks for is not forgotten before it
\* begins, whatever flushes end in between.
THEOREM FlushNotForgotten == Spec => []ForcedFlushKept
<1>1. FlushInv => ForcedFlushKept
  BY DEF FlushInv, ForcedFlushKept
<1>2. QED
  BY <1>1, FlowInvariant, PTL

===============================================================================
