-------------------------- MODULE BatchDeserializer --------------------------
(***************************************************************************)
(* How ConsumerManagerImpl deserializes what it has polled.  With the      *)
(* batch strategy deserializeBatchCoro splits a batch over the coroutine   *)
(* queues, and first, where the preprocessor runs on IO threads,           *)
(* executePreprocessorCallbacks splits it over those.  The workers share   *)
(* one vector<bool> of messages to skip, and look at _preprocess, which    *)
(* the application may toggle at any time, again and again.  With the      *)
(* round-robin strategy each message is deserialized on its own.           *)
(*                                                                         *)
(* The bits of a vector<bool> share a word: to write one is to load the    *)
(* word and to store it.                                                   *)
(***************************************************************************)
EXTENDS Serialization

CONSTANTS
  LowQueues,  \* coroQueueIdRangeForAny of the dispatcher may begin at one of these
  Widths,     \* how many coroutine queues it may hold
  NumThreads, \* IO threads of the dispatcher
  ReadBatch,  \* the longest batch, at most 64 messages: one word of bits
  MaxHeaders  \* bound: raw headers of a message that is read singly

ASSUME BatchAssumption ==
  /\ LowQueues \subseteq Nat /\ Widths \subseteq Nat \ {0}
  /\ NumThreads \in Nat \ {0} /\ MaxHeaders \in Nat
  /\ ReadBatch # <<>>
  /\ ReadBatch \in Seq([error : BOOLEAN, key : BOOLEAN, payload : BOOLEAN,
                         headers : Seq(RawHeaders)])

VARIABLES
  config,      \* options of the consumer and the dispatcher, fixed
  preprocess,  \* _preprocess
  stage,       \* where deserializeBatchCoro is
  batch,       \* messages
  allocated,   \* skipMessages is as long as the batch, and not empty
  skip,        \* the messages whose bit is set in it
  worker,      \* the tasks it waits for, by queue
  verdict,     \* history: what the callback said of each message
  outcome      \* what has become of each message

vars == <<config, preprocess, stage, batch, allocated, skip, worker, verdict, outcome>>

Size  == Len(batch)
Batch == 0 .. Size - 1

\* Options that setup() accepts or refuses.
Options ==
  {t ++ p ++ s ++ r ++ l ++ h :
     t \in MayGive("preprocess.invoke.thread", {"io", "coro", "other"}),
     p \in MayGive("preprocess.messages", Flag),
     s \in MayGive("skip.unknown.headers", Flag),
     r \in MayGive("poll.strategy", {"batch", "roundrobin"}),
     l \in MayGive("receive.callback.thread.range.low", -1 .. NumThreads),
     h \in MayGive("receive.callback.thread.range.high", -1 .. NumThreads)}

Settings ==
  {PreprocessSettings(o, callbacks, NumThreads) :
     o \in {x \in Options : Accepted(Brokers ++ x, NumThreads)},
     callbacks \in SUBSET {"preprocessor"}}

\* Only batches are split over queues.  What becomes of unknown headers has nothing
\* to do with the split, and is varied for messages that are read singly.
Init ==
  /\ \E s \in Settings, low \in LowQueues, coros \in Widths :
       /\ IF s.strategy = "roundrobin" THEN coros = 1 /\ s.ioThreads = NumThreads ELSE s.skipUnknown
       /\ config = [registered |-> s.registered, onIoThread |-> s.onIoThread, low |-> low,
                    coros |-> coros, ioThreads |-> s.ioThreads,
                    strategy |-> s.strategy, skipUnknown |-> s.skipUnknown]
       /\ preprocess = s.preprocess
  /\ stage = "ended" /\ batch = <<>> /\ allocated = FALSE /\ skip = {}
  /\ worker = <<>> /\ verdict = <<>> /\ outcome = <<>>

------------------------------------------------------------------------------
(* The split of a batch                                                     *)

\* Faulty variant: the remainder goes to nobody.
ShareRoundedDown(i, count) == Size \div count

\* How many messages the loop gives to the worker it numbers i.
Share(i, count) == Size \div count + IF i < Size % count THEN 1 ELSE 0

\* Faulty variant: the loop does not advance its index.
StartOfAll(first, i, count) == 0

\* Where its messages begin, first being the number the loop starts from: each worker
\* before it has the quotient, and some have one of the remainder.
Start(first, i, count) ==
  (i - first) * (Size \div count) + Cardinality({k \in first .. i - 1 : k < Size % count})

\* The workers of a loop, which ends when there is nothing left to give.
Workers(first, count) ==
  [i \in {k \in first .. first + count - 1 : Share(k, count) > 0} |->
     LET start == Start(first, i, count)
     IN  [start |-> start, next |-> start, end |-> start + Share(i, count),
          step |-> "look", word |-> {}]]

\* The loop over IO threads counts from 0, the one over coroutine queues from
\* the number of the first queue.
IoWorkers   == Workers(0, config.ioThreads)
CoroWorkers == Workers(config.low, config.coros)

\* The numbers either loop may give its workers.
Queues == UNION {low .. low + width - 1 : low \in {0} \union LowQueues,
                                         width \in Widths \union {NumThreads}}

WorkersDone == \A i \in DOMAIN worker : worker[i].next = worker[i].end

------------------------------------------------------------------------------
(* The coroutine of the batch, and the application                          *)

\* deserializedMessages are default-constructed first.
NextBatch(n) ==
  /\ stage = "ended" /\ config.strategy = "batch"
  /\ stage' = "begun" /\ batch' = SubSeq(ReadBatch, 1, n)
  /\ allocated' = FALSE /\ skip' = {} /\ worker' = <<>>
  /\ verdict' = [j \in 0 .. n - 1 |-> "none"]
  /\ outcome' = [j \in 0 .. n - 1 |-> NotDeserialized]
  /\ UNCHANGED <<config, preprocess>>

\* The first look at _preprocess decides whether skipMessages has any bits.
Begin ==
  LET preprocessing == config.registered /\ preprocess
  IN  /\ stage = "begun"
      /\ allocated' = (preprocessing /\ Size > 0)
      /\ IF preprocessing /\ config.onIoThread
         THEN stage' = "preprocessing" /\ worker' = IoWorkers
         ELSE stage' = "deserializing" /\ worker' = CoroWorkers
      /\ UNCHANGED <<config, preprocess, batch, skip, verdict, outcome>>

PreprocessingEnds ==
  /\ stage = "preprocessing" /\ WorkersDone
  /\ stage' = "deserializing" /\ worker' = CoroWorkers
  /\ UNCHANGED <<config, preprocess, batch, allocated, skip, verdict, outcome>>

DeserializingEnds ==
  /\ stage = "deserializing" /\ WorkersDone
  /\ stage' = "ended"
  /\ UNCHANGED <<config, preprocess, batch, allocated, skip, worker, verdict, outcome>>

\* preprocess(enable)
Preprocess(enable) ==
  /\ preprocess' = enable
  /\ UNCHANGED <<config, stage, batch, allocated, skip, worker, verdict, outcome>>

------------------------------------------------------------------------------
(* The workers                                                              *)

At(i, step) == worker[i].step = step /\ worker[i].next < worker[i].end

\* Faulty variant: the iterator was not advanced with the index.
MessageFromStart(i) == worker[i].next - worker[i].start

\* The message under the worker's iterator, which the callback is shown.
Message(i) == worker[i].next

\* The loop of an IO thread runs as long as _preprocess is set; the coroutines
\* preprocess where it is not left to IO threads.
Preprocesses ==
  preprocess /\ (stage = "preprocessing" \/ (config.registered /\ ~config.onIoThread))

\* The callback answers, and the word with the message's bit is loaded.
Judge(i, answer) ==
  /\ At(i, "look") /\ Preprocesses /\ allocated
  /\ verdict' = [verdict EXCEPT ![Message(i)] = answer]
  /\ worker' = [worker EXCEPT ![i].step = answer, ![i].word = skip]
  /\ UNCHANGED <<config, preprocess, stage, batch, allocated, skip, outcome>>

\* _preprocess was clear when the batch began and is set now: the bit is written
\* to a vector without any, and the process dies of it at best.
JudgeOutside(i) ==
  /\ At(i, "look") /\ Preprocesses /\ ~allocated
  /\ stage' = "crashed"
  /\ UNCHANGED <<config, preprocess, batch, allocated, skip, worker, verdict, outcome>>

\* The word is stored, with the message's bit as the callback answered.
Store(i) ==
  /\ At(i, "drop") \/ At(i, "keep")
  /\ skip' = IF worker[i].step = "drop" THEN worker[i].word \union {worker[i].next}
                                        ELSE worker[i].word \ {worker[i].next}
  /\ worker' = IF stage = "preprocessing"
               THEN [worker EXCEPT ![i].step = "look", ![i].next = @ + 1, ![i].word = {}]
               ELSE [worker EXCEPT ![i].step = "settle", ![i].word = {}]
  /\ UNCHANGED <<config, preprocess, stage, batch, allocated, verdict, outcome>>

\* Faulty variant: the loop waits for _preprocess to be set again.
LeaveRestWaits(i) == At(i, "look") /\ ~Preprocesses /\ UNCHANGED vars

\* An IO thread finds _preprocess clear and leaves its other messages alone.
LeaveRest(i) ==
  /\ stage = "preprocessing" /\ At(i, "look") /\ ~Preprocesses
  /\ worker' = [worker EXCEPT ![i].next = worker[i].end]
  /\ UNCHANGED <<config, preprocess, stage, batch, allocated, skip, verdict, outcome>>

\* A coroutine has nothing to preprocess.
PassOver(i) ==
  /\ stage = "deserializing" /\ At(i, "look") /\ ~Preprocesses
  /\ worker' = [worker EXCEPT ![i].step = "settle"]
  /\ UNCHANGED <<config, preprocess, stage, batch, allocated, skip, verdict, outcome>>

\* Faulty variant: a bit counts only while _preprocess is set.
SkippedNow(i) == preprocess /\ worker[i].next \in skip

Skipped(i) == worker[i].next \in skip

\* The message is marked as dropped, or deserialized.  inputIt goes with the index.
Settle(i) ==
  /\ At(i, "settle")
  /\ outcome' = [outcome EXCEPT ![worker[i].next] =
                   IF Skipped(i) THEN Dropped
                   ELSE DeserializeMessage(batch[Message(i) + 1], config.skipUnknown)]
  /\ worker' = [worker EXCEPT ![i].step = "look", ![i].next = @ + 1]
  /\ UNCHANGED <<config, preprocess, stage, batch, allocated, skip, verdict>>

------------------------------------------------------------------------------
(* A message that is read singly                                            *)

SingleMessages == Messages(MaxHeaders) \union SentMessages

\* deserializeCoro, for a message without an error of rdkafka: the preprocessor is
\* asked first.  pollCoro passes any other on as it is.
ReadSingly(message, answer) ==
  LET judged == ~message.error /\ config.registered /\ preprocess
  IN  /\ stage = "ended" /\ config.strategy = "roundrobin" /\ Size = 0
      /\ batch' = <<message>>
      /\ verdict' = [j \in {0} |-> IF judged THEN answer ELSE "none"]
      /\ outcome' = [j \in {0} |->
           IF message.error THEN NotDeserialized
           ELSE IF judged /\ answer = "drop" THEN Dropped
           ELSE DeserializeMessage(message, config.skipUnknown)]
      /\ UNCHANGED <<config, preprocess, stage, allocated, skip, worker>>

\* processorCoro has moved it on to its receiver.
PassOn ==
  /\ stage = "ended" /\ config.strategy = "roundrobin" /\ Size = 1
  /\ batch' = <<>> /\ verdict' = <<>> /\ outcome' = <<>>
  /\ UNCHANGED <<config, preprocess, stage, allocated, skip, worker>>

------------------------------------------------------------------------------
WorkerStep(i) ==
  \/ \E answer \in {"drop", "keep"} : Judge(i, answer)
  \/ JudgeOutside(i) \/ Store(i) \/ LeaveRest(i) \/ PassOver(i) \/ Settle(i)

Next ==
  \/ \E n \in 0 .. Len(ReadBatch) : NextBatch(n)
  \/ \E message \in SingleMessages, answer \in {"drop", "keep"} : ReadSingly(message, answer)
  \/ PassOn
  \/ Begin \/ PreprocessingEnds \/ DeserializingEnds
  \/ \E i \in DOMAIN worker : WorkerStep(i)
  \/ \E enable \in BOOLEAN : Preprocess(enable)

Spec == Init /\ [][Next]_vars

\* The tasks run on threads of the dispatcher, which takes up every one it is
\* given; their futures wake the coroutine that waits.
Fairness ==
  /\ WF_vars(Begin) /\ WF_vars(PreprocessingEnds) /\ WF_vars(DeserializingEnds)
  /\ \A i \in Queues : WF_vars(i \in DOMAIN worker /\ WorkerStep(i))

FairSpec == Spec /\ Fairness

------------------------------------------------------------------------------
(* Properties                                                               *)

\* The types, that no options leave the loop over IO threads without any, and that
\* the workers share the batch out: each one stays within its own part, no message
\* is in two, and no bit of another batch is set.
TypeOK ==
  /\ config.ioThreads \in 1 .. NumThreads
  /\ preprocess \in BOOLEAN /\ allocated \in BOOLEAN
  /\ stage \in {"begun", "preprocessing", "deserializing", "ended", "crashed"}
  /\ Size <= Len(ReadBatch) /\ skip \subseteq Batch
  /\ DOMAIN verdict = Batch /\ DOMAIN outcome = Batch
  /\ \A j \in Batch : verdict[j] \in {"none", "drop", "keep"}
  /\ \A i \in DOMAIN worker :
       /\ worker[i].start <= worker[i].next /\ worker[i].next <= worker[i].end
       /\ worker[i].end <= Size
       /\ worker[i].step \in {"look", "drop", "keep", "settle"}
       /\ worker[i].word \subseteq Batch
       /\ \A k \in DOMAIN worker \ {i} :
            worker[i].end <= worker[k].start \/ worker[k].end <= worker[i].start
  /\ skip # {} => allocated

\* What the receiver is given for message j of a batch that has ended.
ToReceiver(j) == Received(batch[j + 1], outcome[j])

\* A message of rdkafka that is read singly and carries an error is passed on as it is.
PassedOn(j) ==
  config.strategy = "roundrobin" /\ batch[j + 1].error /\ outcome[j] = NotDeserialized

\* Only one worker at a time asks the callback.
OneJudge == (IF config.onIoThread THEN config.ioThreads ELSE config.coros) = 1

IsSettled(j) ==
  /\ \/ outcome[j] = DeserializeMessage(batch[j + 1], config.skipUnknown)
     \/ outcome[j] = Dropped /\ verdict[j] = "drop"
     \/ PassedOn(j)
  /\ OneJudge /\ verdict[j] = "drop" => outcome[j] = Dropped

\* README.md:34, "deserialization is handled internally": each message of a batch
\* goes on to its receiver deserialized, and is itself what was, or it is dropped.
\* However the workers race for the word of bits, none is dropped that the
\* application's preprocessor did not ask to drop; and one worker at a time loses no
\* such verdict.
EveryMessageSettled == stage = "ended" => \A j \in Batch : IsSettled(j)

\* What the accessors of a received message tell its receiver is true of the message
\* that was read, whatever worker deserialized it.
AccessorsTellTruth ==
  stage = "ended" => \A j \in Batch :
    /\ ValuesTold(batch[j + 1], config.skipUnknown, ToReceiver(j))
    /\ ErrorsTold(batch[j + 1], config.skipUnknown, ToReceiver(j))

\* corokafka_topic.h: producer and consumer agree on a topic.  Whichever headers were
\* left out, each one is given back at the position it was given for.
SentIsReceived ==
  stage = "ended" => \A j \in Batch :
    IsSent(batch[j + 1]) => GivenBack(batch[j + 1], ToReceiver(j))

\* Toggling the preprocessor never leaves the coroutine of a batch waiting.
BatchEnds == stage = "begun" ~> stage \in {"ended", "crashed"}

===============================================================================
