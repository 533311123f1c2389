--------------------------- MODULE ConsumerDispatch ---------------------------
(***************************************************************************)
(* The data path of one topic of ConsumerManagerImpl: the poll thread      *)
(* starts a coroutine, which has an IO thread read messages from rdkafka,  *)
(* has them deserialized, and calls the receiver for each one, itself or   *)
(* on the IO threads of the configured range.  A prefetching consumer      *)
(* reads its next batch while it works on the last one.                    *)
(*                                                                         *)
(* A message is its partition and its offset.  rdkafka hands the messages  *)
(* of a partition out in order; what a message holds and how it is         *)
(* deserialized is not modelled here.                                      *)
(***************************************************************************)
EXTENDS ConsumerSetup, Sequences, FiniteSets

CONSTANTS
  Partitions,   \* partition numbers
  LowThread,    \* internal.consumer.receive.callback.thread.range.low
  HighThread,   \* internal.consumer.receive.callback.thread.range.high
  BatchSize,    \* internal.consumer.read.size
  LogEnd,       \* bound: messages in each partition
  MaxFailures   \* bound: reads of a batch that end with an exception

ASSUME DispatchAssumption ==
  /\ Partitions \subseteq Nat
  /\ LowThread \in Nat /\ HighThread \in Nat /\ LowThread <= HighThread
  /\ BatchSize \in Nat \ {0} /\ LogEnd \in Nat /\ MaxFailures \in Nat

VARIABLES
  config,       \* the options of the consumer, fixed once it is set up
  position,     \* how many messages of each partition rdkafka has handed out
  reading,      \* the read that is under way, or whose result awaits a taker
  coroutine,    \* what the coroutine behind _pollFuture is doing
  batch,        \* the messages it still has to pass on
  parts,        \* a batch that is split: the part of each IO thread, until it is posted
  ioQueue,      \* receiver calls waiting for each IO thread
  received,     \* history: the messages of each partition the receiver has seen
  failures      \* reads that failed so far

vars == <<config, position, reading, coroutine, batch, parts, ioQueue, received, failures>>

Message == [partition : Partitions, offset : 1 .. LogEnd]

\* What setup() makes of any options that it accepts.
Options ==
  {s ++ f ++ t ++ x : s \in MayGive("poll.strategy", {"batch", "roundrobin", "other"}),
                      f \in MayGive("batch.prefetch", Flag),
                      t \in MayGive("receive.invoke.thread", {"io", "coro", "other"}),
                      x \in MayGive("receive.callback.exec", {"sync", "async", "other"})}

Config == {DispatchSettings(o) : o \in {x \in Options : Accepted(Brokers ++ x, HighThread + 1)}}

IoThreads == LowThread .. HighThread

NoRead  == [state |-> "none", messages |-> <<>>]
NewRead == [state |-> "running", messages |-> <<>>]

Init ==
  /\ config \in Config
  /\ position = [p \in Partitions |-> 0]
  /\ reading = NoRead
  /\ coroutine = "none" /\ batch = <<>>
  /\ parts = [q \in IoThreads |-> <<>>]
  /\ ioQueue = [q \in IoThreads |-> <<>>]
  /\ received = [p \in Partitions |-> <<>>]
  /\ failures = 0

------------------------------------------------------------------------------
(* The task on an IO thread that reads from rdkafka:                        *)
(* messageBatchReceiveTask, or messageRoundRobinReceiveTask, which pushes   *)
(* each message to the coroutine as it comes.                               *)

ReadNext(p) ==
  /\ reading.state = "running" /\ Len(reading.messages) < BatchSize
  /\ position[p] < LogEnd
  /\ position' = [position EXCEPT ![p] = @ + 1]
  /\ reading' = [reading EXCEPT
       !.messages = Append(@, [partition |-> p, offset |-> position[p] + 1])]
  /\ UNCHANGED <<config, coroutine, batch, parts, ioQueue, received, failures>>

\* The batch is full, or the poll timeout has passed.
ReadEnds ==
  /\ reading.state = "running"
  /\ reading' = [reading EXCEPT !.state = "ready"]
  /\ UNCHANGED <<config, position, coroutine, batch, parts, ioQueue, received, failures>>

\* poll_batch() throws before it has taken a message; the future keeps the
\* exception.  A round-robin read that throws just closes its buffer: ReadEnds.
ReadThrows ==
  /\ reading = NewRead /\ config.strategy = "batch"
  /\ failures < MaxFailures
  /\ failures' = failures + 1
  /\ reading' = [reading EXCEPT !.state = "failed"]
  /\ UNCHANGED <<config, position, coroutine, batch, parts, ioQueue, received>>

------------------------------------------------------------------------------
(* poll() and the coroutine: pollBatchCoro, or pollCoro and processorCoro   *)

\* Faulty variant: posts a coroutine without asking whether the last one ended.
PollRegardless ==
  /\ coroutine \in {"none", "awaiting"}
  /\ coroutine' = "started"
  /\ UNCHANGED <<config, position, reading, batch, parts, ioQueue, received, failures>>

\* poll() finds _pollFuture ready, or never set.
Poll ==
  /\ coroutine = "none"
  /\ coroutine' = "started"
  /\ UNCHANGED <<config, position, reading, batch, parts, ioQueue, received, failures>>

\* A coroutine that does not prefetch starts the read it will wait for.
StartRead ==
  /\ coroutine = "started" /\ ~config.prefetch
  /\ reading' = NewRead
  /\ coroutine' = "reading"
  /\ UNCHANGED <<config, position, batch, parts, ioQueue, received, failures>>

EndRead ==
  /\ coroutine = "reading" /\ reading.state = "ready"
  /\ batch' = reading.messages
  /\ reading' = NoRead
  /\ coroutine' = "deserializing"
  /\ UNCHANGED <<config, position, parts, ioQueue, received, failures>>

\* Faulty variant: the failed future is waited for once more.
EndFailedReadWaitsOn ==
  /\ coroutine = "reading" /\ reading.state = "failed"
  /\ UNCHANGED vars

\* The catch of pollBatchCoro(): the future was its own, and is gone.
EndFailedRead ==
  /\ coroutine = "reading" /\ reading.state = "failed"
  /\ reading' = NoRead
  /\ coroutine' = "none"
  /\ UNCHANGED <<config, position, batch, parts, ioQueue, received, failures>>

\* With prefetching it takes what _messagePrefetchFuture has read, once that is
\* there (the first time: nothing), and starts the read for the next coroutine.
TakePrefetched ==
  /\ coroutine = "started" /\ config.prefetch
  /\ reading.state \in {"none", "ready"}
  /\ batch' = reading.messages
  /\ reading' = NewRead
  /\ coroutine' = "deserializing"
  /\ UNCHANGED <<config, position, parts, ioQueue, received, failures>>

\* The read of the last coroutine threw, and so does get(), before the next read
\* is started: _messagePrefetchFuture stays the future whose get() throws.
TakeFailedPrefetch ==
  /\ coroutine = "started" /\ config.prefetch
  /\ reading.state = "failed"
  /\ coroutine' = "none"
  /\ UNCHANGED <<config, position, reading, batch, parts, ioQueue, received, failures>>

\* deserializeBatchCoro() has returned; processorCoro() waits message by message.
Deserialized ==
  /\ coroutine = "deserializing"
  /\ coroutine' = "delivering"
  /\ UNCHANGED <<config, position, reading, batch, parts, ioQueue, received, failures>>

------------------------------------------------------------------------------
(* Delivery                                                                 *)

\* Faulty variant: spreads the messages, not the partitions, over the threads.
MapMessageToQueue(m) == ((m.partition + m.offset) % (HighThread - LowThread + 1)) + LowThread

\* mapPartitionToQueue()
MapPartitionToQueue(m) == (m.partition % (HighThread - LowThread + 1)) + LowThread

Receive(m) == received' = [received EXCEPT ![m.partition] = Append(@, m)]

\* invokeSingleBatchReceiver() and invokeReceiver() on the coroutine.
DeliverOnCoroutine ==
  /\ coroutine = "delivering" /\ batch # <<>> /\ config.invoke = "coro"
  /\ Receive(Head(batch))
  /\ batch' = Tail(batch)
  /\ UNCHANGED <<config, position, reading, coroutine, parts, ioQueue, failures>>

\* processMessageBatchOnIoThreads() splits the batch, message by message,
SplitBatch ==
  /\ coroutine = "delivering" /\ batch # <<>>
  /\ config.invoke = "io" /\ config.strategy = "batch"
  /\ parts' = [parts EXCEPT ![MapPartitionToQueue(Head(batch))] = Append(@, Head(batch))]
  /\ batch' = Tail(batch)
  /\ UNCHANGED <<config, position, reading, coroutine, ioQueue, received, failures>>

\* and then posts each IO thread, in turn, its part.  An empty part, which is
\* posted too, calls no receiver.
PostPart(q) ==
  /\ coroutine = "delivering" /\ batch = <<>> /\ parts[q] # <<>>
  /\ \A low \in IoThreads : low < q => parts[low] = <<>>
  /\ ioQueue' = [ioQueue EXCEPT ![q] = @ \o parts[q]]
  /\ parts' = [parts EXCEPT ![q] = <<>>]
  /\ UNCHANGED <<config, position, reading, coroutine, batch, received, failures>>

\* processorCoro(): one message at a time; a synchronous one is waited for.
DeliverMessageOnIoThread ==
  /\ coroutine = "delivering" /\ batch # <<>>
  /\ config.invoke = "io" /\ config.strategy = "roundrobin"
  /\ ioQueue' = [ioQueue EXCEPT ![MapPartitionToQueue(Head(batch))] = Append(@, Head(batch))]
  /\ batch' = Tail(batch)
  /\ coroutine' = IF config.exec = "sync" THEN "awaiting" ELSE "delivering"
  /\ UNCHANGED <<config, position, reading, parts, received, failures>>

\* receiverMultipleBatchesTask(), receiverSingleBatchTask() and receiverTask().
IoThreadReceives(q) ==
  /\ ioQueue[q] # <<>>
  /\ Receive(Head(ioQueue[q]))
  /\ ioQueue' = [ioQueue EXCEPT ![q] = Tail(@)]
  /\ UNCHANGED <<config, position, reading, coroutine, batch, parts, failures>>

NothingToPost == \A q \in IoThreads : parts[q] = <<>>

\* Every receiver call of this consumer that was posted has returned.
ReceiversDone == \A q \in IoThreads : ioQueue[q] = <<>>

AwaitReceiver ==
  /\ coroutine = "awaiting" /\ ReceiversDone
  /\ coroutine' = "delivering"
  /\ UNCHANGED <<config, position, reading, batch, parts, ioQueue, received, failures>>

\* Faulty variant: no get() on the futures of the posted parts.
DeliveryEndsAtOnce ==
  /\ coroutine = "delivering" /\ batch = <<>> /\ NothingToPost
  /\ coroutine' = "none"
  /\ UNCHANGED <<config, position, reading, batch, parts, ioQueue, received, failures>>

\* The coroutine returns, a synchronous one after the last receiver call.
DeliveryEnds ==
  /\ coroutine = "delivering" /\ batch = <<>> /\ NothingToPost
  /\ config.exec = "sync" => ReceiversDone
  /\ coroutine' = "none"
  /\ UNCHANGED <<config, position, reading, batch, parts, ioQueue, received, failures>>

------------------------------------------------------------------------------
CoroutineStep ==
  \/ StartRead \/ EndRead \/ EndFailedRead
  \/ TakePrefetched \/ TakeFailedPrefetch \/ Deserialized
  \/ DeliverOnCoroutine \/ DeliverMessageOnIoThread
  \/ SplitBatch \/ \E q \in IoThreads : PostPart(q)
  \/ AwaitReceiver \/ DeliveryEnds

ReadStep == ReadEnds \/ ReadThrows \/ \E p \in Partitions : ReadNext(p)

Next ==
  \/ Poll \/ CoroutineStep \/ ReadStep
  \/ \E q \in IoThreads : IoThreadReceives(q)

Spec == Init /\ [][Next]_vars

\* The poll thread and the dispatcher keep running, a read ends by its timeout,
\* a receiver returns, and a partition that has messages is read again and again.
Fairness ==
  /\ WF_vars(Poll) /\ WF_vars(CoroutineStep) /\ WF_vars(ReadStep)
  /\ \A q \in IoThreads : WF_vars(IoThreadReceives(q))
  /\ \A p \in Partitions : SF_vars(ReadNext(p))

FairSpec == Spec /\ Fairness

------------------------------------------------------------------------------
(* Properties                                                               *)

\* The types of the variables, and what is left over between two coroutines.
TypeOK ==
  /\ config \in Config
  /\ position \in [Partitions -> 0 .. LogEnd]
  /\ reading \in [state : {"none", "running", "ready", "failed"}, messages : Seq(Message)]
  /\ Len(reading.messages) <= BatchSize
  /\ reading.state \in {"none", "failed"} => reading.messages = <<>>
  /\ ~config.prefetch /\ coroutine # "reading" => reading = NoRead
  /\ coroutine \in {"none", "started", "reading", "deserializing", "delivering", "awaiting"}
  /\ batch \in Seq(Message) /\ Len(batch) <= BatchSize
  /\ coroutine \in {"none", "started", "reading"} => batch = <<>>
  /\ parts \in [IoThreads -> Seq(Message)] /\ (coroutine # "delivering" => NothingToPost)
  /\ ioQueue \in [IoThreads -> Seq(Message)]
  /\ received \in [Partitions -> Seq(Message)]
  /\ failures \in 0 .. MaxFailures

\* Where a message of p can be, from the receiver back to the read that is under way.
Stages(p) ==
  LET q == MapPartitionToQueue([partition |-> p, offset |-> 1])
  IN  <<received[p], ioQueue[q], parts[q], batch, reading.messages>>

OffsetsOf(p, messages) ==
  {messages[i].offset : i \in {k \in DOMAIN messages : messages[k].partition = p}}

InOrder(p, messages) ==
  \A i, j \in DOMAIN messages :
    i < j /\ messages[i].partition = p /\ messages[j].partition = p
      => messages[i].offset < messages[j].offset

Ahead(p, front, back) == \A o \in OffsetsOf(p, front), r \in OffsetsOf(p, back) : o < r

\* "Ensures a maximum amount of parallelization while maintaining arrival order"
\* (CONFIGURATION.md, note 1): whatever the strategy, the thread and the mode of
\* the receiver calls, the messages of a partition that rdkafka has handed out
\* are on their way to the receiver, or were received, once each and in order.
ArrivalOrder ==
  \A p \in Partitions :
    /\ \A a \in 1 .. 5 : InOrder(p, Stages(p)[a])
    /\ \A a, b \in 1 .. 5 : a < b => Ahead(p, Stages(p)[a], Stages(p)[b])
    /\ UNION {OffsetsOf(p, Stages(p)[a]) : a \in 1 .. 5} = 1 .. position[p]

MessagesIn(messages) == {messages[i] : i \in DOMAIN messages}

\* What the coroutine has taken and no receiver has yet seen.
Waiting ==
  MessagesIn(batch) \union UNION {MessagesIn(parts[q]) \union MessagesIn(ioQueue[q]) : q \in IoThreads}

\* With synchronous receiver calls no more than one batch, and the one that is
\* prefetched, waits in memory however slow the receivers are.
Backpressure ==
  config.exec = "sync" =>
    Cardinality(Waiting \union MessagesIn(reading.messages))
      <= IF config.prefetch THEN 2 * BatchSize ELSE BatchSize

\* Every message reaches the receiver: a failed read is made good by the next
\* one, unless it was a prefetched one.
EveryMessageReceived ==
  \A p \in Partitions : \A o \in 1 .. LogEnd :
    <>(Len(received[p]) >= o \/ (config.prefetch /\ failures > 0))

==============================================================================
