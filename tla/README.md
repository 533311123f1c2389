# CoroKafka in TLA+

CoroKafka is a C++ wrapper of cppkafka/librdkafka which runs producers and consumers on the coroutines
and IO threads of the quantum library. This directory models its core: what happens to messages, offsets and
flags when the application, two polling threads, IO threads, coroutines, rdkafka's callbacks and the
broker act in any order. Paths below are relative to `src/corokafka/` unless they name a document
of the repository's root; `PROJECT.json` maps every definition to its lines.

## Inventory

| Component | Code | State it keeps | Operations | What is hard | What makes it correct |
|---|---|---|---|---|---|
| Interval set | `utils/corokafka_interval_set.h` | a `std::map` from the first to the last point of each closed range | `insert`, `erase`, `find`, `count` | ranges that touch, overlap, contain or join others; which element the returned iterator names after merging | one normal form per set of points; `insert` adds what was asked and answers with the maximal range and "modified" |
| Offset manager | `utils/corokafka_offset_manager.{h,cpp}` | per partition: offsets saved ahead (`_offsets`), `_beginOffset`, `_currentOffset`, one mutex | `saveOffset`, `forceCommit`, `forceCommitCurrentOffset` | many threads; claims under the lock and commits outside it; unlocked reads; forced commits; rebalances, restarts, failed commits | a restart never skips an unfinished message; every finished message is in the end claimed |
| Producer manager | `impl/corokafka_producer_manager_impl.{h,cpp}`, `corokafka_producer_topic_entry.h`, `corokafka_packed_opaque.*` | `_messageQueue` and its condition variable, a buffered producer and a poll task per topic; fan-out, shutdown, `_forceSyncFlush`, `_queueFullTrigger`, `_throttleControl` | `post`, `send`, `poll`, `enableMessageFanout`, `shutdown`, `produceMessage`, `flush`, `resetQueueFullTrigger`, delivery, queue-full and throttle callbacks | a raw `PackedOpaque*` travels through queues, rdkafka and callbacks; ordered flushes; fan-out; retries that meet waits; throttling on several threads; shutdown | one owner per opaque; order of a topic; every message is answered; a pause by throttling ends; shutdown returns |
| Connector | `impl/corokafka_connector_impl.{h,cpp}` | `_interrupt`, two threads, a dispatcher | the `poll` and `post` loops, `shutdown` with its joins and the drain of the dispatcher | ending threads which may be asleep or busy, with tasks that the drain waits for | shutdown returns, what was accepted has been sent |
| Consumer data path | `impl/corokafka_consumer_manager_impl.*`, `corokafka_consumer_topic_entry.h` | `_pollFuture`, `_messagePrefetchFuture`, queues of the IO threads | `poll`, batch and round-robin reads, prefetching, delivery to receivers | two reads and a delivery under way at once; receivers on several threads; failing reads | each partition's messages are received once, in order, all of them, with bounded memory |
| Consumer control | same files, `corokafka_throttle_control.h` | `_isSubscribed`, `_isPaused`, `_setOffsetsOnStart`, `_throttleControl` | `pause`, `resume`, `subscribe`, `unsubscribe`, `adjustThrottling`, assignment, revocation and throttle callbacks | flags shared without a lock by the application, the poll thread and rdkafka's callbacks | pauses hold, throttling ends, members are polled, configured offsets are used once |
| Deserialization | `impl/corokafka_consumer_manager_impl.cpp:851-1089`, `corokafka_header_pack.*`, `corokafka_receiver.h` | vectors shared by the coroutines of a batch; the error flags of each message | `preprocessorCoro`, `deserializeBatchCoro`, `deserializeMessage`, the accessors of `ReceivedMessage` and `HeaderPack` | how a batch is split; `vector<bool>` written by several threads; the preprocess flag read twice; which of several errors is told | every message is deserialized once; what the accessors give is what was read |
| Serialization | `impl/corokafka_producer_manager_impl.h:210-307`, `corokafka_utils.h` | none | `serializeHeaders`, `serializeMessage`, `serializeCoro` | null headers in the middle of a pack; names that are declared twice | what a producer sends is what the consumer's accessors give back |
| Received messages, opaques | `impl/corokafka_received_message_impl.h`, `corokafka_offset_map.h` | per message: committed or not, its opaque; per consumer: `OffsetMap` | `commit`, destructor, `offsetCommitCallback` | opaques found again by offset arithmetic and by position | the callback reports each opaque once, with its partition |
| Configuration | `corokafka_*configuration*` | option tables | filtering, validation, `setup()` | many options that depend on each other | threads, commits and rdkafka agree on who persists what and where receivers run |
| Values | `corokafka_sent_message.*`, `corokafka_delivery_report.*`, `corokafka_metadata.*`, ... | values | accessors | nothing over time | pure |
| cppkafka, librdkafka, quantum | external | | | | modelled from the calls made to them |

**How they interact.** `ConnectorImpl` owns the dispatcher and two threads. Its *post thread* loops over
`ProducerManagerImpl::post()`, which sleeps on a condition variable, swaps `_messageQueue` and hands each
message to rdkafka or to the topic's `BufferedProducer`. Its *poll thread* loops over `poll()` of both
managers, which start *poll tasks* on IO threads (producers: ordered flushes) or *coroutines* (consumers: read,
deserialize, receive) unless the last one is still busy, as `_pollFuture` tells. rdkafka calls back on the
thread that polls it: delivery reports, rebalances, throttling, commits. Receivers save offsets with an
`OffsetManager`, which commits through `ConsumerManagerImpl::commit`.

## Modules

    Runs <- PointSet <- (refined by) IntervalSet <- MCIntervalSet;  IntervalSet <- IntervalSetProofs
    Runs <- OffsetLedger <- (refined by) OffsetManager <- MCOffsetManager;  OffsetManager <- OffsetManagerProofs
    ProducerManager <- MCProducerManager;  ProducerManager <- ProducerManagerProofs
    ConfigurationOptions <- ProducerSetup <- ProducerFlow <- ProducerFlowProofs
    ConfigurationOptions <- ConsumerSetup <- ConsumerDispatch <- MCConsumerDispatch;  ConsumerDispatch <- ConsumerDispatchProofs
    ConsumerSetup <- ConsumerControl <- ConsumerControlProofs
    ConsumerSetup <- ReceivedMessages <- MCReceivedMessages;  ReceivedMessages <- ReceivedMessagesProofs
    ConsumerSetup <- Deserialization <- Serialization <- BatchDeserializer <- MCBatchDeserializer;  BatchDeserializer <- BatchDeserializerProofs

- **`Runs`**: the maximal run of a set of naturals around a point. The language that the two abstract specifications share.
- **`PointSet`**: what an interval set promises, on a plain set of points. **`IntervalSet`**: the code's
  algorithm on the map, with the branches of `insert()` (new key, existing key, merge loop, `canAbsorb`,
  `canMerge`), implements it: `points` is what the ranges cover, `answer` is the returned iterator.
- **`OffsetLedger`**: what the manager promises to an application that saves each message once: `current` is the
  first unsaved offset and only offsets below it are published. **`OffsetManager`**: `offsets` stands
  for the points of `_offsets`, which is sound because `IntervalSet` implements `PointSet`. A thread's call is cut
  where others can run: `Save` is `insertOffset()` under the lock, `Commit`/`CommitFails` comes after it,
  `ReadCurrent` and `InsertCurrent` are the unlocked read and the insertion of `forceCommitCurrentOffset()`,
  `ForceCommitNext` visits one partition of the loop, and `AppendToBatch` adds to the list that is committed by the consumer of its
  first partition (`head`). `ForceCommit` takes any offset of `CallersOffsets` from its caller. `Rebalance` and `Restart` put `position` back to the group's committed offset;
  a restart also begins a new manager at the low watermark.
- **`ProducerManager`**: one sequence per place a message can wait in (`_messageQueue`, the post thread's local
  queue, an IO queue, a buffer, what a flush holds, rdkafka). Actions are the steps between two lock or queue operations:
  `CheckQueueLength` reads the buffer's length, `Post` enqueues and notifies; `PostSleeps`, `PostSwaps`, `PostNext` and `PostEndsBatch` are
  the post thread; `Poll`, `PollTask`, `FlushNext` and `PollTaskEnds` the poll thread and its flushing task, which
  `FlushThrows` ends before its time (what the flush held goes to `abandoned`);
  `Shutdown`, `DrainProducer` and `DrainNext` are `shutdown()` of the manager, and `connector` is where the connector's is behind it: `Interrupt`
  ends the loops, `JoinThreads` waits for both threads, `DrainDispatcher` for the tasks, after which `post()` throws (`PostThrows`).
- **`ConfigurationOptions`**: the options of a producer or consumer as `Configuration` keeps and filters them.
- **`ProducerSetup`**: what `filterOptions()` and `setup()` make of a producer's options: how long calls wait, retries, throttling, notifications.
- **`ProducerFlow`**: what lies behind `produceMessage()` for a producer without order preservation. A caller is `producing` or `waiting`
  for its ack; `RefusedForNow` and `Refused` are rdkafka's full queue, `BrokerFails` a failed attempt that goes back to the buffer or to
  the sender, `TaskBegins`, `TaskProduces` and `TaskEnds` the poll task and its flush (synchronous if `_forceSyncFlush` was found set),
  `QueueFullLooks` and `QueueFullTells` the two steps on `_queueFullTrigger`, `HandleThrottle` and `ThrottlePauses`/`ThrottleResumes`
  a throttle callback before and after it lets go of `ThrottleControl`.
- **`ConsumerSetup`**: what `filterOptions()` and `setup()` make of a consumer's options and callbacks: which of them they accept, the fields of the
  `ConsumerTopicEntry`, the callbacks hung on rdkafka, and its settings that are overridden. It has no state of its own; the configurations
  of the modules below it are what it returns for every combination of the options that concern them.
- **`ConsumerDispatch`**: `Poll` starts a coroutine, `StartRead`/`TakePrefetched` and `EndRead` are its two
  ways to a batch, `ReadNext`, `ReadEnds` and `ReadThrows` the task on the IO thread, and
  `DeliverOnCoroutine`, `SplitBatch` with `PostPart`, and `DeliverMessageOnIoThread` the three ways to the receiver. `config` ranges over all nine
  legal combinations of poll strategy, prefetching, receiver thread and receiver mode.
- **`ConsumerControl`**: each call of the application is the call of cppkafka and then the write of the flag, in the
  code's order; the poll thread's look at `_isPaused` and its `resume()` are two steps; so are the throttle
  callback's decision and its `pause()`/`resume()`. A rebalance is an event that waits inside rdkafka until the
  consumer is polled. A consumer with static partitions has no group, and with `pause.on.start` it begins paused.
- **`Deserialization`**: `deserializeMessage()` with its loop over the raw headers of a message, a recursive function of the header it has come to (unknown ones
  skipped or an error, the loop left at the first spoilt one), the constructor's and accessors' checks, and, without a loop, what the accessors ought to tell (`ValuesTold`, `ErrorsTold`).
- **`Serialization`**: which parts `send()` and `post()` accept, the headers they make of them, and the message a consumer polls.
- **`BatchDeserializer`**: `NextBatch` and `Begin` are `deserializeBatchCoro` up to the first look at `_preprocess`, `Workers` the
  split of the batch that both loops make, with the number each loop starts from. A worker that preprocesses
  looks at `_preprocess` and asks the callback (`Judge`: it loads the word of `vector<bool>` with the message's bit) and stores the word (`Store`);
  `LeaveRest` and `PassOver` are what an IO thread and a coroutine do when the flag is clear, `JudgeOutside` the write to
  the vector that the batch left empty; `Settle` drops or deserializes. `ReadSingly` is
  `deserializeCoro()` of round-robin polling, for every message of a few headers and every one that `Serialization` can have sent.
- **`ReceivedMessages`**: `CommitCall` is either `ReceivedMessage::commit()` or `ConsumerManagerImpl::commit()` of one or more positions, `CommitAtEnd`
  the former on a message that only tells of the end of its partition, `Destroy` the destructor (with or
  without an exception), `StoreOffset`, `AsyncCommit`, `SyncCommit` and `CommitThrows` the branches of `doCommit()`,
  `AttemptEnds` the retry that `offsetCommitErrorCallback()` decides on, `OffsetCommitCallback` one turn of the callback's loop over the partitions of an event (and, with the last,
  the call of the application's callback): between two turns other threads insert opaques. `requests` and
  `events` are rdkafka's: what the broker has not answered, and the answers that the next poll delivers.

Operators named as faulty variants stand next to the definitions they differ from by one mistake; the
mutants of `PROJECT.json` put them in their place and the named property must then fail.

## Runs

| Run | Question | Bounds, and why they are enough |
|---|---|---|
| `interval_set` | do all insert/erase sequences keep the normal form, give a valid iterator, count what is there, and implement `PointSet`? | points 0..7: room for four separate ranges, and for an insertion that joins three; every subset of the points is reached |
| `offset_saves` | with saves only: is `current` the first unsaved offset, is everything claimed in the end, is `OffsetLedger` implemented? | three threads, five messages, failing commits: a gap can be closed from either side by one thread while a second commits and a third waits |
| `offset_forced` | do `NoMessageLost` and `NoRangeLeftBehind` survive forced commits, a rebalance or restart, failed commits, two groups, a hole, an unknown partition? | two threads, three partitions, two forced operations, one disruption: the smallest where a list crosses groups and two forced calls interleave; a caller of `forceCommit(partition)` names no offset or any of 0 to 5, below, within and beyond the logs |
| `offset_order` | violation: commits of a partition go back | two threads |
| `producer_messages` | one owner, order, one message in flight; is each message answered that no throwing flush held, does shutdown return? | an ordered and an unordered topic, two messages, a buffer of one, one switch of fan-out, shutdown at any time |
| `producer_shutdown` | violation: accepted messages are not sent | two messages |
| `producer_flow` | is a message in one place and answered once, a sender that waits for ever acked, the edge told once, a forced flush kept, a throttled producer resumed? | one sender, one IO thread and the poll task on a queue of one: it is full as soon as two of them produce; one and two retries; two threads that serve three throttle callbacks; a multiplier that wraps to 0 |
| `consumer_dispatch` | order, backpressure, completeness in all nine configurations | three partitions on two IO threads (two share one), batches of two, two messages each, one failed read |
| `consumer_control` | pauses, throttling, configured offsets, polling, under all interleavings | static and dynamic partitions, with and without callbacks, offsets and `pause.on.start`; one more subscription, one revocation, two throttle callbacks (on and off) |
| `consumer_revoked` | violation: with a `RebalanceCallback` a revoked consumer is never polled again | one revocation |
| `batch_deserializer` | is every message of a batch settled, dropped only when asked to; do the accessors tell what was read, and what was sent; does the batch end? | up to four messages that all decode differently, one and three queues from number 0, every range of three IO threads: even and uneven splits, fewer messages than workers, three workers racing for a word; singly, all messages of up to two headers and all that a producer can send, with three declared names, of which two are equal and one differs in its case |
| `received_messages` | is each opaque passed back once, with its position, and what does an exception leave uncommitted? | three positions in two partitions (two are neighbours, where offset arithmetic goes wrong; two partitions make a list), two at a time with the message's own `commit()`; an end of partition at which a message follows later; two calls of `commit()`, one failure, one retry |

Deadlock is not checked where a log ends, a system has shut down, a process has crashed or every message is gone; the
consumers of `ConsumerDispatch` and `ConsumerControl` are polled for ever.
`MaxForced`, `MaxDisruptions`, `MaxMessages`, `MaxSwitches`, `MaxFailures`, `MaxCommits`, `MaxObjects`, `MaxSubscribes`, `MaxRebalances`, `MaxThrottles`, `MaxHeaders`,
`LogEnd` and `MaxPoint` are bounds of the models and not of the code.

### What the violations show

1. `CommitsInOrder`: a range is claimed under the lock and committed after it is released, so the later claim may be
   committed first and the group's offset goes back (README.md:46 says that this is prevented). `NoMessageLost` still holds: the cost is redelivery.
2. `BufferedMessagesSent`: `shutdown()` makes the post thread return before it takes the messages that `post()`
   accepted, against `corokafka_producer_manager.h:100`.
3. `MemberIsPolled`: `revocationCallback()` clears `_isSubscribed`, `poll()` skips the consumer, and the
   assignment that would set it again is delivered by polling only. `consumer_control` shows that without a
   `RebalanceCallback` nothing of the kind happens.

### What the properties had to excuse

These are places where the code does less than its documents say, or than one would expect; the models show them, and the properties are stated around them.

*Offset manager.*

- `saveOffset()` commits the offset it was called with and not the end of the range it claimed, so the range
  "[getBeginOffset(), getCurrentOffset())" of `utils/corokafka_offset_manager.h:56` may be larger than what is committed.
- `forceCommit(partition)` takes the lowest range, but commits the `TopicPartition` of its caller with whatever offset it carries
  (`utils/corokafka_offset_manager.cpp:139`), which may lie beyond every saved one. A forced commit gives up what it goes past, so
  `NoMessageLost` excuses the messages that were unfinished below the range or below the caller's offset when it was called (`skipped`), and no others.
- After a restart the manager begins at the low watermark, but the consumer at the group's committed offset: what lies between is not delivered again,
  so no range begins at `_currentOffset` and no save is committed any more. After a rebalance an offset saved again behind `_currentOffset` merges
  with the ranges ahead and keeps them from being claimed. Nothing is lost (`NoMessageLost`) and no range that begins at `_currentOffset`
  is left (`NoRangeLeftBehind`), but the group's offset may stop advancing, and no property of `offset_forced` forbids that: `EveryMessageIsClaimed`
  is checked without rebalances, restarts and forced commits.

*Producers.*

- `OrderPreserved` is stated for one switch of fan-out and until shutdown: switched off again, messages of an IO
  queue are overtaken by those the post thread now produces itself; and the flush of `shutdown()` overtakes what an ordered flush still holds.
- When the client refuses a message with another error than a full queue during the flush of an ordered topic, `flush(true)` throws, `pollTask()` reports
  the exception and ends (`impl/corokafka_producer_manager_impl.cpp:585`), and what the flush had taken from the buffer is gone: neither sent nor reported, its futures
  never ready. `EveryMessageAnswered` (`ProducerManager`) excuses these messages (`abandoned`) and no others.
- By default nothing waits for acks: `send()` returns while its message may still be lost, against `corokafka_producer_manager.h:41`
  ("the message has been ack-ed"). `SendIsAcked` is about a wait without timeout, which is given by two options.
- `EveryMessageAnswered` (`ProducerFlow`): where `sync_produce()` throws, the exception is the only answer: the delivery callback is not called
  and the `PackedOpaque` is not freed.
- `EdgeTriggered` excuses two threads that both looked at `_queueFullTrigger` before either cleared it (`impl/corokafka_producer_manager_impl.cpp:538`).
- `ThrottlePauseEnds` excuses two throttle callbacks that overlap, since each pauses or resumes after it let go of `ThrottleControl`; and a
  multiplier that is a multiple of 65536: it is kept as a `uint16_t`, so throttle times come out as 0 and the pause is never seen to end.
  The consumer has the same field; its run leaves that multiplier out.
- `ForcedFlushKept` excuses a request for a synchronous flush that is raised while one is under way: it is cleared with the one before.
- `serializeMessage()` calls `serilize()` (`impl/corokafka_producer_manager_impl.h:236`, `:245`), which does not exist, so `send()` cannot be instantiated; it is modelled as `serialize()`.
- `send()` refuses a message whose key or payload serializes to no bytes, `post()` sends it (`SerializeMessage`, `SerializeCoro`).
- When serialization fails in `post()`, the error callback receives the `PackedOpaque` and not the application's opaque (`corokafka_callbacks.h:40`), and the future is never ready.

*Consumers.*

- `PauseHolds` excuses a `pause()` that falls between a thread's look at `_isPaused` and its `resume()`; and the pause of `pause.on.start`
  holds only while the broker never throttles, although `CONFIGURATION.md:9` makes it wait for the user's `resume()`: `setup()` does not set `_isPaused`.
- Partitions given to `subscribe()` are passed over where no assignment callback is registered (`impl/corokafka_consumer_manager_impl.cpp:456`):
  `ConfiguredOffsetsOnce` asks for their use only for those given at first.
- A prefetched read that throws leaves its spent future behind and every later coroutine fails on it: `EveryMessageReceived`
  excuses what comes after a failed prefetch.

*Deserialization.*

- `EveryMessageSettled` holds for coroutine queues numbered from 0. `impl/corokafka_consumer_manager_impl.cpp:1050` compares the absolute
  queue number with the remainder of the division, so with a range that begins at 1 or higher the last messages of an uneven batch
  reach the receiver default-constructed. (`LowQueues = {1}` shows it; line 995 counts from 0 and is right.)
- With several preprocessing workers a verdict to drop can be lost (`EveryMessageSettled` says only that none is dropped unasked), because they write bits
  of one word without synchronisation. And preprocessing that is switched on between lines 1028 and 1060 writes to a vector without bits: the model ends there (`crashed`).
- `getHeaderNumWithError()` does not count unknown headers that were skipped before the one with the error (`corokafka_received_message.h:95`); `ErrorsTold` is silent there.
- `isHeaderValidAt()` throws for a message that was dropped or carries rdkafka's error, since its pack has no positions.
- `get()` of a header by a name the message does not have dereferences the end of the pack: `ValuesTold` asks only for names it has. It ignores
  case, which the map of deserializers does not: where two names differ only in their case the first in the pack is found.
- A header name declared twice is filled at its first position only, by the last header that has it: `GivenBack` is about names declared once.

*Commits and opaques.*

- An opaque of `setOpaque()` is never inserted in the `OffsetMap`, so the destructor's commit does not pass it to the callback, against
  `corokafka_received_message.h:64` and `:125`. `OpaqueComesBack` is about `commit(opaque)`.
- `ConsumerManagerImpl::commit()` inserts the opaque under the offset it is given while the callback looks for that offset minus one: it comes
  back when the next offset is committed, or never. `OpaqueComesBack` is about a message's own `commit()`.
- `offsetCommitCallback()` adds nothing to the vector of opaques at a partition where it finds the `OffsetMap` empty (`impl/corokafka_consumer_manager_impl.cpp:713`), so an opaque that
  another thread inserts before the next partition is looked up stands at a lower index than its partition, and the application, which pairs them by index, takes it for another's.
  `OpaqueOnceForItsMessage` excuses opaques that are out of place in this way (`inPlace`); without the excuse the run fails after six steps.
- `commit(opaque)` of a message that tells of the end of a partition inserts the opaque and commits nothing: it is passed back when the message that
  takes this position later is committed, if that one has no opaque of its own, or never. `OpaqueComesBack` is about opaques whose commit rdkafka has taken on.
- A failed attempt of a synchronous commit is reported to the callback with the opaque; a retry that then succeeds is reported without it.
- `internal.consumer.auto.offset.persist.on.exception` is set from the value of `...auto.offset.persist`
  (`impl/corokafka_consumer_manager_impl.cpp:147`). `config.onException` of `ReceivedMessages` is the field that results, not the option.
- `_autoOffsetPersist` is true where the option is not given (`corokafka_consumer_topic_entry.h:87`), which `CONFIGURATION.md:12` says is false by default.

### Fairness

Threads that have work go on (weak fairness of each thread's steps), because `ConnectorImpl`'s loops and the dispatcher's threads only block
on operations that end: locks held for bounded time, reads with a timeout, commits and messages which rdkafka
answers within its own timeouts (`message.timeout.ms`). A join returns once the thread has ended and the drain once the tasks have; the timeout of
the drain could only make it shorter. Nothing obliges the application to act, nor the broker to accept a message or to throttle. In `ProducerFlow` the
rest is strong: rdkafka has room again and again for a message that found none, since it answers those it holds (`Enqueue`), and time passes (`ThrottleElapses`). Strong
fairness is used in three places of the consumer: a partition whose log has messages is read again and again
(`ReadNext`), a poll serves the rebalance that waits (`ServeAssignment`, `ServeRevocation`) and comes to its
end however many callbacks it serves (`ReadEnds`), and time passes whenever it is looked at
(`ThrottleElapses`).
The workers of a batch and the calls of `doCommit()` go on; rdkafka answers a commit, and the consumer that has a callback is polled.

## Proofs

TLAPS proves, for any values of the constants that their assumptions allow:

| Module | Theorem | Statement | Assumes |
|---|---|---|---|
| `IntervalSetProofs` | `NormalFormAlways` | `Spec => []NormalForm` | `MaxPointAssumption` |
| | `IntervalSetImplementsPointSet` | `Spec => ImplementsPointSet` | the same |
| `OffsetManagerProofs` | `TypeCorrect` | `Spec => []TypeOK` | `OffsetManagerAssumption` |
| | `AtLeastOnce` | `Spec => []NoMessageLost` | the same |
| | `NothingLeftBehind` | `Spec => []NoRangeLeftBehind` | the same |
| | `FirstUnsaved` | `Spec => []CurrentIsFirstUnsaved` | also `MaxForced = 0`, `MaxDisruptions = 0` |
| | `LedgerImplemented` | `Spec => ImplementsLedger` | the same as `FirstUnsaved` |
| `ConsumerControlProofs` | `ControlTypeCorrect` | `Spec => []TypeOK` | `ControlAssumption` |
| | `PausesHold` | `Spec => []PauseHolds` | the same |
| | `ConfiguredOffsetsUsedOnce` | `Spec => []ConfiguredOffsetsOnce` | the same |
| `ProducerManagerProofs` | `ManagerTypeCorrect` | `Spec => []TypeOK` | `ProducerAssumption` |
| | `OneOwnerAlways` | `Spec => []OneOwner` | the same |
| | `OneInFlightAlways` | `Spec => []OneInFlight` | the same |
| | `OrderPreservedAlways` | `Spec => []OrderPreserved` | the same |
| `ConsumerDispatchProofs` | `DispatchTypeCorrect` | `Spec => []TypeOK` | `DispatchAssumption` |
| | `ArrivalOrderKept` | `Spec => []ArrivalOrder` | the same |
| | `BackpressureHolds` | `Spec => []Backpressure` | the same |
| `ReceivedMessagesProofs` | `MessagesTypeCorrect` | `Spec => []TypeOK` | `ReceivedAssumption` |
| | `ThrownNotPersisted` | `Spec => []ThrownIsNotPersisted` | the same |
| | `OpaqueOnce` | `Spec => []OpaqueOnceForItsMessage` | the same |
| `BatchDeserializerProofs` | `BatchTypeCorrect` | `Spec => []TypeOK` | `BatchAssumption` |
| | `EverySettled` | `Spec => []EveryMessageSettled` | also `LowQueues = {0}` |
| | `TruthTold` | `Spec => []AccessorsTellTruth` | also `HeaderAssumption` |
| | `SentComesBack` | `Spec => []SentIsReceived` | the same |
| `ProducerFlowProofs` | `FlowTypeCorrect` | `Spec => []TypeOK` | `FlowAssumption` |
| | `SendReturnsAcked` | `Spec => []SendIsAcked` | the same |
| | `EdgeTriggeredOnce` | `Spec => []EdgeTriggered` | the same |
| | `FlushNotForgotten` | `Spec => []ForcedFlushKept` | the same |

*Interval set*, for any number of points and any sequence of calls:

- The loop of `insert()` is a recursive function of the key it has come to (`MergeLoop`), and `count()` a sum by key (`Count`); `LoopTurns` and `CountSums` show that
  there are such functions, one key after the other. `LoopInv` is the loop's invariant: no point is lost or added, the keys gone past are apart from each other, the keys ahead are
  as they were, and what `current` has grown to does not touch what the loop may not reach. `LoopErases` (absorbed or merged) and `LoopAdvances` keep it.
- It needs `LoopReady` of the map before the loop: `upper_bound(last)`, one further, is far enough, because a range behind that one begins at least two points after
  `last` (`ReachFacts`). This is where `NormalForm` of the map before is needed, so that the property is its own inductive invariant (`IntervalInv`).
- The iterator is right because a range in normal form is the maximal run of each of its points (`RangeIsRun`): `InsertAtKeyRight`, `InsertSmallestRight` and `InsertBehindRight`
  find the run of `first` at the iterator of each branch, and the flag from the range that held it before. The refinement follows step by step (`InsertImplements`, `EraseImplements`).

*Offset manager*, for any partitions, threads, logs, groups and bounds:

- `TypeOK` contains the finiteness of `offsets[p]`, without which a run has no end. It is proved and not checked by a run.
- `NoMessageLost` is not inductive as it stands: a committed offset comes from a batch,
  which came from a range, which came from `offsets`. `CommitInv` says the same of each stage: what waits
  in `offsets` is saved or skipped, all below `current` is, and all below any offset of a batch is. An
  insertion extends `current` over a run that begins at it (`InsertOffsetSafe`); a forced commit adds what its range or its caller's offset jumps over to `skipped`
  (`RecordPassedFacts`, `ForceCommitFacts`, `TakeLowestRangeSafe`); `saved` and `skipped` only grow (`CommitInvKept`).
- `NoRangeLeftBehind` says of the members of `offsets` what `CurrentNotFirst` says of `current` alone: if it is in a run, it is not the first of it. An insertion
  that lets a run begin at `current` claims it (`InsertOffsetLeavesNone`), and `current` then lies behind a run, as after a forced commit (`TakeLowestRangeLeavesNone`).
- `CurrentIsFirstUnsaved` needs `DeliveredOnce` (no offset is in two hands
  or saved twice, as `position` has passed it) and `OnlySaves` (no thread is in another operation). Then an insertion either fills the gap at
  `current`, and `current` moves to the end of the merged run, which is the first unsaved offset (`InsertKeepsFirstUnsaved`), or leaves it.
- The refinement needs one thing more, `LedgerInv`: what a thread is about to commit is one offset that was claimed, and stays below `current`.
  `SaveImplements` then finds the ledger's `FirstMissing` in `current'` (both are the end of the one run that begins at `Low`, `RunLastUnique`), `CommitImplements`
  maps a commit to `Publish`, and every other step stutters on the managed partitions.

They rest on two facts proved first: a non-empty set of naturals has a least element, and
the run around a member of a finite set is an interval within the set whose neighbours are outside. Induction over numbers is `StepOut` throughout: a finite set
that holds 0 does not hold the successor of each of its members, by the pigeonhole principle.

*Consumer control*, for any strategies, callbacks, multipliers, and any number of subscriptions, revocations and throttle callbacks:

- `ControlInv` adds to the types that static partitions belong to no group, so that no rebalance waits for them, and that only auto-throttling
  takes a poll task into the throttle callback. `SettingsOK` gets from `setup()` that a dynamic consumer with partitions has an assignment callback.
- `PauseInv`: while nothing has undone a pause, no thread is past its look at `_isPaused`, so that none resumes; and before the first throttle
  callback nothing resumes but the user.
- `OffsetsInv`: the flag that is up stands for one use still to come, so uses and flag together never exceed the subscriptions; one that is down stands for a use made.

*Producer manager*, for any topics, messages, IO queues, buffer lengths and numbers of switches:

- `TypeOK` is inductive. What every step does to the queues is one of a few effects (`Effect`): a message stays, moves from the head of one queue to the
  end of another, a queue is taken or dropped, a message is put back, leaves, or joins.
- `OneOwner` follows from `AloneIn` (the place a message waits in is the only one, and it waits there once), which each effect keeps, and from
  reports being made only of what leaves a place.
- `OneInFlight` needs only that an ordered flush hands on a message when nothing of its topic is in rdkafka.
- `OrderPreserved`: `Line` lists the seven stages which a message of an ordered topic passes, from `_messageQueue` to its delivery, and `InOrder`
  says of two of them that the older message is never in the later stage's queue behind, nor in an earlier stage than, the younger. A switch of fan-out adds stages, so `FanoutInv` says that before the first
  switch nothing is on the IO threads, and `OrderPreserved` is stated until the second. Each step keeps `InOrder` of each pair (`SwapsInOrder`
  to `LinesKept`), and the order of the delivered follows (`OrderOfAcked`).

*Producer flow*, for any callers, messages, lengths of queues, retries and throttle times:

- `FlowInv`: a message is in one place, no place holds more than its capacity, and a flush keeps the poll task busy.
- `TriggerInv`, for `EdgeTriggered`: while no two threads raced for the flag, it is up only if nothing was told since the last reset, one thread at most is about to tell, and the flag is down as soon as it has.
- `FlushInv`, for `ForcedFlushKept`: while a request is owed, the flag stands and no flush that would clear it is under way.

Options are put together with `++`, which the proofs may expand (`Joined`); the library's `@@` is an operator the provers know nothing of.

*Consumer dispatch*, for any partitions, range of IO threads, batch size, log and number of failing reads:

- `ArrivalOrder` says of the five places where a message of a partition can be that each is in order, that all in one are ahead of all in the next, and that
  together they are what was handed out. `Orderly` is the same of any five sequences; each step moves a head to the end of the place before it, a whole place on into an empty one, or adds
  the next offset (`ReceivedFromBatch` to `ReadInOrder`).
- It needs `DeliveryInv` (a way to the receiver that goes past a place finds it empty) and `PlacedInv` (an IO thread has messages of its own
  partitions only, so that what one thread hands to the receiver leaves all other partitions alone).
- `PressureInv`, for `Backpressure`: a coroutine that waits for its receivers leaves none behind when it ends, so the next batch replaces what waits; any other step only
  lets it shrink (`WaitingShrinks`).

*Received messages*, for any messages, options, retries, answers and number of commits:

- `WaitInv`: a synchronous commit under way and its caller belong together, one to one. A step adds a request nobody waits for (`AddedKeepsWaiting`), starts to
  wait (`SyncCommitKeepsWaiting`), or lets the caller of the answered request go (`AnswerKeepsWaiting`).
- `CleanInv`, for `ThrownIsNotPersisted`: while the application has not committed a message, only its own destructor has it in a call, and before that it is in no
  request and not stored. `ConfigFacts` gets from `setup()` that rdkafka stores nothing of its own accord; without it the invariant is false at once.
- `OpaqueInv`, for `OpaqueOnceForItsMessage`: an opaque is under the position it was given for, or in the callback's vector, which knows for which partition of the event it
  was found, or reported, and never in two of these. `VectorFacts` is the lookup of one partition, `CallbackEnds` the report. That it is reported for the right message needs
  that one is subtracted from an offset where one was added (`MyMessages`).

*Batches*, for any batch, numbers of queues and threads, options, and calls of `preprocess()`:

- The split is arithmetic: `Start` is a closed form of the sum of the shares before a worker (`StartFacts`), so the parts lie one after the other
  within the batch (`NewWorkers`), and, if the loop counts from 0, leave no message out (`WorkersCover`). With `WorkersOK` no two workers are ever at one message.
- `VerdictInv`: a bit that is set, in the vector or in the word that a worker has loaded at any time before, is one the callback asked for. It holds because
  a message is judged once, so a stale word can lose a bit but never invent one.
- `KeptInv`: if one worker at a time asks the callback, the word it has loaded is still the vector's, so no verdict is lost.
- `SettledInv`: what a coroutine has gone past is settled; at the end of the batch that is every part, and the parts are everything. The proof needs `LowQueues = {0}` here,
  where the code needs it too, and the two theorems about the accessors need it only because they need this.

*Deserialization*, for any headers that a topic declares, and any that a message carries:

- `LoopInv` says what the loop of `deserializeMessage()` has made of the first n headers: while it goes on, none of them spoils the message, each entry of the pack holds the last of them with its
  name or is empty (`EntryTells`), and, if all are declared, `num` is n; once it is left, it was at the first that spoils the message, and the error and its number are of that
  one (`FirstSpoilt`). `LoopPasses`, `LoopTakes` and `LoopBreaks` keep it; `LoopTurns` shows that there is such a function, one header after the other.
- `ValuesToldOfRead` and `ErrorsToldOfRead` then compare each accessor with what it ought to tell of a message that was read, `ToldOfNone` of one that was dropped or carries an error of rdkafka.
- `SerializedUpTo`: the header given at a position is as far on in the message as there are others before it that were not left out, under the topic's name for that
  position (`SerializesOne`). So it is the only one that belongs at its position, if the name is declared once (`SentAt`), and `TruthTold` does the rest (`GivenBackIfTold`).
- `MessagesInv`: what a batch holds has come from rdkafka, or from a producer of the topic.

All safety invariants and the refinements that the runs check are proved. Only model-checked: liveness; `ENABLED` and fairness are beyond the prover.

## Not modelled, and simplifications

- *Offset manager*: the watermark query is taken to answer; `ExecMode` does not matter to what is committed.
- *Producer*: `waitForAcks()` of the application, which waits for the buffered producers and not for `_messageQueue`; the timeout of
  a wait, which only ends it; which IO queue a topic's hash selects. `ProducerManager` leaves retries, the full queue and throttling to `ProducerFlow`, and that one
  leaves order preservation to `ProducerManager`.
- *Connector*: the timeout of the drain; a second `shutdown()`; the consumers' part of it is `Unsubscribe` of `ConsumerControl`.
- *Batches*: at most 64 messages, one word of bits; with more, only workers whose parts meet in a word race, as they do here. What
  the application's deserializers give is an input.
- *Received messages*: moved-from messages, whose `doCommit()` returns at once; the commit of the current assignment (its opaque is inserted under the partition
  `RD_KAFKA_PARTITION_UA` and never found). Lists are of two partitions. `_offsets.empty()` is read without the map's lock, as if it were atomic.
- *Consumer*: one topic. The callbacks that only pass on to the application (errors, logs, statistics, rebalance errors). `quantum`'s future is taken to throw on a second `get()`. An assignment
  clears rdkafka's pauses. The writes of one assignment callback are one step: between them only the poll thread could pass, to start the poll that is already under way.
  A throttle period does not end while the callback that began it is still running.
- Unsynchronised plain `bool`s (`_interrupt`, `_forceSyncFlush`, `_isPaused`) are atomic here.
- *Configuration*: reading JSON, the options of the connector, poll timeouts and the settings of `BackoffCommitter`; an application that persists
  offsets itself is taken to have set `enable.auto.offset.store` to false.
- Metadata, logging, delivery reports and sent messages as values: no behaviour over time.

## Plan

Done, in this order: `Runs`, `PointSet`, `IntervalSet`, `OffsetLedger`, `OffsetManager` and its proofs, `ProducerManager`,
`ConsumerDispatch`, `ConsumerControl`, `BatchDeserializer`, `ReceivedMessages`, `ConsumerSetup`, `ConfigurationOptions`, `ProducerSetup`, `ProducerFlow`, `Deserialization`,
`Serialization`, the connector's shutdown in `ProducerManager`, the proofs of `ConsumerControl`, the proof that `OffsetManager` implements `OffsetLedger`,
the proofs of `ProducerManager`, `ProducerFlow`, `ConsumerDispatch`, `ReceivedMessages`, `BatchDeserializer`, `IntervalSet` and `Deserialization`.

Next modules:

1. A composition of `ConsumerDispatch` and `OffsetManager` under rebalances, against an abstract specification of
   at-least-once processing.
2. The commit of the current assignment in `ReceivedMessages`; `waitForAcks()` in `ProducerFlow`.

