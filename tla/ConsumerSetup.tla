----------------------------- MODULE ConsumerSetup -----------------------------
(***************************************************************************)
(* What the options of a consumer, and the callbacks the application has   *)
(* registered, become when ConsumerManagerImpl sets the consumer up: the   *)
(* fields of its ConsumerTopicEntry, the settings of rdkafka that setup()  *)
(* overrides, and the callbacks it hangs on rdkafka.  The modules that     *)
(* model a consumer at work take their configurations from here.           *)
(*                                                                         *)
(* Timeouts and the intervals of BackoffCommitter are left out; sizes and  *)
(* numbers of retries are constants of the modules they matter to.         *)
(***************************************************************************)
EXTENDS ConfigurationOptions

\* s_internalOptions, of which any other name with the prefix is refused.
InternalOptions ==
  {"read.size", "auto.offset.persist", "auto.offset.persist.on.exception",
   "offset.persist.strategy", "commit.exec", "commit.backoff.strategy",
   "commit.backoff.interval.ms", "commit.max.backoff.ms", "commit.num.retries",
   "pause.on.start", "poll.strategy", "receive.callback.thread.range.low",
   "receive.callback.thread.range.high", "receive.callback.exec", "timeout.ms",
   "poll.timeout.ms", "batch.prefetch", "log.level", "skip.unknown.headers",
   "auto.throttle", "auto.throttle.multiplier", "preprocess.messages",
   "preprocess.invoke.thread", "receive.invoke.thread"}

RdKafkaOptions == {"metadata.broker.list", "enable.auto.commit", "enable.auto.offset.store"}

------------------------------------------------------------------------------
(* The entry                                                                *)

\* With receivers on the coroutine the user's choice is overridden.
ReceiveExec(options) ==
  IF Given(options, "receive.invoke.thread", "io") = "coro"
  THEN "sync" ELSE Given(options, "receive.callback.exec", "async")

\* The option decides only whether the value of auto.offset.persist is copied.
OnException(options) ==
  /\ IsGiven(options, "auto.offset.persist.on.exception")
  /\ options["auto.offset.persist"] = "true"

LowThreadOf(options)              == Given(options, "receive.callback.thread.range.low", 0)
HighThreadOf(options, numThreads) ==
  Given(options, "receive.callback.thread.range.high", numThreads - 1)

\* Faulty variant: each end of the range is compared with the default range.
RangeWithinDefault(options, numThreads) ==
  /\ LowThreadOf(options) \in 0 .. numThreads - 1
  /\ HighThreadOf(options, numThreads) \in 0 .. numThreads - 1

\* The low end is validated against the default range, then the high end against
\* the range that begins with the low one.
ValidRange(options, numThreads) ==
  /\ LowThreadOf(options) \in 0 .. numThreads - 1
  /\ HighThreadOf(options, numThreads) \in LowThreadOf(options) .. numThreads - 1

\* To know whether exceptions matter, the value of auto.offset.persist is read, and
\* the process dies of a null pointer if it was not given.
AcceptsPersistence(options) ==
  /\ Given(options, "offset.persist.strategy", "store") \in {"commit", "store"}
  /\ Given(options, "commit.exec", "async") \in {"sync", "async"}
  /\ IsGiven(options, "auto.offset.persist.on.exception")
       => IsGiven(options, "auto.offset.persist")

\* BackoffCommitter waits longer and longer between its attempts.
AcceptsBackoff(options) ==
  Given(options, "commit.backoff.strategy", "linear") \in {"linear", "exponential"}

AcceptsPolling(options) == Given(options, "poll.strategy", "batch") \in {"batch", "roundrobin"}

AcceptsReceiving(options) ==
  /\ Given(options, "receive.callback.exec", "async") \in {"sync", "async"}
  /\ Given(options, "receive.invoke.thread", "io") \in {"io", "coro"}

AcceptsPreprocessing(options) == Given(options, "preprocess.invoke.thread", "io") \in {"io", "coro"}

\* The constructor throws for any other options, and there is no consumer.
Accepted(options, numThreads) ==
  /\ PassesFilter(options, InternalOptions, RdKafkaOptions)
  /\ IsGiven(options, "metadata.broker.list")
  /\ Given(options, "log.level", "info") \in LogLevels
  /\ ValidRange(options, numThreads)
  /\ AcceptsPersistence(options) /\ AcceptsBackoff(options) /\ AcceptsPolling(options)
  /\ AcceptsReceiving(options) /\ AcceptsPreprocessing(options)

AutoPersist(options) == IsTrue(options, "auto.offset.persist", TRUE)
Strategy(options)    == Given(options, "offset.persist.strategy", "store")

\* Faulty variant: rdkafka goes on to store what it hands out.
StoresAsItIs(options) == IsTrue(options, "enable.auto.offset.store", TRUE)

\* Whether rdkafka stores the offsets of the messages it hands out.
RdKafkaStores(options) ==
  ~AutoPersist(options) /\ IsTrue(options, "enable.auto.offset.store", TRUE)

\* Whether it commits what is stored.
RdKafkaCommits(options) ==
  IF AutoPersist(options) THEN Strategy(options) = "store"
  ELSE IsTrue(options, "enable.auto.commit", TRUE)

\* The callbacks that are hung on rdkafka and on the entry, of those the application
\* has registered; automatic throttling has use for one of its own.
HungCallbacks(options, callbacks) ==
  callbacks \union IF IsTrue(options, "auto.throttle", FALSE) THEN {"throttle"} ELSE {}

\* The parts of an entry that different modules are about.
PersistSettings(options, callbacks) ==
  [callback |-> "offsetCommit" \in HungCallbacks(options, callbacks),
   autoPersist |-> AutoPersist(options), onException |-> OnException(options),
   strategy |-> Strategy(options), exec |-> Given(options, "commit.exec", "async"),
   rdkafkaStores |-> RdKafkaStores(options), rdkafkaCommits |-> RdKafkaCommits(options)]

\* Only the batch strategy looks at batch.prefetch.
DispatchSettings(options) ==
  [strategy |-> Given(options, "poll.strategy", "batch"),
   prefetch |-> /\ Given(options, "poll.strategy", "batch") = "batch"
                /\ IsTrue(options, "batch.prefetch", FALSE),
   invoke   |-> Given(options, "receive.invoke.thread", "io"),
   exec     |-> ReceiveExec(options)]

SkipsUnknownHeaders(options) == IsTrue(options, "skip.unknown.headers", TRUE)

PreprocessSettings(options, callbacks, numThreads) ==
  [registered  |-> "preprocessor" \in HungCallbacks(options, callbacks),
   onIoThread  |-> Given(options, "preprocess.invoke.thread", "io") = "io",
   ioThreads   |-> HighThreadOf(options, numThreads) - LowThreadOf(options) + 1,
   preprocess  |-> IsTrue(options, "preprocess.messages", TRUE),
   strategy    |-> Given(options, "poll.strategy", "batch"),
   skipUnknown |-> SkipsUnknownHeaders(options)]

\* The multiplier of ThrottleControl is a uint16_t, whatever was given.
ThrottleMultiplier(options) == Given(options, "auto.throttle.multiplier", 1) % 65536

PausesOnStart(options) == IsTrue(options, "pause.on.start", FALSE)

\* How the consumer begins, and which callbacks of rdkafka its entry takes part in.
\* partitions are those of the initial assignment, which a static strategy needs.
ControlSettings(options, callbacks, strategy, partitions) ==
  [strategy     |-> strategy,
   offsets      |-> partitions # {},
   rebalances   |-> "rebalance" \in callbacks,
   assigns      |-> "rebalance" \in callbacks \/ (strategy = "dynamic" /\ partitions # {}),
   throttles    |-> "throttle" \in HungCallbacks(options, callbacks),
   autoThrottle |-> IsTrue(options, "auto.throttle", FALSE),
   multiplier   |-> ThrottleMultiplier(options),
   pauseOnStart |-> PausesOnStart(options)]

===============================================================================
