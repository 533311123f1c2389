----------------------------- MODULE ProducerSetup -----------------------------
(***************************************************************************)
(* What the options of a producer, and the callbacks the application has   *)
(* registered, become when ProducerManagerImpl sets the producer up: the   *)
(* fields of its ProducerTopicEntry and the settings of the client.  The   *)
(* timeout of a poll is left out.                                          *)
(***************************************************************************)
EXTENDS ConfigurationOptions

\* s_internalOptions, of which any other name with the prefix is refused.
InternalOptions ==
  {"max.queue.length", "payload.policy", "preserve.message.order", "retries", "timeout.ms",
   "wait.for.acks", "wait.for.acks.timeout.ms", "flush.wait.for.acks",
   "flush.wait.for.acks.timeout.ms", "log.level", "auto.throttle",
   "auto.throttle.multiplier", "queue.full.notification"}

RdKafkaOptions == {"metadata.broker.list", "max.in.flight"}

Notifications == {"oncePerMessage", "eachOccurence", "edgeTriggered"}

\* The constructor throws for any other options.  The kind of notification is
\* looked at only where there is a callback to notify.
Accepted(options, callbacks) ==
  /\ PassesFilter(options, InternalOptions, RdKafkaOptions)
  /\ IsGiven(options, "metadata.broker.list")
  /\ Given(options, "log.level", "info") \in LogLevels
  /\ Given(options, "payload.policy", "copy") \in {"copy", "passthrough"}
  /\ Given(options, "wait.for.acks.timeout.ms", 0) >= -1
  /\ Given(options, "flush.wait.for.acks.timeout.ms", 0) >= -1
  /\ "queueFull" \in callbacks =>
       Given(options, "queue.full.notification", "oncePerMessage") \in Notifications

\* For how long a call waits: -1 is for ever.
Wait(waits, timeout) ==
  IF ~waits THEN "not" ELSE IF timeout = -1 THEN "forever" ELSE "timeout"

\* produceMessage() waits for acks, and flush().  An old rdkafka, whose flush
\* without timeout does not work, makes flush() wait by default.
SendWait(options) ==
  Wait(IsTrue(options, "wait.for.acks", FALSE), Given(options, "wait.for.acks.timeout.ms", 0))

FlushWait(options, zeroTimeoutWorks) ==
  Wait(IsTrue(options, "flush.wait.for.acks", ~zeroTimeoutWorks),
       Given(options, "flush.wait.for.acks.timeout.ms", IF zeroTimeoutWorks THEN 0 ELSE 100))

\* The multiplier of ThrottleControl is a uint16_t, whatever was given.
ThrottleMultiplier(options) == Given(options, "auto.throttle.multiplier", 1) % 65536

\* post() is refused to a producer that passes payloads through.
MayPost(options) == Given(options, "payload.policy", "copy") = "copy"

\* When the application is told that rdkafka's queue is full; the client calls
\* back on each occurrence where the notification is triggered by an edge.
QueueFull(options, callbacks) ==
  IF "queueFull" \in callbacks
  THEN Given(options, "queue.full.notification", "oncePerMessage") ELSE "never"

ClientNotifiesAgain(notification) == notification \in {"eachOccurence", "edgeTriggered"}

FlowSettings(options, callbacks, zeroTimeoutWorks) ==
  [send         |-> SendWait(options),
   flush        |-> FlushWait(options, zeroTimeoutWorks),
   retries      |-> Given(options, "retries", 0),
   autoThrottle |-> IsTrue(options, "auto.throttle", FALSE),
   multiplier   |-> ThrottleMultiplier(options),
   mayPost      |-> MayPost(options),
   queueFull    |-> QueueFull(options, callbacks)]

===============================================================================
