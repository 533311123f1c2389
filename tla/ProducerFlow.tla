----------------------------- MODULE ProducerFlow -----------------------------
(***************************************************************************)
(* How messages flow from a producer without order preservation to rdkafka *)
(* and back: the calls of produceMessage() by send() and by the tasks that *)
(* post() has fanned out, the poll task and its flush, retries, a full     *)
(* queue in rdkafka, and throttling.  ProducerManager has what comes       *)
(* before this: post(), the post thread and order preservation.            *)
(*                                                                         *)
(* cppkafka's BufferedProducer and rdkafka are modelled from the calls     *)
(* made to them.  produce() and the flush of a poll task hand back to      *)
(* their retries what fails, sync_produce() tries again itself.            *)
(***************************************************************************)
EXTENDS ProducerSetup, FiniteSets, Sequences

CONSTANTS
  Senders,       \* application threads that call send()
  IoThreads,     \* IO threads that run produceTask()
  PollTask,      \* not one of them: the thread of the poll task
  ServingThreads,\* threads on which rdkafka may call throttleCallback()
  QueueCapacity, \* queue.buffering.max.messages of rdkafka
  Retries,       \* values of internal.producer.retries
  Multipliers,   \* values of internal.producer.auto.throttle.multiplier
  MaxMessages,   \* bound: messages produced in a behaviour (see MessageBound)
  MaxThrottles   \* bound: calls of throttleCallback()

ASSUME FlowAssumption ==
  /\ PollTask \notin Senders \union IoThreads
  /\ QueueCapacity \in Nat \ {0} /\ Retries \subseteq Nat /\ Multipliers \subseteq Nat
  /\ MaxMessages \in Nat /\ MaxThrottles \in Nat

VARIABLES
  config,       \* what setup() made of the options, fixed
  message,      \* the messages of produceMessage() so far
  thread,       \* what each thread is doing inside the client
  outbound,     \* the messages in rdkafka's queue, or awaiting an answer
  buffer,       \* the messages of BufferedProducer's own queue
  flush,        \* those a flush has taken from it
  task,         \* the poll task: none, or posted, or in its flush
  forced,       \* it has found _forceSyncFlush set
  forceSyncFlush,
  throttle,     \* ThrottleControl::_throttleDuration, in units
  callback,     \* throttleCallback() on each serving thread, past its decision
  pollThread,   \* ProducerManagerImpl::poll, for this producer
  paused,       \* rdkafka sends nothing of this topic
  trigger,      \* _queueFullTrigger
  notified,     \* history: notifications since the trigger was last reset, up to 2
  raced,        \* history: two threads were inside queueFullCallback()
  overlapped,   \* history: two threads were inside throttleCallback()
  owed,         \* history: a synchronous flush was asked for, and not yet begun
  throttles     \* counts throttle callbacks (bound)

flowVars     == <<message, thread, outbound, buffer, flush, task, forced>>
throttleVars == <<throttle, callback, pollThread, paused, overlapped, throttles>>
requestVars  == <<forceSyncFlush, owed>>
triggerVars  == <<trigger, notified, raced>>
vars == <<config, flowVars, throttleVars, requestVars, triggerVars>>

Callers  == Senders \union IoThreads
Threads  == Callers \union {PollTask}
Messages == 1 .. Len(message)

\* Options that setup() accepts or refuses, by what they are about.
SendOptions ==
  {w ++ t ++ r ++ p :
     w \in MayGive("wait.for.acks", Flag),
     t \in MayGive("wait.for.acks.timeout.ms", {-2, -1, 0, 5}),
     r \in MayGive("retries", Retries),
     p \in MayGive("payload.policy", {"copy", "passthrough", "other"})}

FlushOptions ==
  {w ++ t ++ r :
     w \in MayGive("flush.wait.for.acks", Flag),
     t \in MayGive("flush.wait.for.acks.timeout.ms", {-2, -1, 0, 5}),
     r \in MayGive("retries", Retries)}

ThrottleOptions ==
  {a ++ t : a \in MayGive("auto.throttle", Flag),
            t \in MayGive("auto.throttle.multiplier", Multipliers)}

NotificationOptions ==
  MayGive("queue.full.notification", Notifications \union {"other"})

\* One group of options is given at a time, and a callback with those about it.
Setups ==
  [options : SendOptions \union FlushOptions \union ThrottleOptions,
   callbacks : {{}}, works : BOOLEAN]
  \union [options : NotificationOptions, callbacks : {{"queueFull"}}, works : {TRUE}]

Settings ==
  {FlowSettings(Brokers ++ s.options, s.callbacks, s.works) :
     s \in {x \in Setups : Accepted(Brokers ++ x.options, x.callbacks)}}

\* Two threads find the queue full only if there are two more messages than it holds.
MessageBound == IF config.queueFull = "never" THEN MaxMessages ELSE QueueCapacity + 2

LastMessage == IF MaxMessages > QueueCapacity + 2 THEN MaxMessages ELSE QueueCapacity + 2

Idle == [at |-> "idle", m |-> 0, notify |-> FALSE]

Init ==
  /\ config \in Settings
  /\ message = <<>> /\ thread = [x \in Threads |-> Idle]
  /\ outbound = {} /\ buffer = {} /\ flush = {}
  /\ task = "none" /\ forced = FALSE
  /\ forceSyncFlush = FALSE /\ owed = FALSE
  /\ throttle = 0 /\ callback = [k \in ServingThreads |-> "none"]
  /\ pollThread = "adjusting" /\ paused = FALSE /\ overlapped = FALSE /\ throttles = 0
  /\ trigger = TRUE /\ notified = 0 /\ raced = FALSE

------------------------------------------------------------------------------
(* produceMessage()                                                         *)

At(x, step) == thread[x].at = step

Goes(x, step) == thread' = [thread EXCEPT ![x].at = step]

\* The client begins to produce a message on thread x.
Begins(x, m) ==
  thread' = [thread EXCEPT ![x] = [at |-> "producing", m |-> m,
                                   notify |-> config.queueFull # "never"]]

\* send(), once serialized, or a produceTask().
ProduceMessage(x) ==
  /\ At(x, "idle") /\ Len(message) < MessageBound
  /\ x \in IoThreads => config.mayPost
  /\ message' = Append(message, [left |-> config.retries, reports |-> 0, call |-> "open"])
  /\ Begins(x, Len(message) + 1)
  /\ UNCHANGED <<config, outbound, buffer, flush, task, forced, throttleVars, requestVars,
                 triggerVars>>

\* The call for the thread's message returns, or throws.
Ends(x, how) ==
  /\ Goes(x, "idle")
  /\ message' = IF x = PollTask THEN message ELSE [message EXCEPT ![thread[x].m].call = how]

\* Faulty variant: sync_produce() used like produce().
HandedOverAtOnce(x) == Ends(x, "returned")

\* rdkafka has taken the message: produce() returns, and with it the call unless it
\* goes on to wait_for_acks(); sync_produce() waits.
HandedOver(x) ==
  IF x = PollTask \/ config.send = "not" THEN Ends(x, "returned")
  ELSE Goes(x, "waiting") /\ UNCHANGED message

Enqueue(x) ==
  /\ At(x, "producing") /\ Cardinality(outbound) < QueueCapacity
  /\ outbound' = outbound \union {thread[x].m}
  /\ HandedOver(x)
  /\ UNCHANGED <<config, buffer, flush, task, forced, throttleVars, requestVars, triggerVars>>

\* wait_for_acks(timeout) returns in time or not; sync_produce() with the report.
WaitEnds(x) ==
  /\ At(x, "waiting")
  /\ config.send = "forever" => message[thread[x].m].reports > 0
  /\ Ends(x, "returned")
  /\ UNCHANGED <<config, outbound, buffer, flush, task, forced, throttleVars, requestVars,
                 triggerVars>>

\* setPackedOpaqueFuture(): frees the PackedOpaque and sets its promise.
Report(m) == message' = [message EXCEPT ![m].reports = @ + 1]

\* rdkafka refuses the message.  sync_produce() throws; otherwise the message is
\* kept for another try, if flushFailureCallback() says so and one is left, ...
RefusedForNow(x) ==
  LET m == thread[x].m
  IN  /\ At(x, "producing")
      /\ x = PollTask \/ config.send # "forever"
      /\ message[m].left > 0
      /\ buffer' = buffer \union {m}
      /\ IF x = PollTask \/ config.send = "not"
         THEN /\ Goes(x, "idle")
              /\ message' = [message EXCEPT ![m].left = @ - 1,
                               ![m].call = IF x = PollTask THEN @ ELSE "returned"]
         ELSE Goes(x, "waiting") /\ message' = [message EXCEPT ![m].left = @ - 1]
      /\ UNCHANGED <<config, outbound, flush, task, forced, throttleVars, requestVars,
                     triggerVars>>

\* ... or flushTerminationCallback() reports it, and produce() throws.
Refused(x) ==
  LET m       == thread[x].m
      reports == IF x # PollTask /\ config.send = "forever" THEN 0 ELSE 1
  IN  /\ At(x, "producing")
      /\ Goes(x, "idle")
      /\ message' = [message EXCEPT ![m].reports = @ + reports,
                       ![m].call = IF x = PollTask THEN @ ELSE "threw"]
      /\ UNCHANGED <<config, outbound, buffer, flush, task, forced, throttleVars, requestVars,
                     triggerVars>>

------------------------------------------------------------------------------
(* A full queue: the client calls queueFullCallback(), polls, tries again   *)

Full(x) ==
  At(x, "producing") /\ Cardinality(outbound) = QueueCapacity /\ thread[x].notify

\* The callback's look at the trigger.
QueueFullLooks(x) ==
  /\ Full(x)
  /\ config.queueFull = "edgeTriggered" => trigger
  /\ thread' = [thread EXCEPT ![x].at = "telling",
                              ![x].notify = ClientNotifiesAgain(config.queueFull)]
  /\ raced' = (raced \/ \E y \in Threads : At(y, "telling"))
  /\ UNCHANGED <<config, message, outbound, buffer, flush, task, forced, throttleVars,
                 requestVars, trigger, notified>>

\* Faulty variant: the trigger is not cleared.
QueueFullTellsOnly(x) ==
  /\ At(x, "telling")
  /\ notified' = IF notified < 2 THEN notified + 1 ELSE 2
  /\ Goes(x, "producing")
  /\ UNCHANGED <<config, message, outbound, buffer, flush, task, forced, throttleVars,
                 requestVars, trigger, raced>>

\* It clears the trigger and calls the application.
QueueFullTells(x) ==
  /\ At(x, "telling")
  /\ trigger' = FALSE
  /\ notified' = IF notified < 2 THEN notified + 1 ELSE 2
  /\ Goes(x, "producing")
  /\ UNCHANGED <<config, message, outbound, buffer, flush, task, forced, throttleVars,
                 requestVars, raced>>

ResetQueueFullTrigger ==
  /\ config.queueFull # "never"
  /\ trigger' = TRUE /\ notified' = 0
  /\ UNCHANGED <<config, flowVars, throttleVars, requestVars, raced>>

------------------------------------------------------------------------------
(* Answers: produceSuccessCallback(), produceTerminationCallback()          *)

BrokerAcks(m) ==
  /\ m \in outbound /\ ~paused
  /\ outbound' = outbound \ {m}
  /\ Report(m)
  /\ UNCHANGED <<config, thread, buffer, flush, task, forced, throttleVars, requestVars,
                 triggerVars>>

\* Faulty variant: a message that will be tried again is reported as well.
BrokerFailsReporting(m) ==
  /\ m \in outbound
  /\ outbound' = outbound \ {m} /\ buffer' = buffer \union {m}
  /\ Report(m)
  /\ UNCHANGED <<config, thread, flush, task, forced, throttleVars, requestVars, triggerVars>>

SyncProducer(m) ==
  {x \in Callers : At(x, "waiting") /\ thread[x].m = m /\ config.send = "forever"}

\* A delivery fails, or times out in the queue: the message is tried again by the
\* thread that waits for it, or else by the next flush; or it is given up.
BrokerFails(m) ==
  /\ m \in outbound
  /\ outbound' = outbound \ {m}
  /\ IF message[m].left = 0
     THEN Report(m) /\ UNCHANGED <<thread, buffer>>
     ELSE /\ message' = [message EXCEPT ![m].left = @ - 1]
          /\ IF SyncProducer(m) = {}
             THEN buffer' = buffer \union {m} /\ UNCHANGED thread
             ELSE /\ thread' = [x \in Threads |->
                                  IF x \in SyncProducer(m)
                                  THEN [thread[x] EXCEPT !.at = "producing"] ELSE thread[x]]
                  /\ UNCHANGED buffer
  /\ UNCHANGED <<config, flush, task, forced, throttleVars, requestVars, triggerVars>>

------------------------------------------------------------------------------
(* pollTask()                                                               *)

\* Faulty variant: nothing is flushed unless a synchronous flush was asked for.
TaskBeginsIfForced ==
  /\ task = "posted"
  /\ task' = "flushing" /\ forced' = forceSyncFlush
  /\ IF forceSyncFlush THEN flush' = buffer /\ buffer' = {} ELSE UNCHANGED <<flush, buffer>>
  /\ owed' = (owed /\ ~forceSyncFlush)
  /\ UNCHANGED <<config, message, thread, outbound, throttleVars, forceSyncFlush, triggerVars>>

\* flush(), of which cppkafka's part begins by taking what is buffered.
TaskBegins ==
  /\ task = "posted"
  /\ task' = "flushing" /\ forced' = forceSyncFlush
  /\ flush' = buffer /\ buffer' = {}
  /\ owed' = (owed /\ ~forceSyncFlush)
  /\ UNCHANGED <<config, message, thread, outbound, throttleVars, forceSyncFlush, triggerVars>>

TaskProduces(m) ==
  /\ m \in flush /\ At(PollTask, "idle")
  /\ flush' = flush \ {m}
  /\ Begins(PollTask, m)
  /\ UNCHANGED <<config, message, outbound, buffer, task, forced, throttleVars, requestVars,
                 triggerVars>>

Flushed ==
  /\ task = "flushing" /\ flush = {} /\ At(PollTask, "idle")
  /\ forced \/ config.flush = "forever" => outbound = {}

\* Faulty variant: the flag is cleared after any flush.
TaskEndsClearing ==
  /\ Flushed
  /\ task' = "none" /\ forced' = FALSE
  /\ forceSyncFlush' = FALSE
  /\ UNCHANGED <<config, message, thread, outbound, buffer, flush, throttleVars, owed,
                 triggerVars>>

\* A forced flush waits for all acks and clears the flag, whoever set it since;
\* another one waits as configured.
TaskEnds ==
  /\ Flushed
  /\ task' = "none" /\ forced' = FALSE
  /\ forceSyncFlush' = (forceSyncFlush /\ ~forced)
  /\ UNCHANGED <<config, message, thread, outbound, buffer, flush, throttleVars, owed,
                 triggerVars>>

------------------------------------------------------------------------------
(* poll(), with adjustThrottling() first, and throttleCallback()            *)

Poll ==
  /\ pollThread = "adjusting" /\ task = "none"
  /\ task' = "posted"
  /\ UNCHANGED <<config, message, thread, outbound, buffer, flush, forced, throttleVars,
                 requestVars, triggerVars>>

\* The topic is resumed, and a synchronous flush asked for.  It is owed unless a
\* forced flush under way is about to clear the flag.
ResumeTopic ==
  /\ paused' = FALSE
  /\ forceSyncFlush' = TRUE
  /\ owed' = (owed \/ ~forced)

\* reduceThrottling(): the throttle time has passed.  It is measured from inside
\* the throttle callback, which is over well before.
ThrottleElapses ==
  /\ pollThread = "adjusting" /\ config.autoThrottle /\ throttle > 0
  /\ \A k \in ServingThreads : callback[k] # "pausing"
  /\ throttle' = 0
  /\ pollThread' = "resuming"
  /\ UNCHANGED <<config, flowVars, callback, paused, overlapped, throttles, requestVars,
                 triggerVars>>

AdjustResumes ==
  /\ pollThread = "resuming"
  /\ pollThread' = "adjusting"
  /\ ResumeTopic
  /\ UNCHANGED <<config, flowVars, throttle, callback, overlapped, throttles, triggerVars>>

\* Faulty variant: the duration is not recorded.
ThrottledFor(duration) == throttle

\* _throttleDuration * _throttleMultiplier
Throttled(duration) == duration * config.multiplier

\* handleThrottleCallback() tells a change from a repetition.
HandleThrottle(k, duration) ==
  LET on  == throttle = 0 /\ duration > 0
      off == throttle > 0 /\ duration = 0
  IN  /\ config.autoThrottle /\ throttles < MaxThrottles /\ callback[k] = "none"
      /\ throttle' = Throttled(duration)
      /\ throttles' = throttles + 1
      /\ callback' = [callback EXCEPT ![k] =
                        IF on THEN "pausing" ELSE IF off THEN "resuming" ELSE "none"]
      /\ overlapped' = (overlapped \/ \E j \in ServingThreads : callback[j] # "none")
      /\ UNCHANGED <<config, flowVars, pollThread, paused, requestVars, triggerVars>>

ThrottlePauses(k) ==
  /\ callback[k] = "pausing"
  /\ paused' = TRUE
  /\ callback' = [callback EXCEPT ![k] = "none"]
  /\ UNCHANGED <<config, flowVars, throttle, pollThread, overlapped, throttles, requestVars,
                 triggerVars>>

ThrottleResumes(k) ==
  /\ callback[k] = "resuming"
  /\ ResumeTopic
  /\ callback' = [callback EXCEPT ![k] = "none"]
  /\ UNCHANGED <<config, flowVars, throttle, pollThread, overlapped, throttles, triggerVars>>

------------------------------------------------------------------------------
ThreadStep(x) ==
  \/ Enqueue(x) \/ WaitEnds(x) \/ RefusedForNow(x) \/ Refused(x)
  \/ QueueFullLooks(x) \/ QueueFullTells(x)

PollTaskStep == TaskBegins \/ (\E m \in Messages : TaskProduces(m)) \/ TaskEnds

PollThreadStep == Poll \/ ThrottleElapses \/ AdjustResumes

Next ==
  \/ \E x \in Callers : ProduceMessage(x)
  \/ \E x \in Threads : ThreadStep(x)
  \/ ResetQueueFullTrigger
  \/ \E m \in Messages : BrokerAcks(m) \/ BrokerFails(m)
  \/ PollTaskStep \/ PollThreadStep
  \/ \E k \in ServingThreads :
       \/ \E duration \in 0 .. 1 : HandleThrottle(k, duration)
       \/ ThrottlePauses(k) \/ ThrottleResumes(k)

Spec == Init /\ [][Next]_vars

\* The threads run, rdkafka answers for every message it has taken (its
\* message.timeout.ms) and has room again for one that it had none for, throttle
\* time passes.  Nothing obliges the application or the broker to act.
Fairness ==
  /\ \A x \in Threads : WF_vars(ThreadStep(x)) /\ SF_vars(Enqueue(x))
  /\ \A m \in 1 .. LastMessage : WF_vars(m \in Messages /\ (BrokerAcks(m) \/ BrokerFails(m)))
  /\ WF_vars(PollTaskStep) /\ WF_vars(Poll) /\ SF_vars(ThrottleElapses) /\ WF_vars(AdjustResumes)
  /\ \A k \in ServingThreads : WF_vars(ThrottlePauses(k) \/ ThrottleResumes(k))

FairSpec == Spec /\ Fairness

------------------------------------------------------------------------------
(* Properties                                                               *)

\* The messages a thread is about to hand to rdkafka.
InHand(x) == IF thread[x].at \in {"producing", "telling"} THEN {thread[x].m} ELSE {}

\* The types, and who owns a PackedOpaque: the client holds a message in one place
\* at a time, whatever has been retried, and in none once it was reported.
TypeOK ==
  /\ message \in Seq([left : Nat, reports : 0 .. 1, call : {"open", "returned", "threw"}])
  /\ \A x \in Threads : /\ thread[x].at \in {"idle", "producing", "telling", "waiting"}
                        /\ thread[x].m \in Messages \union {0} /\ thread[x].notify \in BOOLEAN
  /\ outbound \subseteq Messages /\ Cardinality(outbound) <= QueueCapacity
  /\ buffer \subseteq Messages /\ flush \subseteq Messages
  /\ task \in {"none", "posted", "flushing"}
  /\ throttle \in Nat /\ callback \in [ServingThreads -> {"none", "pausing", "resuming"}]
  /\ pollThread \in {"adjusting", "resuming"} /\ notified \in 0 .. 2
  /\ \A b \in {forced, forceSyncFlush, paused, trigger, raced, overlapped, owed} : b \in BOOLEAN
  /\ task # "flushing" => flush = {} /\ At(PollTask, "idle") /\ ~forced
  /\ \A m \in Messages :
       Cardinality({x \in Threads : m \in InHand(x)})
         + Cardinality({p \in {<<"outbound", outbound>>, <<"buffer", buffer>>, <<"flush", flush>>} :
                          m \in p[2]}) <= 1 - message[m].reports

\* CONFIGURATION.md:46, "Set to -1 for infinite timeout": a call that is to wait for
\* ever returns only when the broker has answered for its message, for the last time.
SendIsAcked ==
  config.send = "forever" =>
    \A m \in Messages : message[m].call = "returned" => message[m].reports = 1

\* CONFIGURATION.md:52, "the callback will be raised once after which the application
\* must reset the edge": it is, and after a reset it can be raised again, unless two
\* threads looked at the trigger before either cleared it.
EdgeTriggered ==
  config.queueFull = "edgeTriggered" /\ ~raced =>
    /\ notified <= 1
    /\ notified = 0 => trigger \/ \E x \in Threads : At(x, "telling")

\* A synchronous flush that the end of throttling asks for is not forgotten before
\* it begins, unless it was asked for while another one was under way.
ForcedFlushKept == owed => forceSyncFlush

\* CONFIGURATION.md:50, "producers will be automatically paused/resumed when throttled":
\* a producer that throttling has paused is resumed, even if the broker says nothing
\* more, unless two callbacks overlapped or the multiplier came out as 0.
ThrottlePauseEnds == paused ~> (~paused \/ overlapped \/ config.multiplier = 0)

\* A message is answered in the end, however often it fails, whatever is full, paused
\* or throttled; where sync_produce() throws, the exception is the only answer.
EveryMessageAnswered ==
  \A m \in 1 .. LastMessage :
    (m \in Messages) ~>
      (m \in Messages /\ (message[m].reports = 1 \/ message[m].call = "threw"))

===============================================================================
