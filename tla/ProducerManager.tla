--------------------------- MODULE ProducerManager ---------------------------
(***************************************************************************)
(* The producer side: ProducerManagerImpl and the two threads with which   *)
(* ConnectorImpl drives it.  A message is a number, in the order in which  *)
(* messages were handed over; queue says in which queues each one waits on *)
(* its way from post() to the broker, and message what has become of it.   *)
(* cppkafka's BufferedProducer (Buffer, Flush and Outbound of a topic),    *)
(* the quantum dispatcher (IO) and the broker are modelled from the calls  *)
(* this code makes to them.                                                *)
(***************************************************************************)
EXTENDS Naturals, Sequences

CONSTANTS
  Topics,          \* the producer configurations, one per topic
  Ordered,         \* the topics with internal.producer.preserve.message.order
  Posters,         \* application threads and coroutines that call post()
  MaxQueueLength,  \* internal.producer.max.queue.length
  Idle,            \* not a topic: a thread that is not inside post()
  MaxMessages,     \* bound: messages handed over in a behaviour
  MaxSwitches      \* bound: calls of enableMessageFanout() while messages flow

ASSUME ProducerAssumption ==
  /\ Ordered \subseteq Topics /\ Idle \notin Topics
  /\ MaxQueueLength \in Nat /\ MaxMessages \in Nat /\ MaxSwitches \in Nat

MessageQueue == <<"_messageQueue">>  \* under _messageQueueMutex
TempQueue    == <<"tempQueue">>      \* the post thread's own
IO(t)        == <<"io", t>>          \* produceTask()s, all on one IO queue
Buffer(t)    == <<"buffer", t>>      \* add_message()
Flush(t)     == <<"flush", t>>       \* what a poll task's flush took
Drain(t)     == <<"drain", t>>       \* what the flush of shutdown() took
Outbound(t)  == <<"outbound", t>>    \* handed to rdkafka, no answer yet

Places == {MessageQueue, TempQueue}
            \cup {IO(t) : t \in Topics} \cup {Outbound(t) : t \in Topics}
            \cup {Buffer(t) : t \in Ordered} \cup {Flush(t) : t \in Ordered}
            \cup {Drain(t) : t \in Ordered}

VARIABLES
  message,     \* the messages handed over, with the PackedOpaque of each
  queue,       \* the messages waiting in each place
  poster,      \* the topic a thread inside post() is about to enqueue for
  postThread,  \* ConnectorImpl::post
  pollThread,  \* ConnectorImpl::poll
  pollTask,    \* _pollFuture and the task behind it, per ordered topic
  fanout,      \* _messageFanout
  switches,    \* counts enableMessageFanout() calls (bound)
  closing,     \* progress of shutdown() through the producers
  shuttingDown,
  connector,   \* progress of ConnectorImpl::shutdown behind that of the producers
  handedOver,  \* history: how many messages there were when shutdown() began
  acked,       \* history: what the broker accepted, per topic, in order
  abandoned    \* history: what a flush held when it threw

threadVars == <<poster, postThread, pollThread, pollTask>>
closeVars  == <<closing, shuttingDown, connector, handedOver>>
history    == <<acked, abandoned>>
vars == <<message, queue, threadVars, fanout, switches, closeVars, history>>

Messages == 1 .. Len(message)

\* _interrupt, which both threads look at between their turns.
Interrupted == connector # "serving"

\* The dispatcher takes no more tasks once it is drained for good.
Dispatches == connector \in {"serving", "joining"}

Init ==
  /\ message = <<>>
  /\ queue = [p \in Places |-> <<>>]
  /\ poster = [p \in Posters |-> Idle]
  /\ postThread = "ready" /\ pollThread = "running"
  /\ pollTask = [t \in Ordered |-> "none"]
  /\ fanout = FALSE /\ switches = 0
  /\ closing = [t \in Topics |-> "todo"]
  /\ shuttingDown = FALSE /\ connector = "serving" /\ handedOver = 0
  /\ acked = [t \in Topics |-> <<>>] /\ abandoned = {}

------------------------------------------------------------------------------
(* The application                                                          *)

NewMessage(t, posted, builder) ==
  /\ Len(message) < MaxMessages
  /\ message' = Append(message,
       [topic |-> t, posted |-> posted, builder |-> builder, reports |-> 0])

\* Faulty variant: nobody notifies.
NotifyNobody == UNCHANGED postThread

\* notify_one() of _emptyCondition, on which only the post thread waits.
Notify == postThread' = IF postThread = "asleep" THEN "ready" ELSE postThread

\* post(): the length of the buffer is read before, and outside, the lock.
CheckQueueLength(p, t) ==
  /\ poster[p] = Idle
  /\ t \in Ordered => Len(queue[Buffer(t)]) <= MaxQueueLength
  /\ poster' = [poster EXCEPT ![p] = t]
  /\ UNCHANGED <<message, queue, postThread, pollThread, pollTask, fanout, switches,
                 closeVars, history>>

\* post(): starts the serialization coroutine and enqueues its future.
Post(p) ==
  /\ poster[p] # Idle /\ Dispatches
  /\ NewMessage(poster[p], TRUE, "running")
  /\ queue' = [queue EXCEPT ![MessageQueue] = Append(@, Len(message) + 1)]
  /\ poster' = [poster EXCEPT ![p] = Idle]
  /\ Notify
  /\ UNCHANGED <<pollThread, pollTask, fanout, switches, closeVars, history>>

\* post(): the dispatcher throws, and nothing was enqueued.
PostThrows(p) ==
  /\ poster[p] # Idle /\ ~Dispatches
  /\ poster' = [poster EXCEPT ![p] = Idle]
  /\ UNCHANGED <<message, queue, postThread, pollThread, pollTask, fanout, switches,
                 closeVars, history>>

\* send() outside a coroutine, once serializeMessage() has succeeded.
Send(t) ==
  /\ NewMessage(t, FALSE, "ready")
  /\ queue' = [queue EXCEPT ![Outbound(t)] = Append(@, Len(message) + 1)]
  /\ UNCHANGED <<threadVars, fanout, switches, closeVars, history>>

\* serializeCoro() ends: with the builder, or with the exception its future keeps.
Serialized(m, outcome) ==
  /\ message[m].builder = "running"
  /\ message' = [message EXCEPT ![m].builder = outcome]
  /\ UNCHANGED <<queue, threadVars, fanout, switches, closeVars, history>>

EnableMessageFanout ==
  /\ switches < MaxSwitches
  /\ switches' = switches + 1
  /\ fanout' = ~fanout
  /\ UNCHANGED <<message, queue, threadVars, closeVars, history>>

------------------------------------------------------------------------------
(* Moving messages                                                          *)

Move(from, to) ==
  queue' = [queue EXCEPT ![from] = Tail(@), ![to] = Append(@, Head(queue[from]))]

Discard(from) == queue' = [queue EXCEPT ![from] = Tail(@)]

\* Faulty variant: a copy where the code swaps.
TakeAllKeepingThem(from, to) == queue' = [queue EXCEPT ![to] = queue[from]]

TakeAll(from, to) == queue' = [queue EXCEPT ![from] = <<>>, ![to] = queue[from]]

\* setPackedOpaqueFuture(): frees the PackedOpaque and sets its promise.
Report(m) == message' = [message EXCEPT ![m].reports = @ + 1]

\* Faulty variant: the other overload of add_message(), which puts a message first.
ProduceFirst(from, t) ==
  IF t \in Ordered
  THEN queue' = [queue EXCEPT ![from] = Tail(@), ![Buffer(t)] = <<Head(queue[from])>> \o @]
  ELSE Move(from, Outbound(t))

\* produceTask() and produceTaskSync().
Produce(from, t) ==
  IF t \in Ordered THEN Move(from, Buffer(t)) ELSE Move(from, Outbound(t))

\* The client throws: sync_produce() at once, produce() after it has called
\* flushTerminationCallback() (ProducerFlow has the difference).
ProduceThrows(from, t) ==
  /\ t \notin Ordered
  /\ Discard(from)
  /\ Report(Head(queue[from])) \/ UNCHANGED message

ProduceMessage(from, t) == (Produce(from, t) /\ UNCHANGED message) \/ ProduceThrows(from, t)

------------------------------------------------------------------------------
(* The post thread: ProducerManagerImpl::post in the loop of ConnectorImpl  *)

PostSleeps ==
  /\ postThread = "ready" /\ ~Interrupted
  /\ queue[MessageQueue] = <<>> /\ ~shuttingDown
  /\ postThread' = "asleep"
  /\ UNCHANGED <<message, queue, poster, pollThread, pollTask, fanout, switches,
                 closeVars, history>>

PostSwaps ==
  /\ postThread = "ready" /\ ~Interrupted
  /\ queue[MessageQueue] # <<>> /\ ~shuttingDown
  /\ TakeAll(MessageQueue, TempQueue)
  /\ postThread' = "sending"
  /\ UNCHANGED <<message, poster, pollThread, pollTask, fanout, switches, closeVars, history>>

\* Faulty variant: one try around the loop instead of one inside it.
PostNextAbandonsBatch ==
  /\ postThread = "sending" /\ queue[TempQueue] # <<>>
  /\ LET m == Head(queue[TempQueue])
     IN  \/ /\ message[m].builder = "failed"
            /\ queue' = [queue EXCEPT ![TempQueue] = <<>>]
         \/ /\ message[m].builder = "ready"
            /\ Produce(TempQueue, message[m].topic)
  /\ UNCHANGED <<message, threadVars, fanout, switches, closeVars, history>>

\* One turn of the loop over tempQueue; future->get() waits for the coroutine.
PostNext ==
  /\ postThread = "sending" /\ queue[TempQueue] # <<>>
  /\ LET m == Head(queue[TempQueue])
         t == message[m].topic
     IN  \/ /\ message[m].builder = "failed"
            /\ Discard(TempQueue) /\ UNCHANGED message
         \/ /\ message[m].builder = "ready" /\ fanout
            /\ Move(TempQueue, IO(t)) /\ UNCHANGED message
         \/ /\ message[m].builder = "ready" /\ ~fanout
            /\ ProduceMessage(TempQueue, t)
  /\ UNCHANGED <<threadVars, fanout, switches, closeVars, history>>

PostEndsBatch ==
  /\ postThread = "sending" /\ queue[TempQueue] = <<>>
  /\ postThread' = "ready"
  /\ UNCHANGED <<message, queue, poster, pollThread, pollTask, fanout, switches,
                 closeVars, history>>

PostThreadEnds ==
  /\ postThread = "ready" /\ Interrupted
  /\ postThread' = "ended"
  /\ UNCHANGED <<message, queue, poster, pollThread, pollTask, fanout, switches,
                 closeVars, history>>

\* A produceTask() that was fanned out runs.
IoProduce(t) ==
  /\ queue[IO(t)] # <<>>
  /\ ProduceMessage(IO(t), t)
  /\ UNCHANGED <<threadVars, fanout, switches, closeVars, history>>

------------------------------------------------------------------------------
(* The poll thread: ProducerManagerImpl::poll and pollTask.  Only an        *)
(* ordered topic ever has messages in its buffer (internal.producer.retries *)
(* is 0, its default), so the flush of another topic finds nothing to do.   *)

Poll(t) ==
  /\ pollThread = "running"
  /\ pollTask[t] = "none"
  /\ pollTask' = [pollTask EXCEPT ![t] = "posted"]
  /\ UNCHANGED <<message, queue, poster, postThread, pollThread, fanout, switches,
                 closeVars, history>>

PollThreadEnds ==
  /\ pollThread = "running" /\ Interrupted
  /\ pollThread' = "ended"
  /\ UNCHANGED <<message, queue, poster, postThread, pollTask, fanout, switches,
                 closeVars, history>>

PollTask(t) ==
  /\ pollTask[t] = "posted"
  /\ TakeAll(Buffer(t), Flush(t))
  /\ pollTask' = [pollTask EXCEPT ![t] = "flushing"]
  /\ UNCHANGED <<message, poster, postThread, pollThread, fanout, switches, closeVars, history>>

\* Faulty variant: flush(false).
AcksNotAwaited(t) == t \in Ordered

\* flush(true) waits for the answer to each message before the next.
AcksAwaited(t) == queue[Outbound(t)] = <<>>

FlushNext(t) ==
  /\ pollTask[t] = "flushing" /\ queue[Flush(t)] # <<>>
  /\ AcksAwaited(t)
  /\ Move(Flush(t), Outbound(t))
  /\ UNCHANGED <<message, threadVars, fanout, switches, closeVars, history>>

\* The client refuses a message with another error than a full queue: flush(true)
\* throws, pollTask's catch ends the task, and what the flush had taken is gone,
\* neither sent nor reported.
FlushThrows(t) ==
  /\ pollTask[t] = "flushing" /\ queue[Flush(t)] # <<>>
  /\ AcksAwaited(t)
  /\ queue' = [queue EXCEPT ![Flush(t)] = <<>>]
  /\ abandoned' = abandoned \cup {queue[Flush(t)][i] : i \in DOMAIN queue[Flush(t)]}
  /\ pollTask' = [pollTask EXCEPT ![t] = "none"]
  /\ UNCHANGED <<message, poster, postThread, pollThread, fanout, switches, closeVars, acked>>

PollTaskEnds(t) ==
  /\ pollTask[t] = "flushing" /\ queue[Flush(t)] = <<>>
  /\ AcksAwaited(t)
  /\ pollTask' = [pollTask EXCEPT ![t] = "none"]
  /\ UNCHANGED <<message, queue, poster, postThread, pollThread, fanout, switches,
                 closeVars, history>>

------------------------------------------------------------------------------
(* The broker's answers: produceSuccessCallback, produceTerminationCallback *)

BrokerAcks(t) ==
  /\ queue[Outbound(t)] # <<>>
  /\ Report(Head(queue[Outbound(t)]))
  /\ Discard(Outbound(t))
  /\ acked' = [acked EXCEPT ![t] = Append(@, Head(queue[Outbound(t)]))]
  /\ UNCHANGED <<threadVars, fanout, switches, closeVars, abandoned>>

BrokerFails(t) ==
  /\ queue[Outbound(t)] # <<>>
  /\ Report(Head(queue[Outbound(t)]))
  /\ Discard(Outbound(t))
  /\ UNCHANGED <<threadVars, fanout, switches, closeVars, history>>

------------------------------------------------------------------------------
(* shutdown()                                                               *)

\* Faulty variant: does not wake the post thread.
ShutdownSilently ==
  /\ ~shuttingDown
  /\ shuttingDown' = TRUE
  /\ handedOver' = Len(message)
  /\ UNCHANGED <<message, queue, threadVars, fanout, switches, closing, connector, history>>

Shutdown ==
  /\ ~shuttingDown
  /\ shuttingDown' = TRUE
  /\ handedOver' = Len(message)
  /\ Notify
  /\ UNCHANGED <<message, queue, poster, pollThread, pollTask, fanout, switches,
                 closing, connector, history>>

\* flush() of the next producer: it hands over whatever is buffered, ...
DrainProducer(t) ==
  /\ shuttingDown /\ closing[t] = "todo"
  /\ \A u \in Topics : closing[u] # "draining"
  /\ IF t \in Ordered THEN TakeAll(Buffer(t), Drain(t)) ELSE UNCHANGED queue
  /\ closing' = [closing EXCEPT ![t] = "draining"]
  /\ UNCHANGED <<message, threadVars, fanout, switches, shuttingDown, connector,
                 handedOver, history>>

DrainNext(t) ==
  /\ queue[Drain(t)] # <<>>
  /\ Move(Drain(t), Outbound(t))
  /\ UNCHANGED <<message, threadVars, fanout, switches, closeVars, history>>

\* ... what the client refuses is kept or given up (flushFailureCallback,
\* flushTerminationCallback), ...
DrainRefused(t) ==
  /\ queue[Drain(t)] # <<>>
  /\ \/ /\ queue' = [queue EXCEPT ![Drain(t)] = Tail(@),
                                  ![Buffer(t)] = <<Head(queue[Drain(t)])>> \o @]
        /\ UNCHANGED message
     \/ /\ Discard(Drain(t))
        /\ Report(Head(queue[Drain(t)]))
  /\ UNCHANGED <<threadVars, fanout, switches, closeVars, history>>

\* ... and it returns once nothing awaits an answer.
DrainEnds(t) ==
  /\ closing[t] = "draining"
  /\ t \in Ordered => queue[Drain(t)] = <<>>
  /\ queue[Outbound(t)] = <<>>
  /\ closing' = [closing EXCEPT ![t] = "done"]
  /\ UNCHANGED <<message, queue, threadVars, fanout, switches, shuttingDown, connector,
                 handedOver, history>>

Drained == \A t \in Topics : closing[t] = "done"

\* ConnectorImpl::shutdown goes on to stop its threads.
Interrupt ==
  /\ Drained /\ connector = "serving"
  /\ connector' = "joining"
  /\ UNCHANGED <<message, queue, threadVars, fanout, switches, closing, shuttingDown,
                 handedOver, history>>

\* Then it joins them, ...
JoinThreads ==
  /\ connector = "joining" /\ pollThread = "ended" /\ postThread = "ended"
  /\ connector' = "draining"
  /\ UNCHANGED <<message, queue, threadVars, fanout, switches, closing, shuttingDown,
                 handedOver, history>>

\* Coroutines and IO tasks of the dispatcher.
TasksDone ==
  /\ \A m \in Messages : message[m].builder # "running"
  /\ \A t \in Topics : queue[IO(t)] = <<>>
  /\ \A t \in Ordered : pollTask[t] = "none"

\* ... and drains a dispatcher of its own: without a timeout until no task is left.
DrainDispatcher ==
  /\ connector = "draining" /\ TasksDone
  /\ connector' = "down"
  /\ UNCHANGED <<message, queue, threadVars, fanout, switches, closing, shuttingDown,
                 handedOver, history>>

------------------------------------------------------------------------------
Next ==
  \/ \E p \in Posters : Post(p) \/ PostThrows(p) \/ \E t \in Topics : CheckQueueLength(p, t)
  \/ \E m \in Messages : Serialized(m, "ready") \/ Serialized(m, "failed")
  \/ PostSleeps \/ PostSwaps \/ PostNext \/ PostEndsBatch \/ PostThreadEnds
  \/ \E t \in Topics :
       \/ Send(t) \/ IoProduce(t)
       \/ BrokerAcks(t) \/ BrokerFails(t)
       \/ DrainProducer(t) \/ DrainEnds(t)
  \/ \E t \in Ordered :
       \/ Poll(t) \/ PollTask(t) \/ FlushNext(t) \/ FlushThrows(t) \/ PollTaskEnds(t)
       \/ DrainNext(t) \/ DrainRefused(t)
  \/ PollThreadEnds \/ EnableMessageFanout
  \/ Shutdown \/ Interrupt \/ JoinThreads \/ DrainDispatcher

Spec == Init /\ [][Next]_vars

\* The threads run - the post thread, the poll thread, that of shutdown() and those
\* of the dispatcher -, coroutines end, rdkafka answers for every message (its
\* message.timeout.ms).  Nothing obliges the application to act.
ShutdownGoesOn ==
  \/ \E t \in Topics : DrainProducer(t) \/ DrainEnds(t)
  \/ \E t \in Ordered : DrainNext(t) \/ DrainRefused(t)
  \/ Interrupt \/ JoinThreads \/ DrainDispatcher

Fairness ==
  /\ WF_vars(\E m \in Messages : Serialized(m, "ready") \/ Serialized(m, "failed"))
  /\ WF_vars(PostSleeps \/ PostSwaps \/ PostNext \/ PostEndsBatch \/ PostThreadEnds)
  /\ WF_vars(PollThreadEnds)
  /\ WF_vars(ShutdownGoesOn)
  /\ \A t \in Topics : WF_vars(IoProduce(t)) /\ WF_vars(BrokerAcks(t) \/ BrokerFails(t))
  /\ \A t \in Ordered :
       /\ WF_vars(Poll(t))
       /\ WF_vars(PollTask(t) \/ FlushNext(t) \/ FlushThrows(t) \/ PollTaskEnds(t))

FairSpec == Spec /\ Fairness

------------------------------------------------------------------------------
(* Properties                                                               *)

Message == [topic : Topics, posted : BOOLEAN,
            builder : {"running", "ready", "failed"}, reports : Nat]

\* The types of the variables, and what the control of each thread implies: the
\* post thread never sleeps on a message or through a shutdown, and a temporary
\* queue holds messages only while its owner is at work on it.
TypeOK ==
  /\ message \in Seq(Message) /\ Len(message) <= MaxMessages
  /\ queue \in [Places -> Seq(Messages)]
  /\ poster \in [Posters -> Topics \cup {Idle}]
  /\ postThread \in {"ready", "asleep", "sending", "ended"}
  /\ pollThread \in {"running", "ended"}
  /\ pollTask \in [Ordered -> {"none", "posted", "flushing"}]
  /\ fanout \in BOOLEAN /\ switches \in 0 .. MaxSwitches
  /\ closing \in [Topics -> {"todo", "draining", "done"}]
  /\ shuttingDown \in BOOLEAN
  /\ connector \in {"serving", "joining", "draining", "down"}
  /\ handedOver \in 0 .. Len(message)
  /\ acked \in [Topics -> Seq(Messages)] /\ abandoned \subseteq Messages
  /\ postThread = "asleep" => queue[MessageQueue] = <<>> /\ ~shuttingDown
  /\ postThread # "sending" => queue[TempQueue] = <<>>
  /\ \A t \in Ordered :
       /\ pollTask[t] # "flushing" => queue[Flush(t)] = <<>>
       /\ closing[t] # "draining" => queue[Drain(t)] = <<>>
  /\ (\E t \in Topics : closing[t] # "todo") => shuttingDown
  /\ Interrupted => Drained
  /\ connector \in {"draining", "down"} => postThread = "ended" /\ pollThread = "ended"

Waiting(m) == \E p \in Places : \E i \in DOMAIN queue[p] : queue[p][i] = m

\* The PackedOpaque of a message is freed, and its promise set, at most once
\* and never while some queue still holds the raw pointer to it: no message is
\* in two queues, or twice in one, and a message that was reported is in none.
OneOwner ==
  /\ \A p, q \in Places : \A i \in DOMAIN queue[p], j \in DOMAIN queue[q] :
        queue[p][i] = queue[q][j] => p = q /\ i = j
  /\ \A m \in Messages : message[m].reports <= IF Waiting(m) THEN 0 ELSE 1

Posted(m) == message[m].posted

\* With order preservation the broker accepts the messages of a topic in the
\* order in which post() took them, as long as fan-out is not switched off again
\* and no shutdown() flushes what a poll task is in the middle of flushing.
OrderPreserved ==
  ~shuttingDown /\ switches <= 1 =>
    \A t \in Ordered : \A i, j \in DOMAIN acked[t] :
      i < j /\ Posted(acked[t][i]) /\ Posted(acked[t][j]) => acked[t][i] < acked[t][j]

\* CONFIGURATION.md: with order preservation a posted message is handed over
\* only when the one before it has been answered, until a shutdown().
OneInFlight ==
  ~shuttingDown =>
    \A t \in Ordered : \A i, j \in DOMAIN queue[Outbound(t)] :
      Posted(queue[Outbound(t)][i]) /\ Posted(queue[Outbound(t)][j]) => i = j

Answered(m) ==
  /\ m \in Messages
  /\ message[m].reports > 0 \/ (message[m].topic \notin Ordered /\ ~Waiting(m))

\* No message gets stuck in a queue, and only a flush that throws loses any: once
\* serialized, each of the others is reported to the application (without order
\* preservation: or its produce() threw), unless a shutdown() begins.
EveryMessageAnswered ==
  \A m \in 1 .. MaxMessages :
    (m \in Messages /\ message[m].builder = "ready")
      ~> (Answered(m) \/ m \in abandoned \/ shuttingDown)

\* ConnectorImpl::shutdown returns: the flushes end, and so do both threads,
\* whatever they were waiting for when it began, and every task of the dispatcher.
ShutdownReturns == shuttingDown ~> connector = "down"

\* corokafka_producer_manager.h:100, "wait until all buffered messages are sent".
BufferedMessagesSent ==
  Drained => \A m \in Messages : m <= handedOver => ~Waiting(m)

==============================================================================
