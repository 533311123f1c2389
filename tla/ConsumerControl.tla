---------------------------- MODULE ConsumerControl ----------------------------
(***************************************************************************)
(* The control of one topic of ConsumerManagerImpl: whether its consumer   *)
(* is subscribed, polled, paused by the application or by throttling.      *)
(* Three threads share the flags of ConsumerTopicEntry, without a lock:    *)
(* the application, the poll thread, and the IO thread on which a poll     *)
(* task reads from rdkafka and is called back by it.                       *)
(*                                                                         *)
(* rdkafka and the group coordinator are modelled from the calls made to   *)
(* them: a rebalance waits as an event until the consumer is polled.  With *)
(* the static partition strategy there is no group, and none of them.      *)
(***************************************************************************)
EXTENDS ConsumerSetup

CONSTANTS
  RebalanceCallbacks, \* whether the application has registered one: a set of BOOLEAN
  Strategies,         \* partition strategies: "dynamic", "static"
  Multipliers,        \* values of internal.consumer.auto.throttle.multiplier
  MaxSubscribes,      \* bound: calls of subscribe()
  MaxRebalances,      \* bound: revocations the coordinator decides on
  MaxThrottles        \* bound: throttle callbacks of rdkafka

ASSUME ControlAssumption ==
  /\ RebalanceCallbacks \subseteq BOOLEAN /\ Strategies \subseteq {"dynamic", "static"}
  /\ Multipliers \subseteq Nat
  /\ MaxSubscribes \in Nat /\ MaxRebalances \in Nat /\ MaxThrottles \in Nat

VARIABLES
  config,       \* options of the consumer, fixed once it is set up
  isSubscribed, setOffsetsOnStart, isPaused,
  throttled,    \* ThrottleControl::_throttleDuration > 0
  app,          \* the application's call in progress
  pollThread,   \* ConsumerManagerImpl::poll, for this consumer
  pollTask,     \* _pollFuture and the read from rdkafka behind it
  subscription, \* rdkafka: the consumer is a member of its group
  assigned,     \* rdkafka: it has partitions
  event,        \* rdkafka: the rebalance that waits to be served
  halted,       \* rdkafka: the partitions it has, or will be assigned, are paused
  offsets,      \* the initial assignment is not empty
  pauseUndone,  \* history: why the last pause() need not hold any more
  begunPaused,  \* history: setup() has paused the partitions, and no resume() reached them
  applied,      \* history: times the configured offsets were used
  subscribes, rebalances, throttles   \* count what the bounds bound

flags    == <<isSubscribed, setOffsetsOnStart, isPaused, throttled>>
rdkafka  == <<subscription, assigned, event, halted, begunPaused>>
counters == <<subscribes, rebalances, throttles>>
progress == <<pauseUndone, offsets, applied>>
vars == <<config, flags, app, pollThread, pollTask, rdkafka, progress, counters>>

\* Options that setup() accepts.  Nothing looks at the multiplier of a consumer that
\* does not throttle.
Options ==
  {o \in {Brokers ++ t ++ m ++ p :
            t \in MayGive("auto.throttle", Flag),
            m \in MayGive("auto.throttle.multiplier", Multipliers),
            p \in MayGive("pause.on.start", Flag)} :
     IsGiven(o, "auto.throttle.multiplier") => IsTrue(o, "auto.throttle", FALSE)}

\* What the application configures besides: assignInitialPartitions() refuses a static
\* strategy without partitions; with one, a rebalance callback is never called.
Registrations ==
  {r \in [strategy : Strategies, partitions : SUBSET {"partition"}, callback : RebalanceCallbacks] :
     r.strategy = "static" => r.partitions # {} /\ ~r.callback}

Settings ==
  {ControlSettings(o, IF r.callback THEN {"rebalance"} ELSE {}, r.strategy, r.partitions) :
     o \in {x \in Options : Accepted(x, 1)}, r \in Registrations}

\* setup() has paused the topic, if that is asked for, and has then subscribed the
\* consumer or assigned it its partitions.  Its dispatcher starts the poll thread.
Init ==
  /\ config \in Settings
  /\ isSubscribed = TRUE /\ setOffsetsOnStart = TRUE
  /\ isPaused = FALSE /\ throttled = FALSE
  /\ app = "idle" /\ pollThread = "idle" /\ pollTask = "none"
  /\ subscription = (config.strategy = "dynamic") /\ assigned = (config.strategy = "static")
  /\ event = "none" /\ halted = config.pauseOnStart /\ begunPaused = config.pauseOnStart
  /\ pauseUndone = FALSE /\ offsets = config.offsets /\ applied = 0
  /\ subscribes = 0 /\ rebalances = 0 /\ throttles = 0

------------------------------------------------------------------------------
(* The application.  Each call is a call of cppkafka and a write of a flag. *)

\* cppkafka pauses and resumes the partitions that are assigned, if there are any.
PauseAssigned ==
  /\ halted' = (halted \/ assigned)
  /\ UNCHANGED <<subscription, assigned, event, begunPaused>>

ResumeAssigned ==
  /\ halted' = (halted /\ ~assigned)
  /\ UNCHANGED <<subscription, assigned, event>>

Pause ==
  /\ app = "idle"
  /\ PauseAssigned
  /\ app' = "pausing"
  /\ UNCHANGED <<config, flags, pollThread, pollTask, progress, counters>>

\* An internal thread that has seen _isPaused clear and may yet resume.
PastPausedCheck ==
  pollThread \in {"reducing", "resuming"} \/ pollTask \in {"unthrottling", "resuming"}

PauseEnds ==
  /\ app = "pausing"
  /\ isPaused' = TRUE
  /\ app' = "idle"
  /\ pauseUndone' = (PastPausedCheck \/ ~halted)
  /\ UNCHANGED <<config, isSubscribed, setOffsetsOnStart, throttled, pollThread, pollTask,
                 rdkafka, offsets, applied, counters>>

Resume ==
  /\ app = "idle"
  /\ ResumeAssigned /\ begunPaused' = (begunPaused /\ ~assigned)
  /\ app' = "unpausing"
  /\ UNCHANGED <<config, flags, pollThread, pollTask, progress, counters>>

ResumeEnds ==
  /\ app = "unpausing"
  /\ isPaused' = FALSE
  /\ app' = "idle"
  /\ UNCHANGED <<config, isSubscribed, setOffsetsOnStart, throttled, pollThread, pollTask,
                 rdkafka, progress, counters>>

\* Faulty variant: the consumer is subscribed again, but not marked.
SubscribeUnmarked(partitions) ==
  /\ app = "idle" /\ ~isSubscribed /\ subscribes < MaxSubscribes
  /\ setOffsetsOnStart' = TRUE /\ offsets' = (offsets \/ partitions)
  /\ subscribes' = subscribes + 1
  /\ app' = "subscribing"
  /\ UNCHANGED <<config, isSubscribed, isPaused, throttled, pollThread, pollTask, rdkafka,
                 pauseUndone, applied, rebalances, throttles>>

\* subscribe(): refused unless _isSubscribed is clear.  Partitions that are given
\* with it replace the initial assignment.
Subscribe(partitions) ==
  /\ app = "idle" /\ ~isSubscribed /\ subscribes < MaxSubscribes
  /\ isSubscribed' = TRUE /\ setOffsetsOnStart' = TRUE
  /\ offsets' = (offsets \/ partitions)
  /\ subscribes' = subscribes + 1
  /\ app' = "subscribing"
  /\ UNCHANGED <<config, isPaused, throttled, pollThread, pollTask, rdkafka,
                 pauseUndone, applied, rebalances, throttles>>

\* Static partitions are assigned to it at their stored offsets.
SubscribeEnds ==
  /\ app = "subscribing"
  /\ IF config.strategy = "static" THEN assigned' = TRUE /\ UNCHANGED subscription
                                   ELSE subscription' = TRUE /\ UNCHANGED assigned
  /\ app' = "idle"
  /\ UNCHANGED <<config, flags, pollThread, pollTask, event, halted, begunPaused, progress,
                 counters>>

\* The consumer leaves its group, and partitions it has are revoked when it is
\* polled; static partitions are gone at once.
LeaveGroup ==
  /\ isSubscribed
  /\ IF config.strategy = "static"
     THEN /\ assigned' = FALSE /\ halted' = FALSE /\ begunPaused' = FALSE
          /\ pauseUndone' = TRUE
          /\ UNCHANGED <<subscription, event>>
     ELSE /\ subscription' = FALSE
          /\ event' = IF assigned THEN "revoke" ELSE "none"
          /\ UNCHANGED <<assigned, halted, begunPaused, pauseUndone>>
  /\ UNCHANGED <<offsets, applied>>

\* unsubscribe(topic) leaves _isSubscribed as it is.
UnsubscribeTopic ==
  /\ app = "idle" /\ LeaveGroup
  /\ UNCHANGED <<config, flags, app, pollThread, pollTask, counters>>

\* unsubscribe(), and with it shutdown().
Unsubscribe ==
  /\ app = "idle" /\ LeaveGroup
  /\ app' = "unsubscribing"
  /\ UNCHANGED <<config, flags, pollThread, pollTask, counters>>

UnsubscribeEnds ==
  /\ app = "unsubscribing"
  /\ isSubscribed' = FALSE
  /\ app' = "idle"
  /\ UNCHANGED <<config, setOffsetsOnStart, isPaused, throttled, pollThread, pollTask,
                 rdkafka, progress, counters>>

------------------------------------------------------------------------------
(* The poll thread: poll(), with adjustThrottling() first                   *)

\* Faulty variant: throttling is adjusted whether or not the user has paused.
PollBeginsUnchecked ==
  /\ pollThread = "idle" /\ isSubscribed
  /\ pollThread' = "reducing"
  /\ UNCHANGED <<config, flags, app, pollTask, rdkafka, progress, counters>>

\* A consumer that is not subscribed is passed over.
PollBegins ==
  /\ pollThread = "idle" /\ isSubscribed
  /\ pollThread' = IF isPaused THEN "starting" ELSE "reducing"
  /\ UNCHANGED <<config, flags, app, pollTask, rdkafka, progress, counters>>

\* Faulty variant: the throttle time is reset, but the consumer not resumed.
ThrottleForgotten ==
  /\ pollThread = "reducing" /\ config.autoThrottle /\ throttled
  /\ pollTask # "pausing"
  /\ throttled' = FALSE
  /\ pollThread' = "starting"
  /\ UNCHANGED <<config, isSubscribed, setOffsetsOnStart, isPaused, app, pollTask, rdkafka,
                 progress, counters>>

\* reduceThrottling(): the throttle time has passed.  It is measured from inside
\* the throttle callback, which is over well before.
ThrottleElapses ==
  /\ pollThread = "reducing" /\ config.autoThrottle /\ throttled
  /\ pollTask # "pausing"
  /\ throttled' = FALSE
  /\ pollThread' = "resuming"
  /\ UNCHANGED <<config, isSubscribed, setOffsetsOnStart, isPaused, app, pollTask, rdkafka,
                 progress, counters>>

\* It has not, or there is none.
NothingToReduce ==
  /\ pollThread = "reducing"
  /\ pollThread' = "starting"
  /\ UNCHANGED <<config, flags, app, pollTask, rdkafka, progress, counters>>

AdjustResumes ==
  /\ pollThread = "resuming"
  /\ ResumeAssigned /\ UNCHANGED begunPaused
  /\ pollThread' = "starting"
  /\ UNCHANGED <<config, flags, app, pollTask, progress, counters>>

\* A new poll task, if the last one has ended.
PollEnds ==
  /\ pollThread = "starting"
  /\ pollTask' = IF pollTask = "none" THEN "reading" ELSE pollTask
  /\ pollThread' = "idle"
  /\ UNCHANGED <<config, flags, app, rdkafka, progress, counters>>

------------------------------------------------------------------------------
(* rdkafka, polled by the poll task, and its callbacks                      *)

CoordinatorAssigns ==
  /\ subscription /\ ~assigned /\ event = "none"
  /\ event' = "assign"
  /\ UNCHANGED <<config, flags, app, pollThread, pollTask, subscription, assigned, halted,
                 begunPaused, progress, counters>>

CoordinatorRevokes ==
  /\ subscription /\ assigned /\ event = "none" /\ rebalances < MaxRebalances
  /\ event' = "revoke"
  /\ rebalances' = rebalances + 1
  /\ UNCHANGED <<config, flags, app, pollThread, pollTask, subscription, assigned, halted,
                 begunPaused, progress, subscribes, throttles>>

\* Faulty variant: the flag stays up.
UseConfiguredOffsetsAlways ==
  /\ applied' = IF offsets /\ setOffsetsOnStart THEN applied + 1 ELSE applied
  /\ UNCHANGED setOffsetsOnStart

\* The first assignment after a subscription starts at the configured offsets.
UseConfiguredOffsets ==
  IF offsets /\ setOffsetsOnStart
  THEN setOffsetsOnStart' = FALSE /\ applied' = applied + 1
  ELSE UNCHANGED <<setOffsetsOnStart, applied>>

\* assignmentCallback(), where setup() has registered it, and the assignment of
\* partitions, of which none is paused unless setup() has paused the topic.
ServeAssignment ==
  /\ pollTask = "reading" /\ event = "assign"
  /\ event' = "none" /\ assigned' = TRUE
  /\ pauseUndone' = TRUE
  /\ IF config.assigns
     THEN isSubscribed' = TRUE /\ throttled' = FALSE /\ UseConfiguredOffsets
     ELSE UNCHANGED <<isSubscribed, throttled, setOffsetsOnStart, applied>>
  /\ UNCHANGED <<config, isPaused, app, pollThread, pollTask, subscription, halted, begunPaused,
                 offsets, counters>>

\* revocationCallback(), which setup() registers with a RebalanceCallback only.
ServeRevocation ==
  /\ pollTask = "reading" /\ event = "revoke"
  /\ event' = "none" /\ assigned' = FALSE /\ halted' = FALSE /\ begunPaused' = FALSE
  /\ pauseUndone' = TRUE
  /\ isSubscribed' = (isSubscribed /\ ~config.rebalances)
  /\ UNCHANGED <<config, setOffsetsOnStart, isPaused, throttled, app, pollThread, pollTask,
                 subscription, offsets, applied, counters>>

\* Faulty variant: throttled whether or not the option is set.
ServeThrottleAlways(on) ==
  /\ pollTask = "reading" /\ throttles < MaxThrottles
  /\ throttles' = throttles + 1
  /\ ~isPaused
  /\ pollTask' = IF on THEN "throttling" ELSE "unthrottling"
  /\ UNCHANGED <<config, flags, app, pollThread, rdkafka, progress, subscribes,
                 rebalances>>

\* throttleCallback(): a consumer that is paused is left alone, and one without
\* auto-throttling, whose callback only goes on to the application.
ServeThrottle(on) ==
  /\ pollTask = "reading" /\ throttles < MaxThrottles
  /\ throttles' = throttles + 1
  /\ config.throttles /\ config.autoThrottle /\ ~isPaused
  /\ pollTask' = IF on THEN "throttling" ELSE "unthrottling"
  /\ UNCHANGED <<config, flags, app, pollThread, rdkafka, progress, subscribes,
                 rebalances>>

\* handleThrottleCallback() tells a change from a repetition by the duration that
\* it keeps, which the multiplier may have made 0.
HandleThrottle ==
  LET on == pollTask = "throttling"
  IN  /\ pollTask \in {"throttling", "unthrottling"}
      /\ throttled' = (on /\ config.multiplier # 0)
      /\ pollTask' = IF throttled = on THEN "reading"
                     ELSE IF on THEN "pausing" ELSE "resuming"
      /\ UNCHANGED <<config, isSubscribed, setOffsetsOnStart, isPaused, app, pollThread,
                     rdkafka, progress, counters>>

ThrottlePausesOrResumes ==
  /\ pollTask \in {"pausing", "resuming"}
  /\ IF pollTask = "pausing" THEN PauseAssigned ELSE ResumeAssigned /\ UNCHANGED begunPaused
  /\ pollTask' = "reading"
  /\ UNCHANGED <<config, flags, app, pollThread, progress, counters>>

ReadEnds ==
  /\ pollTask = "reading"
  /\ pollTask' = "none"
  /\ UNCHANGED <<config, flags, app, pollThread, rdkafka, progress, counters>>

------------------------------------------------------------------------------
AppEnds == PauseEnds \/ ResumeEnds \/ SubscribeEnds \/ UnsubscribeEnds

PollThreadStep ==
  PollBegins \/ ThrottleElapses \/ NothingToReduce \/ AdjustResumes \/ PollEnds

PollTaskStep ==
  \/ ServeAssignment \/ ServeRevocation
  \/ \E on \in BOOLEAN : ServeThrottle(on)
  \/ HandleThrottle \/ ThrottlePausesOrResumes \/ ReadEnds

Next ==
  \/ Pause \/ Resume \/ UnsubscribeTopic \/ Unsubscribe \/ AppEnds
  \/ \E partitions \in BOOLEAN : Subscribe(partitions)
  \/ PollThreadStep \/ PollTaskStep
  \/ CoordinatorAssigns \/ CoordinatorRevokes

Spec == Init /\ [][Next]_vars

\* Calls return, both threads run, throttle time passes, the coordinator hands
\* partitions to a member, and a read serves the rebalance that waits for it.
Fairness ==
  /\ WF_vars(AppEnds) /\ WF_vars(PollThreadStep) /\ SF_vars(ThrottleElapses)
  /\ WF_vars(PollTaskStep) /\ SF_vars(ServeAssignment \/ ServeRevocation)
  /\ SF_vars(ReadEnds) /\ WF_vars(CoordinatorAssigns)

FairSpec == Spec /\ Fairness

------------------------------------------------------------------------------
(* Properties                                                               *)

\* Only a consumer with auto-throttling is throttled.
FlagsOK ==
  /\ isSubscribed \in BOOLEAN /\ setOffsetsOnStart \in BOOLEAN
  /\ isPaused \in BOOLEAN /\ throttled \in BOOLEAN
  /\ throttled => config.autoThrottle

ThreadsOK ==
  /\ app \in {"idle", "pausing", "unpausing", "subscribing", "unsubscribing"}
  /\ pollThread \in {"idle", "reducing", "resuming", "starting"}
  /\ pollTask \in {"none", "reading", "throttling", "unthrottling", "pausing", "resuming"}

\* An assignment waits only for a member without partitions, a revocation for one with
\* them, and only partitions that are there are paused, but for the pause of setup().
RdKafkaOK ==
  /\ subscription \in BOOLEAN /\ assigned \in BOOLEAN /\ halted \in BOOLEAN
  /\ begunPaused \in BOOLEAN /\ event \in {"none", "assign", "revoke"}
  /\ event = "assign" => ~assigned
  /\ event = "revoke" => assigned
  /\ halted => assigned \/ begunPaused

ProgressOK ==
  /\ offsets \in BOOLEAN /\ pauseUndone \in BOOLEAN /\ applied \in Nat
  /\ subscribes \in 0 .. MaxSubscribes /\ rebalances \in 0 .. MaxRebalances
  /\ throttles \in 0 .. MaxThrottles

\* The types, and what ties the flags to each other and to rdkafka's state.
TypeOK == FlagsOK /\ ThreadsOK /\ RdKafkaOK /\ ProgressOK

\* "Resume only if this consumer is not paused explicitly by the user"
\* (adjustThrottling): a pause() holds until resume(), unsubscribe() or the next rebalance,
\* unless a thread was past its look at _isPaused when pause() returned.
\* CONFIGURATION.md:9, "Start the consumer in paused state. User needs to call
\* resume() to consume": so does pause.on.start, if the broker never throttles.
PauseHolds ==
  /\ isPaused /\ app = "idle" /\ ~pauseUndone => halted
  /\ begunPaused /\ throttles = 0 => halted

\* The configured offsets are used for one assignment per subscription: no later
\* rebalance takes the consumer back to them; and the first one does use them.
ConfiguredOffsetsOnce ==
  /\ applied <= subscribes + 1
  /\ config.strategy = "dynamic" /\ config.offsets /\ assigned => applied >= 1

\* What throttling has paused it resumes, unless the user pauses it meanwhile or
\* the consumer is unsubscribed: the pause is never forgotten.  A consumer that setup()
\* has paused waits for the user; and a multiplier that came out as 0 hides the pause.
ThrottlingEnds ==
  halted ~> \/ ~halted \/ isPaused \/ ~isSubscribed \/ app = "pausing"
            \/ begunPaused \/ config.multiplier = 0

\* README.md:37, "consumer polling is handled internally, so applications need not
\* worry about blocking or missing heartbeats": while the consumer is a member of
\* its group it is polled again and again.
MemberIsPolled == <>[](subscription /\ app = "idle") => []<>(pollTask = "reading")

\* The same where the application has no RebalanceCallback, so that setup() does
\* not register revocationCallback(): nothing else keeps poll() from a member.
MemberWithoutCallbackIsPolled == ~config.rebalances => MemberIsPolled

==============================================================================
