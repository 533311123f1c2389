------------------------- MODULE ConsumerControlProofs -------------------------
(***************************************************************************)
(* Proofs about ConsumerControl: its type invariant, that pauses hold and  *)
(* that configured offsets are used once per subscription, for any set of  *)
(* strategies, callbacks and multipliers, any number of subscriptions,     *)
(* revocations and throttle callbacks.                                     *)
(***************************************************************************)
EXTENDS ConsumerControl, TLAPS

-------------------------------------------------------------------------------
(* The inductive invariant                                                 *)

\* What setup() makes of any options and registrations.
ConfigOK ==
  /\ config.pauseOnStart \in BOOLEAN /\ config.autoThrottle \in BOOLEAN
  /\ config.strategy \in {"dynamic", "static"} /\ config.offsets \in BOOLEAN
  /\ config.strategy = "dynamic" /\ config.offsets => config.assigns

\* Static partitions belong to no group; only auto-throttling takes a poll task
\* into the throttle callback.
ControlInv ==
  /\ ConfigOK /\ TypeOK
  /\ config.strategy = "static" => ~subscription /\ event = "none"
  /\ pollTask \notin {"none", "reading"} => config.autoThrottle

\* A pause that nothing has undone meets no thread that could still resume, and is
\* there until a resume() has begun; before the first throttle callback no thread
\* resumes at all.
PauseInv ==
  /\ isPaused /\ ~pauseUndone => ~PastPausedCheck /\ (app # "unpausing" => halted)
  /\ throttles = 0 => ~throttled /\ pollTask \in {"none", "reading"} /\ pollThread # "resuming"
  /\ begunPaused /\ throttles = 0 => halted

\* The flag that is up stands for one use still to come, and one that is down for
\* a use that was made.
OffsetsInv ==
  /\ config.offsets => offsets
  /\ applied + (IF setOffsetsOnStart THEN 1 ELSE 0) <= subscribes + 1
  /\ ~setOffsetsOnStart => applied >= 1
  /\ config.strategy = "dynamic" /\ config.offsets /\ assigned => applied >= 1

-------------------------------------------------------------------------------
(* The initial states                                                      *)

\* setup() registers assignmentCallback() wherever a dynamic consumer is given
\* partitions, so that their offsets can be used.
LEMMA SettingsOK == config \in Settings => ConfigOK
<1>1. SUFFICES ASSUME config \in Settings PROVE ConfigOK
  OBVIOUS
<1>2. PICK o \in {x \in Options : Accepted(x, 1)}, r \in Registrations :
        config = ControlSettings(o, IF r.callback THEN {"rebalance"} ELSE {},
                                 r.strategy, r.partitions)
  BY <1>1 DEF Settings
<1>3. r.strategy \in {"dynamic", "static"}
  BY <1>2, ControlAssumption DEF Registrations
<1>4. QED
  BY <1>2, <1>3 DEF ConfigOK, ControlSettings, HungCallbacks, IsTrue, PausesOnStart

LEMMA InitInv == Init => ControlInv /\ PauseInv /\ OffsetsInv
<1>1. SUFFICES ASSUME Init PROVE ControlInv /\ PauseInv /\ OffsetsInv
  OBVIOUS
<1>2. ConfigOK
  BY <1>1, SettingsOK DEF Init
<1>3. FlagsOK /\ ThreadsOK
  BY <1>1 DEF Init, FlagsOK, ThreadsOK
<1>4. RdKafkaOK
  BY <1>1, <1>2 DEF Init, ConfigOK, RdKafkaOK
<1>5. ProgressOK
  <2>1. offsets \in BOOLEAN
    BY <1>1, <1>2 DEF Init, ConfigOK
  <2>2. 0 \in 0 .. MaxSubscribes /\ 0 \in 0 .. MaxRebalances /\ 0 \in 0 .. MaxThrottles
    BY ControlAssumption
  <2>3. QED
    BY <1>1, <2>1, <2>2 DEF Init, ProgressOK
<1>6. ControlInv
  BY <1>1, <1>2, <1>3, <1>4, <1>5 DEF Init, ControlInv, TypeOK
<1>7. PauseInv
  BY <1>1, <1>2 DEF Init, ConfigOK, PauseInv, PastPausedCheck
<1>8. OffsetsInv
  <2>1. config.offsets => offsets
    BY <1>1 DEF Init
  <2>2. config.strategy = "dynamic" => ~assigned
    BY <1>1 DEF Init
  <2>3. QED
    BY <1>1, <2>1, <2>2 DEF Init, OffsetsInv
<1>9. QED
  BY <1>6, <1>7, <1>8

-------------------------------------------------------------------------------
(* The steps.  Each lemma names the actions that can disturb its part.     *)

\* A consumer is set up once.
LEMMA ConfigKept ==
  ASSUME ConfigOK, [Next]_vars
  PROVE  ConfigOK'
<1>1. config' = config
  BY DEF Next, AppEnds, PollThreadStep, PollTaskStep, vars, flags, rdkafka, counters,
         progress, Pause, PauseEnds, Resume, ResumeEnds, SubscribeEnds,
         UnsubscribeTopic, Unsubscribe, UnsubscribeEnds, PollBegins, ThrottleElapses,
         NothingToReduce, AdjustResumes, PollEnds, ServeAssignment, ServeRevocation,
         HandleThrottle, ThrottlePausesOrResumes, ReadEnds, CoordinatorAssigns,
         CoordinatorRevokes, Subscribe, ServeThrottle, LeaveGroup, PastPausedCheck,
         PauseAssigned, ResumeAssigned, UseConfiguredOffsets
<1>2. QED
  BY <1>1 DEF ConfigOK

\* Only a throttle callback of a consumer with auto-throttling raises throttled.
LEMMA FlagsKept ==
  ASSUME ControlInv, [Next]_vars
  PROVE  FlagsOK'
<1>1. \/ UNCHANGED <<config, flags>>
      \/ PauseEnds
      \/ ResumeEnds
      \/ \E partitions \in BOOLEAN : Subscribe(partitions)
      \/ UnsubscribeEnds
      \/ ThrottleElapses
      \/ ServeAssignment
      \/ ServeRevocation
      \/ HandleThrottle
  BY DEF Next, AppEnds, PollThreadStep, PollTaskStep, vars, flags, rdkafka, counters,
         progress, Pause, Resume, SubscribeEnds, UnsubscribeTopic, Unsubscribe,
         PollBegins, NothingToReduce, AdjustResumes, PollEnds, ThrottlePausesOrResumes,
         ReadEnds, CoordinatorAssigns, CoordinatorRevokes, ServeThrottle, LeaveGroup,
         PauseAssigned, ResumeAssigned
<1>2. CASE PauseEnds
  BY <1>2 DEF PauseEnds, PastPausedCheck, ControlInv, ConfigOK, TypeOK, FlagsOK, flags
<1>3. CASE ResumeEnds
  BY <1>3 DEF ResumeEnds, ControlInv, ConfigOK, TypeOK, FlagsOK, flags
<1>4. CASE \E partitions \in BOOLEAN : Subscribe(partitions)
  BY <1>4 DEF Subscribe, ControlInv, ConfigOK, TypeOK, FlagsOK, flags
<1>5. CASE UnsubscribeEnds
  BY <1>5 DEF UnsubscribeEnds, ControlInv, ConfigOK, TypeOK, FlagsOK, flags
<1>6. CASE ThrottleElapses
  BY <1>6 DEF ThrottleElapses, ControlInv, ConfigOK, TypeOK, FlagsOK, flags
<1>7. CASE ServeAssignment
  BY <1>7 DEF ServeAssignment, UseConfiguredOffsets, ControlInv, ConfigOK, TypeOK,
     FlagsOK, flags
<1>8. CASE ServeRevocation
  BY <1>8 DEF ServeRevocation, ControlInv, ConfigOK, TypeOK, FlagsOK, flags
<1>9. CASE HandleThrottle
  BY <1>9 DEF HandleThrottle, ControlInv, ConfigOK, TypeOK, FlagsOK, flags
<1>10. CASE UNCHANGED <<config, flags>>
  BY <1>10 DEF ControlInv, ConfigOK, TypeOK, FlagsOK, flags
<1>11. QED
  BY <1>1, <1>2, <1>3, <1>4, <1>5, <1>6, <1>7, <1>8, <1>9, <1>10

\* The application's calls and both internal threads keep their control points.
LEMMA ThreadsKept ==
  ASSUME ControlInv, [Next]_vars
  PROVE  ThreadsOK'
<1>1. \/ UNCHANGED <<app, pollThread, pollTask>>
      \/ Pause
      \/ PauseEnds
      \/ Resume
      \/ ResumeEnds
      \/ \E partitions \in BOOLEAN : Subscribe(partitions)
      \/ SubscribeEnds
      \/ Unsubscribe
      \/ UnsubscribeEnds
      \/ PollBegins
      \/ ThrottleElapses
      \/ NothingToReduce
      \/ AdjustResumes
      \/ PollEnds
      \/ \E on \in BOOLEAN : ServeThrottle(on)
      \/ HandleThrottle
      \/ ThrottlePausesOrResumes
      \/ ReadEnds
  BY DEF Next, AppEnds, PollThreadStep, PollTaskStep, vars, flags, rdkafka, counters,
         progress, UnsubscribeTopic, ServeAssignment, ServeRevocation,
         CoordinatorAssigns, CoordinatorRevokes, LeaveGroup, UseConfiguredOffsets
<1>2. CASE Pause
  BY <1>2 DEF Pause, PauseAssigned, ControlInv, TypeOK, ThreadsOK
<1>3. CASE PauseEnds
  BY <1>3 DEF PauseEnds, PastPausedCheck, ControlInv, TypeOK, ThreadsOK
<1>4. CASE Resume
  BY <1>4 DEF Resume, ResumeAssigned, ControlInv, TypeOK, ThreadsOK
<1>5. CASE ResumeEnds
  BY <1>5 DEF ResumeEnds, ControlInv, TypeOK, ThreadsOK
<1>6. CASE \E partitions \in BOOLEAN : Subscribe(partitions)
  BY <1>6 DEF Subscribe, ControlInv, TypeOK, ThreadsOK
<1>7. CASE SubscribeEnds
  BY <1>7 DEF SubscribeEnds, ControlInv, TypeOK, ThreadsOK
<1>8. CASE Unsubscribe
  BY <1>8 DEF Unsubscribe, LeaveGroup, ControlInv, TypeOK, ThreadsOK
<1>9. CASE UnsubscribeEnds
  BY <1>9 DEF UnsubscribeEnds, ControlInv, TypeOK, ThreadsOK
<1>10. CASE PollBegins
  BY <1>10 DEF PollBegins, ControlInv, TypeOK, ThreadsOK
<1>11. CASE ThrottleElapses
  BY <1>11 DEF ThrottleElapses, ControlInv, TypeOK, ThreadsOK
<1>12. CASE NothingToReduce
  BY <1>12 DEF NothingToReduce, ControlInv, TypeOK, ThreadsOK
<1>13. CASE AdjustResumes
  BY <1>13 DEF AdjustResumes, ResumeAssigned, ControlInv, TypeOK, ThreadsOK
<1>14. CASE PollEnds
  BY <1>14 DEF PollEnds, ControlInv, TypeOK, ThreadsOK
<1>15. CASE \E on \in BOOLEAN : ServeThrottle(on)
  BY <1>15 DEF ServeThrottle, ControlInv, TypeOK, ThreadsOK
<1>16. CASE HandleThrottle
  BY <1>16 DEF HandleThrottle, ControlInv, TypeOK, ThreadsOK
<1>17. CASE ThrottlePausesOrResumes
  BY <1>17 DEF ThrottlePausesOrResumes, PauseAssigned, ResumeAssigned, ControlInv,
     TypeOK, ThreadsOK
<1>18. CASE ReadEnds
  BY <1>18 DEF ReadEnds, ControlInv, TypeOK, ThreadsOK
<1>19. CASE UNCHANGED <<app, pollThread, pollTask>>
  BY <1>19 DEF ControlInv, TypeOK, ThreadsOK
<1>20. QED
  BY <1>1, <1>2, <1>3, <1>4, <1>5, <1>6, <1>7, <1>8, <1>9, <1>10, <1>11, <1>12, <1>13,
     <1>14, <1>15, <1>16, <1>17, <1>18, <1>19

\* A rebalance that waits fits what is assigned, and what is paused is there.
LEMMA RdKafkaKept ==
  ASSUME ControlInv, [Next]_vars
  PROVE  RdKafkaOK'
<1>1. \/ UNCHANGED <<rdkafka>>
      \/ Pause
      \/ Resume
      \/ SubscribeEnds
      \/ UnsubscribeTopic
      \/ Unsubscribe
      \/ AdjustResumes
      \/ CoordinatorAssigns
      \/ CoordinatorRevokes
      \/ ServeAssignment
      \/ ServeRevocation
      \/ ThrottlePausesOrResumes
  BY DEF Next, AppEnds, PollThreadStep, PollTaskStep, vars, flags, rdkafka, counters,
         progress, PauseEnds, ResumeEnds, UnsubscribeEnds, PollBegins, ThrottleElapses,
         NothingToReduce, PollEnds, HandleThrottle, ReadEnds, Subscribe, ServeThrottle,
         PastPausedCheck
<1>2. CASE Pause
  BY <1>2 DEF Pause, PauseAssigned, ControlInv, TypeOK, RdKafkaOK, rdkafka
<1>3. CASE Resume
  BY <1>3 DEF Resume, ResumeAssigned, ControlInv, TypeOK, RdKafkaOK, rdkafka
<1>4. CASE SubscribeEnds
  BY <1>4 DEF SubscribeEnds, ControlInv, TypeOK, RdKafkaOK, rdkafka
<1>5. CASE UnsubscribeTopic
  BY <1>5 DEF UnsubscribeTopic, LeaveGroup, ControlInv, TypeOK, RdKafkaOK, rdkafka
<1>6. CASE Unsubscribe
  BY <1>6 DEF Unsubscribe, LeaveGroup, ControlInv, TypeOK, RdKafkaOK, rdkafka
<1>7. CASE AdjustResumes
  BY <1>7 DEF AdjustResumes, ResumeAssigned, ControlInv, TypeOK, RdKafkaOK, rdkafka
<1>8. CASE CoordinatorAssigns
  BY <1>8 DEF CoordinatorAssigns, ControlInv, TypeOK, RdKafkaOK, rdkafka
<1>9. CASE CoordinatorRevokes
  BY <1>9 DEF CoordinatorRevokes, ControlInv, TypeOK, RdKafkaOK, rdkafka
<1>10. CASE ServeAssignment
  BY <1>10 DEF ServeAssignment, UseConfiguredOffsets, ControlInv, TypeOK, RdKafkaOK,
     rdkafka
<1>11. CASE ServeRevocation
  BY <1>11 DEF ServeRevocation, ControlInv, TypeOK, RdKafkaOK, rdkafka
<1>12. CASE ThrottlePausesOrResumes
  BY <1>12 DEF ThrottlePausesOrResumes, PauseAssigned, ResumeAssigned, ControlInv,
     TypeOK, RdKafkaOK, rdkafka
<1>13. CASE UNCHANGED <<rdkafka>>
  BY <1>13 DEF ControlInv, TypeOK, RdKafkaOK, rdkafka
<1>14. QED
  BY <1>1, <1>2, <1>3, <1>4, <1>5, <1>6, <1>7, <1>8, <1>9, <1>10, <1>11, <1>12, <1>13

\* The counters stay within their bounds.
LEMMA ProgressKept ==
  ASSUME ControlInv, [Next]_vars
  PROVE  ProgressOK'
<1>1. \/ UNCHANGED <<progress, counters>>
      \/ PauseEnds
      \/ \E partitions \in BOOLEAN : Subscribe(partitions)
      \/ UnsubscribeTopic
      \/ Unsubscribe
      \/ CoordinatorRevokes
      \/ ServeAssignment
      \/ ServeRevocation
      \/ \E on \in BOOLEAN : ServeThrottle(on)
  BY DEF Next, AppEnds, PollThreadStep, PollTaskStep, vars, flags, rdkafka, counters,
         progress, Pause, Resume, ResumeEnds, SubscribeEnds, UnsubscribeEnds,
         PollBegins, ThrottleElapses, NothingToReduce, AdjustResumes, PollEnds,
         HandleThrottle, ThrottlePausesOrResumes, ReadEnds, CoordinatorAssigns,
         PauseAssigned, ResumeAssigned
<1>2. CASE PauseEnds
  BY <1>2, ControlAssumption DEF PauseEnds, PastPausedCheck, ControlInv, TypeOK,
     ProgressOK, progress, counters
<1>3. CASE \E partitions \in BOOLEAN : Subscribe(partitions)
  BY <1>3, ControlAssumption DEF Subscribe, ControlInv, TypeOK, ProgressOK, progress,
     counters
<1>4. CASE UnsubscribeTopic
  BY <1>4, ControlAssumption DEF UnsubscribeTopic, LeaveGroup, ControlInv, TypeOK,
     ProgressOK, progress, counters
<1>5. CASE Unsubscribe
  BY <1>5, ControlAssumption DEF Unsubscribe, LeaveGroup, ControlInv, TypeOK,
     ProgressOK, progress, counters
<1>6. CASE CoordinatorRevokes
  BY <1>6, ControlAssumption DEF CoordinatorRevokes, ControlInv, TypeOK, ProgressOK,
     progress, counters
<1>7. CASE ServeAssignment
  BY <1>7, ControlAssumption DEF ServeAssignment, UseConfiguredOffsets, ControlInv,
     TypeOK, ProgressOK, progress, counters
<1>8. CASE ServeRevocation
  BY <1>8, ControlAssumption DEF ServeRevocation, ControlInv, TypeOK, ProgressOK,
     progress, counters
<1>9. CASE \E on \in BOOLEAN : ServeThrottle(on)
  BY <1>9, ControlAssumption DEF ServeThrottle, ControlInv, TypeOK, ProgressOK,
     progress, counters
<1>10. CASE UNCHANGED <<progress, counters>>
  BY <1>10 DEF ControlInv, TypeOK, ProgressOK, progress, counters
<1>11. QED
  BY <1>1, <1>2, <1>3, <1>4, <1>5, <1>6, <1>7, <1>8, <1>9, <1>10

\* The types, and what the strategy and auto-throttling rule out.
LEMMA ControlInvKept ==
  ASSUME ControlInv, [Next]_vars
  PROVE  ControlInv'
<1> DEFINE Ties ==
       /\ config.strategy = "static" => ~subscription /\ event = "none"
       /\ pollTask \notin {"none", "reading"} => config.autoThrottle
<1>1. Ties'
  <2>1. \/ UNCHANGED <<config, subscription, event, pollTask>>
        \/ SubscribeEnds
        \/ UnsubscribeTopic
        \/ Unsubscribe
        \/ CoordinatorAssigns
        \/ CoordinatorRevokes
        \/ ServeAssignment
        \/ ServeRevocation
        \/ PollEnds
        \/ \E on \in BOOLEAN : ServeThrottle(on)
        \/ HandleThrottle
        \/ ThrottlePausesOrResumes
        \/ ReadEnds
    BY DEF Next, AppEnds, PollThreadStep, PollTaskStep, vars, flags, rdkafka, counters,
           progress, Pause, PauseEnds, Resume, ResumeEnds, UnsubscribeEnds, PollBegins,
           ThrottleElapses, NothingToReduce, AdjustResumes, Subscribe, PastPausedCheck,
           PauseAssigned, ResumeAssigned
  <2>2. CASE SubscribeEnds
    BY <2>2 DEF SubscribeEnds, ControlInv, ConfigOK, TypeOK, ThreadsOK, RdKafkaOK, rdkafka
  <2>3. CASE UnsubscribeTopic
    BY <2>3 DEF UnsubscribeTopic, LeaveGroup, ControlInv, ConfigOK, TypeOK, ThreadsOK,
       RdKafkaOK, rdkafka
  <2>4. CASE Unsubscribe
    BY <2>4 DEF Unsubscribe, LeaveGroup, ControlInv, ConfigOK, TypeOK, ThreadsOK,
       RdKafkaOK, rdkafka
  <2>5. CASE CoordinatorAssigns
    BY <2>5 DEF CoordinatorAssigns, ControlInv, ConfigOK, TypeOK, ThreadsOK, RdKafkaOK,
       rdkafka
  <2>6. CASE CoordinatorRevokes
    BY <2>6 DEF CoordinatorRevokes, ControlInv, ConfigOK, TypeOK, ThreadsOK, RdKafkaOK,
       rdkafka
  <2>7. CASE ServeAssignment
    BY <2>7 DEF ServeAssignment, UseConfiguredOffsets, ControlInv, ConfigOK, TypeOK,
       ThreadsOK, RdKafkaOK, rdkafka
  <2>8. CASE ServeRevocation
    BY <2>8 DEF ServeRevocation, ControlInv, ConfigOK, TypeOK, ThreadsOK, RdKafkaOK,
       rdkafka
  <2>9. CASE PollEnds
    BY <2>9 DEF PollEnds, ControlInv, ConfigOK, TypeOK, ThreadsOK, RdKafkaOK, rdkafka
  <2>10. CASE \E on \in BOOLEAN : ServeThrottle(on)
    BY <2>10 DEF ServeThrottle, ControlInv, ConfigOK, TypeOK, ThreadsOK, RdKafkaOK,
       rdkafka
  <2>11. CASE HandleThrottle
    BY <2>11 DEF HandleThrottle, ControlInv, ConfigOK, TypeOK, ThreadsOK, RdKafkaOK,
       rdkafka
  <2>12. CASE ThrottlePausesOrResumes
    BY <2>12 DEF ThrottlePausesOrResumes, PauseAssigned, ResumeAssigned, ControlInv,
       ConfigOK, TypeOK, ThreadsOK, RdKafkaOK, rdkafka
  <2>13. CASE ReadEnds
    BY <2>13 DEF ReadEnds, ControlInv, ConfigOK, TypeOK, ThreadsOK, RdKafkaOK, rdkafka
  <2>14. CASE UNCHANGED <<config, subscription, event, pollTask>>
    BY <2>14 DEF ControlInv, ConfigOK, TypeOK, ThreadsOK, RdKafkaOK, rdkafka
  <2>15. QED
    BY <2>1, <2>2, <2>3, <2>4, <2>5, <2>6, <2>7, <2>8, <2>9, <2>10, <2>11, <2>12, <2>13,
       <2>14
<1>2. QED
  BY <1>1, ConfigKept, FlagsKept, ThreadsKept, RdKafkaKept, ProgressKept
     DEF ControlInv, TypeOK

\* pause() is undone by resume(), a rebalance or a thread past its look at _isPaused,
\* and by nothing else.
LEMMA PauseInvKept ==
  ASSUME ControlInv, PauseInv, [Next]_vars
  PROVE  PauseInv'
<1>1. \/ UNCHANGED <<isPaused, pauseUndone, pollThread, pollTask, app, halted,
                       throttles, throttled, begunPaused>>
      \/ Pause
      \/ PauseEnds
      \/ Resume
      \/ ResumeEnds
      \/ \E partitions \in BOOLEAN : Subscribe(partitions)
      \/ SubscribeEnds
      \/ UnsubscribeTopic
      \/ Unsubscribe
      \/ UnsubscribeEnds
      \/ PollBegins
      \/ ThrottleElapses
      \/ NothingToReduce
      \/ AdjustResumes
      \/ PollEnds
      \/ ServeAssignment
      \/ ServeRevocation
      \/ \E on \in BOOLEAN : ServeThrottle(on)
      \/ HandleThrottle
      \/ ThrottlePausesOrResumes
      \/ ReadEnds
  BY DEF Next, AppEnds, PollThreadStep, PollTaskStep, vars, flags, rdkafka, counters,
         progress, CoordinatorAssigns, CoordinatorRevokes
<1>2. CASE Pause
  BY <1>2 DEF Pause, PauseAssigned, ControlInv, TypeOK, FlagsOK, ThreadsOK, RdKafkaOK,
     ProgressOK, PauseInv, PastPausedCheck, flags, rdkafka, counters, progress
<1>3. CASE PauseEnds
  BY <1>3 DEF PauseEnds, PastPausedCheck, ControlInv, TypeOK, FlagsOK, ThreadsOK,
     RdKafkaOK, ProgressOK, PauseInv, PastPausedCheck, flags, rdkafka, counters,
     progress
<1>4. CASE Resume
  BY <1>4 DEF Resume, ResumeAssigned, ControlInv, TypeOK, FlagsOK, ThreadsOK, RdKafkaOK,
     ProgressOK, PauseInv, PastPausedCheck, flags, rdkafka, counters, progress
<1>5. CASE ResumeEnds
  BY <1>5 DEF ResumeEnds, ControlInv, TypeOK, FlagsOK, ThreadsOK, RdKafkaOK, ProgressOK,
     PauseInv, PastPausedCheck, flags, rdkafka, counters, progress
<1>6. CASE \E partitions \in BOOLEAN : Subscribe(partitions)
  BY <1>6 DEF Subscribe, ControlInv, TypeOK, FlagsOK, ThreadsOK, RdKafkaOK, ProgressOK,
     PauseInv, PastPausedCheck, flags, rdkafka, counters, progress
<1>7. CASE SubscribeEnds
  BY <1>7 DEF SubscribeEnds, ControlInv, TypeOK, FlagsOK, ThreadsOK, RdKafkaOK,
     ProgressOK, PauseInv, PastPausedCheck, flags, rdkafka, counters, progress
<1>8. CASE UnsubscribeTopic
  BY <1>8 DEF UnsubscribeTopic, LeaveGroup, ControlInv, TypeOK, FlagsOK, ThreadsOK,
     RdKafkaOK, ProgressOK, PauseInv, PastPausedCheck, flags, rdkafka, counters,
     progress
<1>9. CASE Unsubscribe
  BY <1>9 DEF Unsubscribe, LeaveGroup, ControlInv, TypeOK, FlagsOK, ThreadsOK,
     RdKafkaOK, ProgressOK, PauseInv, PastPausedCheck, flags, rdkafka, counters,
     progress
<1>10. CASE UnsubscribeEnds
  BY <1>10 DEF UnsubscribeEnds, ControlInv, TypeOK, FlagsOK, ThreadsOK, RdKafkaOK,
     ProgressOK, PauseInv, PastPausedCheck, flags, rdkafka, counters, progress
<1>11. CASE PollBegins
  BY <1>11 DEF PollBegins, ControlInv, TypeOK, FlagsOK, ThreadsOK, RdKafkaOK,
     ProgressOK, PauseInv, PastPausedCheck, flags, rdkafka, counters, progress
<1>12. CASE ThrottleElapses
  BY <1>12 DEF ThrottleElapses, ControlInv, TypeOK, FlagsOK, ThreadsOK, RdKafkaOK,
     ProgressOK, PauseInv, PastPausedCheck, flags, rdkafka, counters, progress
<1>13. CASE NothingToReduce
  BY <1>13 DEF NothingToReduce, ControlInv, TypeOK, FlagsOK, ThreadsOK, RdKafkaOK,
     ProgressOK, PauseInv, PastPausedCheck, flags, rdkafka, counters, progress
<1>14. CASE AdjustResumes
  BY <1>14 DEF AdjustResumes, ResumeAssigned, ControlInv, TypeOK, FlagsOK, ThreadsOK,
     RdKafkaOK, ProgressOK, PauseInv, PastPausedCheck, flags, rdkafka, counters,
     progress
<1>15. CASE PollEnds
  BY <1>15 DEF PollEnds, ControlInv, TypeOK, FlagsOK, ThreadsOK, RdKafkaOK, ProgressOK,
     PauseInv, PastPausedCheck, flags, rdkafka, counters, progress
<1>16. CASE ServeAssignment
  BY <1>16 DEF ServeAssignment, UseConfiguredOffsets, ControlInv, TypeOK, FlagsOK,
     ThreadsOK, RdKafkaOK, ProgressOK, PauseInv, PastPausedCheck, flags, rdkafka,
     counters, progress
<1>17. CASE ServeRevocation
  BY <1>17 DEF ServeRevocation, ControlInv, TypeOK, FlagsOK, ThreadsOK, RdKafkaOK,
     ProgressOK, PauseInv, PastPausedCheck, flags, rdkafka, counters, progress
<1>18. CASE \E on \in BOOLEAN : ServeThrottle(on)
  BY <1>18 DEF ServeThrottle, ControlInv, TypeOK, FlagsOK, ThreadsOK, RdKafkaOK,
     ProgressOK, PauseInv, PastPausedCheck, flags, rdkafka, counters, progress
<1>19. CASE HandleThrottle
  BY <1>19 DEF HandleThrottle, ControlInv, TypeOK, FlagsOK, ThreadsOK, RdKafkaOK,
     ProgressOK, PauseInv, PastPausedCheck, flags, rdkafka, counters, progress
<1>20. CASE ThrottlePausesOrResumes
  BY <1>20 DEF ThrottlePausesOrResumes, PauseAssigned, ResumeAssigned, ControlInv,
     TypeOK, FlagsOK, ThreadsOK, RdKafkaOK, ProgressOK, PauseInv, PastPausedCheck,
     flags, rdkafka, counters, progress
<1>21. CASE ReadEnds
  BY <1>21 DEF ReadEnds, ControlInv, TypeOK, FlagsOK, ThreadsOK, RdKafkaOK, ProgressOK,
     PauseInv, PastPausedCheck, flags, rdkafka, counters, progress
<1>22. CASE UNCHANGED <<isPaused, pauseUndone, pollThread, pollTask, app, halted,
                       throttles, throttled, begunPaused>>
  BY <1>22 DEF ControlInv, TypeOK, FlagsOK, ThreadsOK, RdKafkaOK, ProgressOK, PauseInv,
     PastPausedCheck, flags, rdkafka, counters, progress
<1>23. QED
  BY <1>1, <1>2, <1>3, <1>4, <1>5, <1>6, <1>7, <1>8, <1>9, <1>10, <1>11, <1>12, <1>13,
     <1>14, <1>15, <1>16, <1>17, <1>18, <1>19, <1>20, <1>21, <1>22

\* subscribe() raises the flag once and an assignment that uses the offsets clears it.
LEMMA OffsetsInvKept ==
  ASSUME ControlInv, OffsetsInv, [Next]_vars
  PROVE  OffsetsInv'
<1>1. \/ UNCHANGED <<config, offsets, applied, setOffsetsOnStart, subscribes, assigned>>
      \/ \E partitions \in BOOLEAN : Subscribe(partitions)
      \/ SubscribeEnds
      \/ UnsubscribeTopic
      \/ Unsubscribe
      \/ ServeAssignment
      \/ ServeRevocation
  BY DEF Next, AppEnds, PollThreadStep, PollTaskStep, vars, flags, rdkafka, counters,
         progress, Pause, PauseEnds, Resume, ResumeEnds, UnsubscribeEnds, PollBegins,
         ThrottleElapses, NothingToReduce, AdjustResumes, PollEnds, HandleThrottle,
         ThrottlePausesOrResumes, ReadEnds, CoordinatorAssigns, CoordinatorRevokes,
         ServeThrottle, PastPausedCheck, PauseAssigned, ResumeAssigned
<1>2. CASE \E partitions \in BOOLEAN : Subscribe(partitions)
  BY <1>2 DEF Subscribe, ControlInv, ConfigOK, TypeOK, FlagsOK, RdKafkaOK, ProgressOK,
     OffsetsInv, flags, rdkafka, counters, progress
<1>3. CASE SubscribeEnds
  BY <1>3 DEF SubscribeEnds, ControlInv, ConfigOK, TypeOK, FlagsOK, RdKafkaOK,
     ProgressOK, OffsetsInv, flags, rdkafka, counters, progress
<1>4. CASE UnsubscribeTopic
  BY <1>4 DEF UnsubscribeTopic, LeaveGroup, ControlInv, ConfigOK, TypeOK, FlagsOK,
     RdKafkaOK, ProgressOK, OffsetsInv, flags, rdkafka, counters, progress
<1>5. CASE Unsubscribe
  BY <1>5 DEF Unsubscribe, LeaveGroup, ControlInv, ConfigOK, TypeOK, FlagsOK, RdKafkaOK,
     ProgressOK, OffsetsInv, flags, rdkafka, counters, progress
<1>6. CASE ServeAssignment
  BY <1>6 DEF ServeAssignment, UseConfiguredOffsets, ControlInv, ConfigOK, TypeOK,
     FlagsOK, RdKafkaOK, ProgressOK, OffsetsInv, flags, rdkafka, counters, progress
<1>7. CASE ServeRevocation
  BY <1>7 DEF ServeRevocation, ControlInv, ConfigOK, TypeOK, FlagsOK, RdKafkaOK,
     ProgressOK, OffsetsInv, flags, rdkafka, counters, progress
<1>8. CASE UNCHANGED <<config, offsets, applied, setOffsetsOnStart, subscribes, assigned>>
  BY <1>8 DEF ControlInv, ConfigOK, TypeOK, FlagsOK, RdKafkaOK, ProgressOK, OffsetsInv,
     flags, rdkafka, counters, progress
<1>9. QED
  BY <1>1, <1>2, <1>3, <1>4, <1>5, <1>6, <1>7, <1>8

-------------------------------------------------------------------------------
(* The theorems                                                            *)

LEMMA InductiveInvariant == Spec => [](ControlInv /\ PauseInv /\ OffsetsInv)
<1>1. Init => ControlInv /\ PauseInv /\ OffsetsInv
  BY InitInv
<1>2. ControlInv /\ PauseInv /\ OffsetsInv /\ [Next]_vars
        => (ControlInv /\ PauseInv /\ OffsetsInv)'
  BY ControlInvKept, PauseInvKept, OffsetsInvKept
<1>3. QED
  BY <1>1, <1>2, PTL DEF Spec

\* The flags, threads and rdkafka's state keep their types, and the ties between them:
\* a rebalance waits only where it applies, and only a consumer with auto-throttling is throttled.
THEOREM ControlTypeCorrect == Spec => []TypeOK
<1>1. ControlInv => TypeOK
  BY DEF ControlInv
<1>2. QED
  BY <1>1, InductiveInvariant, PTL

\* However adjustThrottling(), the callbacks and the application interleave, a pause() that
\* no thread had already looked past holds, and so does pause.on.start.
THEOREM PausesHold == Spec => []PauseHolds
<1>1. PauseInv => PauseHolds
  BY DEF PauseInv, PauseHolds
<1>2. QED
  BY <1>1, InductiveInvariant, PTL

\* assignmentCallback() uses the configured offsets at most once per subscription, and
\* a dynamic consumer never has partitions without having used them.
THEOREM ConfiguredOffsetsUsedOnce == Spec => []ConfiguredOffsetsOnce
<1>1. ControlInv /\ OffsetsInv => ConfiguredOffsetsOnce
  BY DEF ControlInv, TypeOK, FlagsOK, ProgressOK, OffsetsInv, ConfiguredOffsetsOnce
<1>2. QED
  BY <1>1, InductiveInvariant, PTL

===============================================================================
