---------------------------- MODULE OffsetManager -----------------------------
(***************************************************************************)
(* utils/corokafka_offset_manager.{h,cpp}: worker threads (or coroutines)  *)
(* finish messages in any order and save their offsets; the manager keeps, *)
(* per partition, the offsets saved ahead of `_currentOffset` and commits  *)
(* a range as soon as it reaches `_currentOffset`.                         *)
(*                                                                         *)
(* A call of the manager is split where other threads can run: the lock of *)
(* OffsetsRanges covers insertOffset() only; the unlocked reads of         *)
(* `_currentOffset` and the commit are steps of their own.                 *)
(*                                                                         *)
(* `_offsets` is the set of points of its IntervalSet: IntervalSetProofs   *)
(* proves that IntervalSet implements PointSet, whose runs are its ranges. *)
(***************************************************************************)
EXTENDS Runs, FiniteSets

CONSTANTS
  Partitions,     \* topic/partition pairs of the subscribed topics
  Managed,        \* those known when the manager was constructed
  Group,          \* the consumer group a partition's topic is read by
  Low,            \* low watermarks: where a log begins
  Messages,       \* the offsets that hold a message (compaction leaves holes)
  Threads,        \* threads and coroutines that process messages
  CallersOffsets, \* what a caller of forceCommit(partition) names as offset
  MaxForced,      \* bound: calls of the force...() operations
  MaxDisruptions, \* bound: rebalances and process restarts
  CommitMayFail   \* whether a commit may be answered with an error

NoOffset    == -1
NoPartition == "none"
NoArg       == [partition |-> NoPartition, offset |-> NoOffset]

ASSUME OffsetManagerAssumption ==
  /\ Managed \subseteq Partitions
  /\ Low \in [Partitions -> Nat]
  /\ Messages \in [Partitions -> SUBSET Nat]
  /\ CallersOffsets \subseteq Nat \union {NoOffset}
  /\ MaxForced \in Nat
  /\ MaxDisruptions \in Nat
  /\ CommitMayFail \in BOOLEAN

VARIABLES
  position,    \* next offset the consumer will deliver, per partition
  offsets,     \* OffsetsRanges::_offsets
  current,     \* OffsetsRanges::_currentOffset
  committed,   \* the offset the broker holds for the partition's group
  pc,          \* where in its call a thread is
  arg,         \* the offset a thread is about to insert
  todo,        \* partitions a loop over _topicMap has still to visit
  batch,       \* the offsets a thread is about to commit
  head,        \* the first partition of `batch`: its consumer commits
  saved,       \* history: offsets whose message was finished
  skipped,     \* history: offsets a forced commit went past
  forced,      \* calls of force...() so far
  disruptions  \* rebalances and restarts so far

manager == <<offsets, current>>
calls   == <<pc, arg, todo, batch, head>>
history == <<saved, skipped>>
bounds  == <<forced, disruptions>>
vars    == <<position, committed, manager, calls, history, bounds>>

\* The offsets below `o` that a consumer of p may have been delivered, and
\* those of them whose message is not finished.
Below(p, o)    == Low[p] .. o - 1
PassedBy(p, o) == Below(p, o) \ saved[p]

-------------------------------------------------------------------------------
(* insertOffset(), under the partition's lock.                             *)

\* The points held once `offset` is inserted.
Inserted(p, offset) == offsets[p] \union {offset}

\* Faulty variant of Claims: a changed range is committed wherever it begins.
ClaimsAnywhere(p, offset) == offset \notin offsets[p]

\* Faulty variant of Claims: a range that merged with another one does not
\* count as changed.
ClaimsUnmerged(p, offset) ==
  /\ offset \notin offsets[p]
  /\ offset = current[p]
  /\ offset + 1 \notin offsets[p]

\* The insertion changed the set and its range begins at _currentOffset.
Claims(p, offset) ==
  /\ offset \notin offsets[p]
  /\ RunFirst(Inserted(p, offset), offset) = current[p]

\* Faulty variant of RangeEnd: what waited behind the offset is overlooked.
RangeEndAtOffset(p, offset) == offset

RangeEnd(p, offset) == RunLast(Inserted(p, offset), offset)

\* Faulty variant of InsertOffset: a claimed range is not erased.
InsertOffsetKeepRange(p, offset) ==
  /\ offsets' = [offsets EXCEPT ![p] = Inserted(p, offset)]
  /\ current' = IF Claims(p, offset) THEN [current EXCEPT ![p] = RangeEnd(p, offset) + 1]
                                     ELSE current

\* A claimed range leaves the map and moves _currentOffset behind itself.
InsertOffset(p, offset) ==
  IF Claims(p, offset)
  THEN /\ current' = [current EXCEPT ![p] = RangeEnd(p, offset) + 1]
       /\ offsets' = [offsets EXCEPT ![p] = @ \ Run(Inserted(p, offset), offset)]
  ELSE /\ offsets' = [offsets EXCEPT ![p] = Inserted(p, offset)]
       /\ UNCHANGED current

(* The locked scope of forceCommit(): the lowest range is taken out.       *)
LowestRange(p) == Run(offsets[p], Least(offsets[p]))
LowestEnd(p)   == RunLast(offsets[p], Least(offsets[p]))

TakeLowestRange(p) ==
  /\ current' = [current EXCEPT ![p] = LowestEnd(p) + 1]
  /\ offsets' = [offsets EXCEPT ![p] = @ \ LowestRange(p)]

\* Book-keeping: what a forced commit of p goes past to begin at `o`.
RecordPassed(p, o) == skipped' = [skipped EXCEPT ![p] = @ \union PassedBy(p, o)]

-------------------------------------------------------------------------------
(* The environment: the consumer that feeds the threads.                   *)

\* Where a consumer starts to read a partition: at the group's committed
\* offset, else (auto.offset.reset = earliest) where the log begins.
StartPosition(p) == IF committed[p] = NoOffset THEN Low[p] ELSE committed[p]

\* The next message of p is handed to a thread, which processes it and will
\* call saveOffset() with it.
Deliver(t, p) ==
  /\ pc[t] = "idle"
  /\ \E o \in Messages[p] :
       /\ position[p] <= o
       /\ \A n \in Messages[p] : position[p] <= n => o <= n
       /\ position' = [position EXCEPT ![p] = o + 1]
       /\ arg' = [arg EXCEPT ![t] = [partition |-> p, offset |-> o]]
  /\ pc' = [pc EXCEPT ![t] = "save"]
  /\ UNCHANGED <<manager, committed, todo, batch, head, history, bounds>>

\* The partition is revoked and assigned again while threads keep working:
\* messages behind the committed offset are delivered once more.
Rebalance(p) ==
  /\ disruptions < MaxDisruptions
  /\ disruptions' = disruptions + 1
  /\ position' = [position EXCEPT ![p] = StartPosition(p)]
  /\ UNCHANGED <<committed, manager, calls, history, forced>>

\* The process dies and starts again: the constructor sets both
\* _beginOffset and _currentOffset to the low watermark.
Restart ==
  /\ disruptions < MaxDisruptions
  /\ disruptions' = disruptions + 1
  /\ position' = [p \in Partitions |-> StartPosition(p)]
  /\ offsets' = [p \in Partitions |-> {}]
  /\ current' = Low
  /\ pc' = [t \in Threads |-> "idle"]
  /\ arg' = [t \in Threads |-> NoArg]
  /\ todo' = [t \in Threads |-> {}]
  /\ batch' = [t \in Threads |-> {}]
  /\ head' = [t \in Threads |-> NoPartition]
  /\ UNCHANGED <<committed, history, forced>>

-------------------------------------------------------------------------------
(* The calls of the manager.                                               *)

\* Book-keeping of insertOffset()'s argument: a finished message, or an
\* offset that only a forced commit names.
Record(t, p, offset) ==
  IF pc[t] = "save"
  THEN /\ saved' = [saved EXCEPT ![p] = @ \union {offset}]
       /\ UNCHANGED skipped
  ELSE /\ skipped' = [skipped EXCEPT ![p] = @ \union {offset}]
       /\ UNCHANGED saved

\* saveOffset(): a claimed range is committed - by way of the offset that
\* was saved, not of the end of the range.
Save(t) ==
  LET p == arg[t].partition
      o == arg[t].offset
  IN  /\ pc[t] \in {"save", "saveCurrent"}
      /\ p \in Managed
      /\ InsertOffset(p, o)
      /\ Record(t, p, o)
      /\ IF Claims(p, o)
         THEN /\ pc' = [pc EXCEPT ![t] = "commit"]
              /\ batch' = [batch EXCEPT ![t] = {[partition |-> p, offset |-> o]}]
              /\ head' = [head EXCEPT ![t] = p]
         ELSE /\ pc' = [pc EXCEPT ![t] = "idle"]
              /\ UNCHANGED <<batch, head>>
      /\ arg' = [arg EXCEPT ![t] = NoArg]
      /\ UNCHANGED <<position, committed, todo, bounds>>

\* saveOffset() of a partition the constructor did not see: UNKNOWN_PARTITION.
SaveUnknown(t) ==
  LET p == arg[t].partition
  IN  /\ pc[t] = "save"
      /\ p \notin Managed
      /\ Record(t, p, arg[t].offset)
      /\ pc' = [pc EXCEPT ![t] = "idle"]
      /\ arg' = [arg EXCEPT ![t] = NoArg]
      /\ UNCHANGED <<position, committed, manager, todo, batch, head, bounds>>

BeginForced(t) ==
  /\ pc[t] = "idle"
  /\ forced < MaxForced
  /\ forced' = forced + 1
  /\ UNCHANGED disruptions

\* forceCommit(partition): the lowest range is taken, but the commit names the
\* caller's TopicPartition, with whatever offset it carries; rdkafka ignores a
\* negative one. What either goes past is recorded here, where it is decided.
ForceCommit(t, p) ==
  /\ BeginForced(t)
  /\ p \in Managed
  /\ offsets[p] # {}
  /\ TakeLowestRange(p)
  /\ \E callersOffset \in CallersOffsets :
       /\ batch' = [batch EXCEPT ![t] = {[partition |-> p, offset |-> callersOffset]}]
       /\ RecordPassed(p, IF Least(offsets[p]) < callersOffset THEN callersOffset
                                                               ELSE Least(offsets[p]))
  /\ head' = [head EXCEPT ![t] = p]
  /\ pc' = [pc EXCEPT ![t] = "commit"]
  /\ UNCHANGED <<position, committed, arg, todo, saved>>

\* forceCommit(): start of the loop over all partitions.
ForceCommitAll(t) ==
  /\ BeginForced(t)
  /\ pc' = [pc EXCEPT ![t] = "forceAll"]
  /\ todo' = [todo EXCEPT ![t] = Managed]
  /\ batch' = [batch EXCEPT ![t] = {}]
  /\ UNCHANGED <<position, committed, manager, arg, head, history>>

\* One partition's turn is over: its range, if any, joins the list; after the
\* last partition a non-empty list is committed.
AppendToBatch(t, p, entries, loop) ==
  /\ batch' = [batch EXCEPT ![t] = @ \union entries]
  /\ head' = [head EXCEPT ![t] = IF batch[t] = {} /\ entries # {} THEN p ELSE @]
  /\ pc' = [pc EXCEPT ![t] = IF todo'[t] # {} THEN loop
                             ELSE IF batch'[t] # {} THEN "commit" ELSE "idle"]

ForceCommitNext(t, p) ==
  /\ pc[t] = "forceAll"
  /\ p \in todo[t]
  /\ todo' = [todo EXCEPT ![t] = @ \ {p}]
  /\ \/ /\ offsets[p] = {}
        /\ AppendToBatch(t, p, {}, "forceAll")
        /\ UNCHANGED <<manager, history>>
     \/ /\ offsets[p] # {}
        /\ TakeLowestRange(p)
        /\ RecordPassed(p, Least(offsets[p]))
        /\ AppendToBatch(t, p, {[partition |-> p, offset |-> LowestEnd(p)]}, "forceAll")
        /\ UNCHANGED saved
  /\ UNCHANGED <<position, committed, arg, bounds>>

\* forceCommitCurrentOffset(partition): saveOffset() of an offset that was
\* read without the lock.
ForceCommitCurrent(t, p) ==
  /\ BeginForced(t)
  /\ p \in Managed
  /\ arg' = [arg EXCEPT ![t] = [partition |-> p, offset |-> current[p]]]
  /\ pc' = [pc EXCEPT ![t] = "saveCurrent"]
  /\ UNCHANGED <<position, committed, manager, todo, batch, head, history>>

\* forceCommitCurrentOffset(): start of the loop, the unlocked read of one
\* partition's _currentOffset, and its insertion under the lock.
ForceCommitAllCurrent(t) ==
  /\ BeginForced(t)
  /\ pc' = [pc EXCEPT ![t] = "readCurrent"]
  /\ todo' = [todo EXCEPT ![t] = Managed]
  /\ batch' = [batch EXCEPT ![t] = {}]
  /\ UNCHANGED <<position, committed, manager, arg, head, history>>

ReadCurrent(t, p) ==
  /\ pc[t] = "readCurrent"
  /\ p \in todo[t]
  /\ arg' = [arg EXCEPT ![t] = [partition |-> p, offset |-> current[p]]]
  /\ todo' = [todo EXCEPT ![t] = @ \ {p}]
  /\ pc' = [pc EXCEPT ![t] = "insertCurrent"]
  /\ UNCHANGED <<position, committed, manager, batch, head, history, bounds>>

InsertCurrent(t) ==
  LET p == arg[t].partition
      o == arg[t].offset
  IN  /\ pc[t] = "insertCurrent"
      /\ InsertOffset(p, o)
      /\ Record(t, p, o)
      /\ UNCHANGED todo
      /\ AppendToBatch(t, p,
           IF Claims(p, o) THEN {[partition |-> p, offset |-> RangeEnd(p, o)]} ELSE {},
           "readCurrent")
      /\ arg' = [arg EXCEPT ![t] = NoArg]
      /\ UNCHANGED <<position, committed, bounds>>

\* ConsumerManager::commit(): the consumer of the list's first topic commits
\* (or stores) all of the list, in its own group; an entry without an offset
\* is ignored.
Commit(t) ==
  LET Sent(p) == {e \in batch[t] : /\ e.partition = p
                                   /\ e.offset # NoOffset
                                   /\ Group[p] = Group[head[t]]}
  IN  /\ pc[t] = "commit"
      /\ committed' = [p \in Partitions |->
                         IF Sent(p) = {} THEN committed[p]
                         ELSE (CHOOSE e \in Sent(p) : TRUE).offset]
      /\ pc' = [pc EXCEPT ![t] = "idle"]
      /\ batch' = [batch EXCEPT ![t] = {}]
      /\ head' = [head EXCEPT ![t] = NoPartition]
      /\ UNCHANGED <<position, manager, arg, todo, history, bounds>>

\* The commit is answered with an error, which the manager passes on.
CommitFails(t) ==
  /\ CommitMayFail
  /\ pc[t] = "commit"
  /\ pc' = [pc EXCEPT ![t] = "idle"]
  /\ batch' = [batch EXCEPT ![t] = {}]
  /\ head' = [head EXCEPT ![t] = NoPartition]
  /\ UNCHANGED <<position, committed, manager, arg, todo, history, bounds>>

-------------------------------------------------------------------------------
\* The constructor. No commit was made before in Init; Restart covers a group
\* that has committed.
Init ==
  /\ position = Low
  /\ offsets = [p \in Partitions |-> {}]
  /\ current = Low
  /\ committed = [p \in Partitions |-> NoOffset]
  /\ pc = [t \in Threads |-> "idle"]
  /\ arg = [t \in Threads |-> NoArg]
  /\ todo = [t \in Threads |-> {}]
  /\ batch = [t \in Threads |-> {}]
  /\ head = [t \in Threads |-> NoPartition]
  /\ saved = [p \in Partitions |-> {}]
  /\ skipped = [p \in Partitions |-> {}]
  /\ forced = 0
  /\ disruptions = 0

ThreadStep(t) ==
  \/ Save(t)
  \/ SaveUnknown(t)
  \/ InsertCurrent(t)
  \/ Commit(t)
  \/ CommitFails(t)
  \/ ForceCommitAll(t)
  \/ ForceCommitAllCurrent(t)
  \/ \E p \in Partitions :
       \/ Deliver(t, p)
       \/ ForceCommit(t, p)
       \/ ForceCommitNext(t, p)
       \/ ForceCommitCurrent(t, p)
       \/ ReadCurrent(t, p)

Next ==
  \/ \E t \in Threads : ThreadStep(t)
  \/ \E p \in Partitions : Rebalance(p)
  \/ Restart

Spec == Init /\ [][Next]_vars

\* The poll loop keeps delivering, and a thread that is inside a call of the
\* manager goes on: its mutexes are held for a bounded time and every commit
\* is answered.
Fairness ==
  /\ \A p \in Partitions : WF_vars(\E t \in Threads : Deliver(t, p))
  /\ \A t \in Threads : /\ WF_vars(Save(t))
                        /\ WF_vars(SaveUnknown(t))
                        /\ WF_vars(Commit(t) \/ CommitFails(t))

FairSpec == Spec /\ Fairness

-------------------------------------------------------------------------------
(* Properties.                                                             *)

\* Type invariant. The runs of a finite set of offsets are well defined.
ManagerTypeOK ==
  /\ offsets \in [Partitions -> SUBSET Nat]
  /\ \A p \in Partitions : IsFiniteSet(offsets[p])
  /\ current \in [Partitions -> Nat]

CallsTypeOK ==
  /\ pc \in [Threads -> {"idle", "save", "saveCurrent", "forceAll",
                         "readCurrent", "insertCurrent", "commit"}]
  /\ arg \in [Threads -> [partition : Partitions, offset : Nat] \union {NoArg}]
  /\ \A t \in Threads : pc[t] \in {"save", "saveCurrent", "insertCurrent"} => arg[t] # NoArg
  /\ todo \in [Threads -> SUBSET Managed]
  /\ batch \in [Threads -> SUBSET [partition : Partitions, offset : Nat \union {NoOffset}]]
  /\ head \in [Threads -> Partitions \union {NoPartition}]

HistoryTypeOK ==
  /\ saved \in [Partitions -> SUBSET Nat]
  /\ skipped \in [Partitions -> SUBSET Nat]

TypeOK ==
  /\ ManagerTypeOK
  /\ CallsTypeOK
  /\ HistoryTypeOK
  /\ position \in [Partitions -> Nat]
  /\ committed \in [Partitions -> Nat \union {NoOffset}]
  /\ forced \in Nat
  /\ disruptions \in Nat

\* At least once: a consumer that starts again at the committed offset is
\* past no unfinished message, except those that a forced commit, or the offset
\* its caller named, went past when it was called - whatever the order in which
\* threads save, commit, fail, are rebalanced or restarted.
SafeUpTo(p, o) == Below(p, o) \subseteq saved[p] \union skipped[p]

NoMessageLost == \A p \in Partitions : SafeUpTo(p, committed[p])

\* What makes it inductive: the same holds of every offset on its way to the
\* broker, of _currentOffset, and of each offset that waits in _offsets.
CommitInv ==
  /\ \A p \in Partitions : offsets[p] \subseteq saved[p] \union skipped[p]
  /\ \A p \in Partitions : SafeUpTo(p, current[p])
  /\ \A t \in Threads : \A e \in batch[t] : SafeUpTo(e.partition, e.offset)
  /\ NoMessageLost

\* No range that begins at _currentOffset is left waiting: whoever closes the
\* gap in front of a range - a save, a forced commit of what it read before, a
\* message delivered again - claims it, also when ranges below _currentOffset
\* wait there after a forced commit.
NoRangeLeftBehind ==
  \A p \in Partitions : \A o \in offsets[p] : RunFirst(offsets[p], o) # current[p]

\* What makes it inductive, offset by offset.
CurrentNotFirst ==
  \A p \in Partitions : current[p] \in offsets[p] => current[p] - 1 \in offsets[p]

\* Without forced commits, rebalances and restarts, _currentOffset is exactly
\* the first offset that is not saved, and what is saved ahead of it waits in
\* _offsets: no insertion order, merge or race between threads loses one.
CurrentIsFirstUnsaved ==
  \A p \in Managed :
    /\ Below(p, current[p]) \subseteq saved[p]
    /\ current[p] \notin saved[p]
    /\ offsets[p] = saved[p] \ Below(p, current[p])

\* What makes it inductive: the consumer is past every message in hand or
\* saved, no message is in two hands, and none in hand is saved already.
DeliveredOnce ==
  /\ \A p \in Partitions : Low[p] <= position[p] /\ saved[p] \subseteq Low[p] .. position[p] - 1
  /\ \A t \in Threads : pc[t] = "save" =>
       LET p == arg[t].partition
           o == arg[t].offset
       IN  /\ o \in Low[p] .. position[p] - 1
           /\ o \notin saved[p]
           /\ \A u \in Threads \ {t} : pc[u] = "save" => arg[u] # arg[t]

OnlySaves ==
  /\ forced = 0
  /\ disruptions = 0
  /\ \A t \in Threads : pc[t] \in {"idle", "save", "commit"}

\* Every message of a log without holes is in the end behind _currentOffset:
\* the hand-over between threads that save around a gap never strands a range.
EveryMessageIsClaimed ==
  \A p \in Managed : \A o \in Messages[p] : <>(current[p] > o)

\* The manager implements the ledger of its managed partitions.
Ledger == INSTANCE OffsetLedger WITH
  Partitions <- Managed,
  Low        <- [p \in Managed |-> Low[p]],
  saved      <- [p \in Managed |-> saved[p]],
  current    <- [p \in Managed |-> current[p]],
  committed  <- [p \in Managed |-> committed[p]]

ImplementsLedger == Ledger!Spec

\* README.md:46: the manager prevents "higher offsets from being committed
\* before lower ones on the same partition".
CommitsInOrder ==
  [][\A p \in Partitions : committed'[p] >= committed[p]]_committed
===============================================================================
