------------------------- MODULE OffsetManagerProofs --------------------------
(***************************************************************************)
(* Proofs about OffsetManager: its type invariant, NoMessageLost and       *)
(* NoRangeLeftBehind for every mix of calls, failures, rebalances and      *)
(* restarts, and, where commits are never forced and no message is         *)
(* delivered twice, CurrentIsFirstUnsaved and that OffsetManager           *)
(* implements OffsetLedger.                                                *)
(***************************************************************************)
EXTENDS OffsetManager, FiniteSetTheorems, TLAPS

-------------------------------------------------------------------------------
(* Least elements and runs of sets of naturals.                            *)

\* A finite set of naturals that holds 0 is left somewhere on the way up: else
\* n |-> n + 1 would map it into itself without its 0.
LEMMA StepOut ==
  ASSUME NEW S \in SUBSET Nat, IsFiniteSet(S), 0 \in S
  PROVE  \E n \in S : n + 1 \notin S
<1>1. SUFFICES ASSUME \A n \in S : n + 1 \in S PROVE FALSE
  OBVIOUS
<1> DEFINE up == [n \in S |-> n + 1]
<1>2. up \in [S -> S \ {0}]
  BY <1>1
<1>3. IsFiniteSet(S \ {0}) /\ Cardinality(S \ {0}) < Cardinality(S)
  <2>1. IsFiniteSet(S \ {0}) /\ Cardinality(S \ {0}) = Cardinality(S) - 1
    BY FS_RemoveElement
  <2>2. Cardinality(S) \in Nat
    BY FS_CardinalityType
  <2>3. QED
    BY <2>1, <2>2
<1>4. \E x, y \in S : x # y /\ up[x] = up[y]
  <2> HIDE DEF up
  <2> QED BY <1>2, <1>3, FS_PigeonHole
<1>5. QED
  BY <1>4

\* Every non-empty set of naturals has a least element: the last number that
\* none of its elements is below.
LEMMA LeastElement ==
  ASSUME NEW S \in SUBSET Nat, S # {}
  PROVE  /\ Least(S) \in S
         /\ \A n \in S : Least(S) <= n
<1> DEFINE Lower == {m \in Nat : \A n \in S : m <= n}
<1>1. PICK top \in S : TRUE
  OBVIOUS
<1>2. Lower \in SUBSET Nat /\ 0 \in Lower /\ Lower \subseteq 0 .. top
  OBVIOUS
<1>3. IsFiniteSet(Lower)
  <2>1. IsFiniteSet(0 .. top)
    BY <1>1, FS_Interval
  <2> HIDE DEF Lower
  <2>2. QED
    BY <1>2, <2>1, FS_Subset
<1>4. PICK m \in Lower : m + 1 \notin Lower
  <2> HIDE DEF Lower
  <2> QED BY <1>2, <1>3, StepOut
<1>5. m \in S /\ \A n \in S : m <= n
  BY <1>4
<1>6. QED
  BY <1>5 DEF Least

\* A finite set of naturals does not hold every number from x on.
LEMMA FirstMissingAbove ==
  ASSUME NEW S \in SUBSET Nat, IsFiniteSet(S), NEW x \in Nat
  PROVE  \E m \in Nat : /\ x <= m
                        /\ m \notin S
                        /\ \A n \in x .. m - 1 : n \in S
<1> DEFINE Missing == {m \in Nat : x <= m /\ m \notin S}
<1>1. Missing # {}
  <2>1. SUFFICES ASSUME Missing = {} PROVE FALSE
    OBVIOUS
  <2>2. PICK c \in Nat : c = Cardinality(S)
    BY FS_CardinalityType
  <2>3. x .. x + c \subseteq S
    BY <2>1, <2>2
  <2>4. Cardinality(x .. x + c) = c + 1
    BY <2>2, FS_Interval
  <2>5. Cardinality(x .. x + c) <= Cardinality(S)
    BY <2>3, FS_Subset
  <2>6. QED
    BY <2>2, <2>4, <2>5
<1>2. /\ Least(Missing) \in Missing
      /\ \A n \in Missing : Least(Missing) <= n
  BY <1>1, LeastElement
<1>3. \A n \in x .. Least(Missing) - 1 : n \in S
  BY <1>2
<1>4. QED
  BY <1>2, <1>3

\* The last element of a run of a finite set, wherever one looks from.
LEMMA RunLastFacts ==
  ASSUME NEW S \in SUBSET Nat, IsFiniteSet(S), NEW x \in S
  PROVE  /\ RunLast(S, x) \in S
         /\ x <= RunLast(S, x)
         /\ x .. RunLast(S, x) \subseteq S
         /\ RunLast(S, x) + 1 \notin S
<1>1. PICK m \in Nat : x <= m /\ m \notin S /\ \A n \in x .. m - 1 : n \in S
  BY FirstMissingAbove
<1>2. m # x
  BY <1>1
<1>3. /\ m - 1 \in S
      /\ x <= m - 1
      /\ x .. m - 1 \subseteq S
      /\ (m - 1) + 1 \notin S
  BY <1>1, <1>2
<1>4. QED
  BY <1>3 DEF RunLast

\* The first element of a run.
LEMMA RunFirstFacts ==
  ASSUME NEW S \in SUBSET Nat, NEW x \in S
  PROVE  /\ RunFirst(S, x) \in S
         /\ RunFirst(S, x) <= x
         /\ RunFirst(S, x) .. x \subseteq S
         /\ RunFirst(S, x) - 1 \notin S
<1> DEFINE Starts == {f \in S : f <= x /\ f .. x \subseteq S}
<1>1. x \in Starts
  OBVIOUS
<1>2. /\ Least(Starts) \in Starts
      /\ \A n \in Starts : Least(Starts) <= n
  BY <1>1, LeastElement
<1> DEFINE f == Least(Starts)
<1> HIDE DEF f
<1>3. f \in S /\ f <= x /\ f .. x \subseteq S
  BY <1>2 DEF f
<1>4. f - 1 \notin S
  <2>1. SUFFICES ASSUME f - 1 \in S PROVE FALSE
    OBVIOUS
  <2>2. f - 1 \in Starts
    BY <1>3, <2>1
  <2>3. f <= f - 1
    <3> HIDE DEF Starts
    <3> QED BY <1>2, <2>2 DEF f
  <2>4. QED
    BY <1>3, <2>3
<1>5. QED
  BY <1>3, <1>4 DEF RunFirst

\* A run holds its element and nothing outside the set.
LEMMA RunFacts ==
  ASSUME NEW S \in SUBSET Nat, IsFiniteSet(S), NEW x \in S
  PROVE  /\ x \in Run(S, x)
         /\ Run(S, x) \subseteq S
         /\ Run(S, x) = RunFirst(S, x) .. RunLast(S, x)
<1>1. /\ RunFirst(S, x) \in S
      /\ RunFirst(S, x) <= x
      /\ RunFirst(S, x) .. x \subseteq S
  BY RunFirstFacts
<1>2. /\ RunLast(S, x) \in S
      /\ x <= RunLast(S, x)
      /\ x .. RunLast(S, x) \subseteq S
  BY RunLastFacts
<1>3. QED
  BY <1>1, <1>2 DEF Run

-------------------------------------------------------------------------------
(* What the two locked scopes do to one partition.                         *)

\* insertOffset() looks at a finite set that holds the offset, and the range
\* it may claim ends at or behind the offset.
LEMMA InsertedFacts ==
  ASSUME ManagerTypeOK, NEW p \in Partitions, NEW o \in Nat
  PROVE  /\ Inserted(p, o) \in SUBSET Nat
         /\ IsFiniteSet(Inserted(p, o))
         /\ o \in Inserted(p, o)
         /\ RangeEnd(p, o) \in Inserted(p, o)
         /\ o <= RangeEnd(p, o)
         /\ o .. RangeEnd(p, o) \subseteq Inserted(p, o)
         /\ RangeEnd(p, o) + 1 \notin Inserted(p, o)
         /\ RunFirst(Inserted(p, o), o) \in Inserted(p, o)
         /\ RunFirst(Inserted(p, o), o) <= o
         /\ RunFirst(Inserted(p, o), o) .. o \subseteq Inserted(p, o)
         /\ Run(Inserted(p, o), o) = RunFirst(Inserted(p, o), o) .. RangeEnd(p, o)
<1>1. /\ Inserted(p, o) \in SUBSET Nat
      /\ IsFiniteSet(Inserted(p, o))
      /\ o \in Inserted(p, o)
  BY FS_AddElement DEF ManagerTypeOK, Inserted
<1>2. QED
  BY <1>1, RunLastFacts, RunFirstFacts DEF RangeEnd, Run

\* insertOffset() keeps the types of the two members it writes.
LEMMA InsertOffsetType ==
  ASSUME ManagerTypeOK, NEW p \in Partitions, NEW o \in Nat, InsertOffset(p, o)
  PROVE  ManagerTypeOK'
<1>1. /\ Inserted(p, o) \in SUBSET Nat
      /\ IsFiniteSet(Inserted(p, o))
      /\ RangeEnd(p, o) \in Nat
  BY InsertedFacts
<1>2. CASE Claims(p, o)
  <2>1. offsets[p] \ Run(Inserted(p, o), o) \in SUBSET Nat
    BY DEF ManagerTypeOK
  <2>2. IsFiniteSet(offsets[p] \ Run(Inserted(p, o), o))
    BY FS_Subset DEF ManagerTypeOK
  <2>3. \A q \in Partitions :
          offsets'[q] = IF q = p THEN offsets[p] \ Run(Inserted(p, o), o) ELSE offsets[q]
    BY <1>2 DEF ManagerTypeOK, InsertOffset
  <2>4. offsets' \in [Partitions -> SUBSET Nat]
    BY <1>2, <2>1 DEF ManagerTypeOK, InsertOffset
  <2>5. current' \in [Partitions -> Nat]
    BY <1>1, <1>2 DEF ManagerTypeOK, InsertOffset
  <2>6. \A q \in Partitions : IsFiniteSet(offsets'[q])
    BY <2>2, <2>3 DEF ManagerTypeOK
  <2>7. QED
    BY <2>4, <2>5, <2>6 DEF ManagerTypeOK
<1>3. CASE ~ Claims(p, o)
  BY <1>1, <1>3 DEF ManagerTypeOK, InsertOffset
<1>4. QED
  BY <1>2, <1>3

\* The lowest range of a non-empty partition starts at its least offset.
LEMMA LowestRangeFacts ==
  ASSUME ManagerTypeOK, NEW p \in Partitions, offsets[p] # {}
  PROVE  /\ Least(offsets[p]) \in offsets[p]
         /\ \A o \in offsets[p] : Least(offsets[p]) <= o
         /\ LowestEnd(p) \in offsets[p]
         /\ Least(offsets[p]) <= LowestEnd(p)
         /\ Least(offsets[p]) .. LowestEnd(p) \subseteq offsets[p]
<1>1. offsets[p] \in SUBSET Nat /\ IsFiniteSet(offsets[p])
  BY DEF ManagerTypeOK
<1>2. /\ Least(offsets[p]) \in offsets[p]
      /\ \A o \in offsets[p] : Least(offsets[p]) <= o
  BY <1>1, LeastElement
<1>3. QED
  BY <1>1, <1>2, RunLastFacts DEF LowestEnd

\* The locked scope of forceCommit() keeps the types of what it writes.
LEMMA TakeLowestRangeType ==
  ASSUME ManagerTypeOK, NEW p \in Partitions, offsets[p] # {}, TakeLowestRange(p)
  PROVE  ManagerTypeOK'
<1>1. LowestEnd(p) \in Nat
  BY LowestRangeFacts DEF ManagerTypeOK
<1>2. IsFiniteSet(offsets[p] \ LowestRange(p))
  BY FS_Subset DEF ManagerTypeOK
<1>3. QED
  BY <1>1, <1>2 DEF ManagerTypeOK, TakeLowestRange

\* What a forced commit goes past is recorded, and nothing is forgotten.
LEMMA RecordPassedFacts ==
  ASSUME HistoryTypeOK, NEW p \in Partitions, NEW o \in Int, RecordPassed(p, o), saved' = saved
  PROVE  /\ HistoryTypeOK'
         /\ \A q \in Partitions : saved[q] \union skipped[q] \subseteq saved'[q] \union skipped'[q]
         /\ Below(p, o) \subseteq saved'[p] \union skipped'[p]
<1>1. PassedBy(p, o) \in SUBSET Nat
  BY OffsetManagerAssumption DEF PassedBy, Below
<1>2. /\ skipped' \in [Partitions -> SUBSET Nat]
      /\ \A q \in Partitions : skipped[q] \subseteq skipped'[q]
      /\ PassedBy(p, o) \subseteq skipped'[p]
  BY <1>1 DEF HistoryTypeOK, RecordPassed
<1>3. QED
  BY <1>2 DEF HistoryTypeOK, PassedBy

\* forceCommit(partition) records what its range and its caller's offset go past.
LEMMA ForceCommitFacts ==
  ASSUME TypeOK, NEW t \in Threads, NEW p \in Partitions, ForceCommit(t, p)
  PROVE  \E o \in Nat \union {NoOffset}, furthest \in Nat :
           /\ o <= furthest
           /\ Least(offsets[p]) <= furthest
           /\ RecordPassed(p, furthest)
           /\ batch' = [batch EXCEPT ![t] = {[partition |-> p, offset |-> o]}]
<1>1. Least(offsets[p]) \in Nat
  BY LowestRangeFacts DEF TypeOK, ManagerTypeOK, ForceCommit
<1>2. PICK o \in CallersOffsets :
        /\ batch' = [batch EXCEPT ![t] = {[partition |-> p, offset |-> o]}]
        /\ RecordPassed(p, IF Least(offsets[p]) < o THEN o ELSE Least(offsets[p]))
  BY DEF ForceCommit
<1>3. o \in Nat \union {NoOffset}
  BY OffsetManagerAssumption
<1>4. PICK furthest \in Nat :
        /\ o <= furthest
        /\ Least(offsets[p]) <= furthest
        /\ RecordPassed(p, furthest)
  <2>1. CASE Least(offsets[p]) < o
    BY <1>1, <1>2, <1>3, <2>1 DEF NoOffset
  <2>2. CASE ~ (Least(offsets[p]) < o)
    BY <1>1, <1>2, <1>3, <2>2 DEF NoOffset
  <2>3. QED
    BY <2>1, <2>2
<1>5. QED
  BY <1>1, <1>2, <1>3, <1>4

-------------------------------------------------------------------------------
(* Type correctness.                                                       *)

\* What one turn of a loop over the partitions does to the calling thread.
LEMMA AppendToBatchType ==
  ASSUME CallsTypeOK, NEW t \in Threads, NEW p \in Partitions,
         NEW entries \in SUBSET [partition : Partitions, offset : Nat \union {NoOffset}],
         NEW loop \in {"forceAll", "readCurrent"},
         AppendToBatch(t, p, entries, loop)
  PROVE  /\ batch' \in [Threads -> SUBSET [partition : Partitions,
                                           offset : Nat \union {NoOffset}]]
         /\ head' \in [Threads -> Partitions \union {NoPartition}]
         /\ pc' \in [Threads -> {"idle", "save", "saveCurrent", "forceAll",
                                 "readCurrent", "insertCurrent", "commit"}]
         /\ pc'[t] \in {"forceAll", "readCurrent", "commit", "idle"}
         /\ \A u \in Threads : u # t => pc'[u] = pc[u]
BY DEF CallsTypeOK, AppendToBatch

\* A thread that is about to insert holds a partition and an offset.
LEMMA ArgType ==
  ASSUME CallsTypeOK, NEW t \in Threads,
         pc[t] \in {"save", "saveCurrent", "insertCurrent"}
  PROVE  /\ arg[t] \in [partition : Partitions, offset : Nat]
         /\ arg[t].partition \in Partitions
         /\ arg[t].offset \in Nat
BY DEF CallsTypeOK

LEMMA TypeInit == Init => TypeOK
<1> SUFFICES ASSUME Init PROVE TypeOK
  OBVIOUS
<1>1. ManagerTypeOK
  BY OffsetManagerAssumption, FS_EmptySet DEF Init, ManagerTypeOK
<1>2. CallsTypeOK
  BY DEF Init, CallsTypeOK, NoArg
<1>3. QED
  BY <1>1, <1>2, OffsetManagerAssumption DEF Init, TypeOK, HistoryTypeOK

LEMMA TypeStep == TypeOK /\ [Next]_vars => TypeOK'
<1> SUFFICES ASSUME TypeOK, [Next]_vars PROVE TypeOK'
  OBVIOUS
<1> USE DEF manager, calls, history, bounds
<1>0. ManagerTypeOK /\ CallsTypeOK /\ HistoryTypeOK
  BY DEF TypeOK
<1>1. ASSUME NEW t \in Threads, Save(t) PROVE TypeOK'
  <2>1. /\ arg[t].partition \in Partitions
        /\ arg[t].offset \in Nat
    BY <1>0, <1>1, ArgType DEF Save
  <2>2. ManagerTypeOK'
    BY <1>0, <1>1, <2>1, InsertOffsetType DEF Save
  <2>3. CallsTypeOK'
    BY <1>0, <1>1, <2>1 DEF Save, CallsTypeOK, NoArg
  <2>4. HistoryTypeOK'
    BY <1>0, <1>1, <2>1 DEF Save, Record, HistoryTypeOK
  <2>5. QED
    BY <1>1, <2>2, <2>3, <2>4 DEF Save, TypeOK
<1>2. ASSUME NEW t \in Threads, SaveUnknown(t) PROVE TypeOK'
  <2>1. /\ arg[t].partition \in Partitions
        /\ arg[t].offset \in Nat
    BY <1>0, <1>2, ArgType DEF SaveUnknown
  <2>2. ManagerTypeOK'
    BY <1>0, <1>2 DEF SaveUnknown, ManagerTypeOK
  <2>3. CallsTypeOK'
    BY <1>0, <1>2 DEF SaveUnknown, CallsTypeOK, NoArg
  <2>4. HistoryTypeOK'
    BY <1>0, <1>2, <2>1 DEF SaveUnknown, Record, HistoryTypeOK
  <2>5. QED
    BY <1>2, <2>2, <2>3, <2>4 DEF SaveUnknown, TypeOK
<1>3. ASSUME NEW t \in Threads, InsertCurrent(t) PROVE TypeOK'
  <2>1. /\ arg[t].partition \in Partitions
        /\ arg[t].offset \in Nat
    BY <1>0, <1>3, ArgType DEF InsertCurrent
  <2>2. ManagerTypeOK'
    BY <1>0, <1>3, <2>1, InsertOffsetType DEF InsertCurrent
  <2> DEFINE entries ==
        IF Claims(arg[t].partition, arg[t].offset)
        THEN {[partition |-> arg[t].partition,
               offset |-> RangeEnd(arg[t].partition, arg[t].offset)]}
        ELSE {}
  <2>3. entries \in SUBSET [partition : Partitions, offset : Nat \union {NoOffset}]
    <3>1. RangeEnd(arg[t].partition, arg[t].offset) \in Nat
      BY <1>0, <2>1, InsertedFacts
    <3>2. QED
      BY <2>1, <3>1
  <2>4. AppendToBatch(t, arg[t].partition, entries, "readCurrent")
    BY <1>3 DEF InsertCurrent
  <2> HIDE DEF entries
  <2>5. CallsTypeOK'
    <3>1. /\ batch' \in [Threads -> SUBSET [partition : Partitions,
                                            offset : Nat \union {NoOffset}]]
          /\ head' \in [Threads -> Partitions \union {NoPartition}]
          /\ pc' \in [Threads -> {"idle", "save", "saveCurrent", "forceAll",
                                  "readCurrent", "insertCurrent", "commit"}]
          /\ pc'[t] \in {"forceAll", "readCurrent", "commit", "idle"}
          /\ \A u \in Threads : u # t => pc'[u] = pc[u]
      BY <1>0, <2>1, <2>3, <2>4, AppendToBatchType
    <3>2. arg' = [arg EXCEPT ![t] = NoArg] /\ todo' = todo
      BY <1>3 DEF InsertCurrent
    <3>3. QED
      BY <1>0, <3>1, <3>2 DEF CallsTypeOK, NoArg
  <2>6. HistoryTypeOK'
    BY <1>0, <1>3, <2>1 DEF InsertCurrent, Record, HistoryTypeOK
  <2>7. QED
    BY <1>3, <2>2, <2>5, <2>6 DEF InsertCurrent, TypeOK
<1>4. ASSUME NEW t \in Threads, Commit(t) PROVE TypeOK'
  <2>1. committed' \in [Partitions -> Nat \union {NoOffset}]
    <3> DEFINE Sent(p) == {e \in batch[t] : /\ e.partition = p
                                            /\ e.offset # NoOffset
                                            /\ Group[p] = Group[head[t]]}
    <3>1. \A p \in Partitions : Sent(p) # {} => (CHOOSE e \in Sent(p) : TRUE).offset \in Nat
      BY <1>0 DEF CallsTypeOK
    <3>2. committed' = [p \in Partitions |->
                          IF Sent(p) = {} THEN committed[p]
                          ELSE (CHOOSE e \in Sent(p) : TRUE).offset]
      BY <1>4 DEF Commit
    <3> HIDE DEF Sent
    <3>3. QED
      BY <3>1, <3>2 DEF TypeOK
  <2>2. CallsTypeOK'
    BY <1>0, <1>4 DEF Commit, CallsTypeOK
  <2>3. QED
    BY <1>0, <1>4, <2>1, <2>2 DEF Commit, TypeOK, ManagerTypeOK, HistoryTypeOK
<1>5. ASSUME NEW t \in Threads, CommitFails(t) PROVE TypeOK'
  <2>1. CallsTypeOK'
    BY <1>0, <1>5 DEF CommitFails, CallsTypeOK
  <2>2. QED
    BY <1>0, <1>5, <2>1 DEF CommitFails, TypeOK, ManagerTypeOK, HistoryTypeOK
<1>6. ASSUME NEW t \in Threads, ForceCommitAll(t) PROVE TypeOK'
  <2>1. CallsTypeOK'
    BY <1>0, <1>6 DEF ForceCommitAll, CallsTypeOK
  <2>2. QED
    BY <1>0, <1>6, <2>1
    DEF ForceCommitAll, BeginForced, TypeOK, ManagerTypeOK, HistoryTypeOK
<1>7. ASSUME NEW t \in Threads, ForceCommitAllCurrent(t) PROVE TypeOK'
  <2>1. CallsTypeOK'
    BY <1>0, <1>7 DEF ForceCommitAllCurrent, CallsTypeOK
  <2>2. QED
    BY <1>0, <1>7, <2>1
    DEF ForceCommitAllCurrent, BeginForced, TypeOK, ManagerTypeOK, HistoryTypeOK
<1>8. ASSUME NEW t \in Threads, NEW p \in Partitions, Deliver(t, p) PROVE TypeOK'
  <2>1. PICK o \in Messages[p] : /\ position' = [position EXCEPT ![p] = o + 1]
                                 /\ arg' = [arg EXCEPT ![t] = [partition |-> p, offset |-> o]]
    BY <1>8 DEF Deliver
  <2>2. o \in Nat
    BY OffsetManagerAssumption
  <2>3. CallsTypeOK'
    BY <1>0, <1>8, <2>1, <2>2 DEF Deliver, CallsTypeOK, NoArg, NoOffset
  <2>4. position' \in [Partitions -> Nat]
    BY <2>1, <2>2 DEF TypeOK
  <2>5. QED
    BY <1>0, <1>8, <2>3, <2>4 DEF Deliver, TypeOK, ManagerTypeOK, HistoryTypeOK
<1>9. ASSUME NEW t \in Threads, NEW p \in Partitions, ForceCommit(t, p) PROVE TypeOK'
  <2>1. ManagerTypeOK'
    BY <1>0, <1>9, TakeLowestRangeType DEF ForceCommit
  <2>2. PICK o \in Nat \union {NoOffset}, furthest \in Nat :
          /\ RecordPassed(p, furthest)
          /\ batch' = [batch EXCEPT ![t] = {[partition |-> p, offset |-> o]}]
    BY <1>9, ForceCommitFacts
  <2>3. HistoryTypeOK'
    BY <1>0, <1>9, <2>2, RecordPassedFacts DEF ForceCommit
  <2>4. CallsTypeOK'
    <3>1. {[partition |-> p, offset |-> o]}
            \in SUBSET [partition : Partitions, offset : Nat \union {NoOffset}]
      OBVIOUS
    <3>2. batch' \in [Threads -> SUBSET [partition : Partitions, offset : Nat \union {NoOffset}]]
      BY <1>0, <2>2, <3>1 DEF CallsTypeOK
    <3>3. QED
      BY <1>0, <1>9, <3>2 DEF ForceCommit, CallsTypeOK
  <2>5. QED
    BY <1>0, <1>9, <2>1, <2>3, <2>4 DEF ForceCommit, BeginForced, TypeOK
<1>10. ASSUME NEW t \in Threads, NEW p \in Partitions, ForceCommitNext(t, p) PROVE TypeOK'
  <2>0. todo' = [todo EXCEPT ![t] = @ \ {p}] /\ arg' = arg
    BY <1>10 DEF ForceCommitNext
  <2>1. ASSUME NEW entries \in SUBSET [partition : Partitions, offset : Nat \union {NoOffset}],
               AppendToBatch(t, p, entries, "forceAll")
        PROVE  CallsTypeOK'
    <3>1. /\ batch' \in [Threads -> SUBSET [partition : Partitions,
                                            offset : Nat \union {NoOffset}]]
          /\ head' \in [Threads -> Partitions \union {NoPartition}]
          /\ pc' \in [Threads -> {"idle", "save", "saveCurrent", "forceAll",
                                  "readCurrent", "insertCurrent", "commit"}]
          /\ pc'[t] \in {"forceAll", "readCurrent", "commit", "idle"}
          /\ \A u \in Threads : u # t => pc'[u] = pc[u]
      BY <1>0, <2>1, AppendToBatchType
    <3>2. QED
      BY <1>0, <2>0, <3>1 DEF CallsTypeOK
  <2>2. CASE /\ offsets[p] = {}
             /\ AppendToBatch(t, p, {}, "forceAll")
             /\ UNCHANGED <<manager, history>>
    <3>1. CallsTypeOK'
      BY <2>1, <2>2
    <3>2. QED
      BY <1>0, <1>10, <2>2, <3>1 DEF ForceCommitNext, TypeOK, ManagerTypeOK, HistoryTypeOK
  <2>3. CASE /\ offsets[p] # {}
             /\ TakeLowestRange(p)
             /\ RecordPassed(p, Least(offsets[p]))
             /\ AppendToBatch(t, p, {[partition |-> p, offset |-> LowestEnd(p)]}, "forceAll")
             /\ UNCHANGED saved
    <3>1. ManagerTypeOK'
      BY <1>0, <2>3, TakeLowestRangeType
    <3>2. LowestEnd(p) \in Nat /\ Least(offsets[p]) \in Nat
      BY <1>0, <2>3, LowestRangeFacts DEF ManagerTypeOK
    <3>3. CallsTypeOK'
      BY <2>1, <2>3, <3>2
    <3>4. HistoryTypeOK'
      BY <1>0, <2>3, <3>2, RecordPassedFacts
    <3>5. QED
      BY <1>0, <1>10, <2>3, <3>1, <3>3, <3>4 DEF ForceCommitNext, TypeOK
  <2>4. QED
    BY <1>10, <2>2, <2>3 DEF ForceCommitNext
<1>11. ASSUME NEW t \in Threads, NEW p \in Partitions, ForceCommitCurrent(t, p) PROVE TypeOK'
  <2>1. CallsTypeOK'
    BY <1>0, <1>11 DEF ForceCommitCurrent, CallsTypeOK, ManagerTypeOK, NoArg, NoOffset
  <2>2. QED
    BY <1>0, <1>11, <2>1
    DEF ForceCommitCurrent, BeginForced, TypeOK, ManagerTypeOK, HistoryTypeOK
<1>12. ASSUME NEW t \in Threads, NEW p \in Partitions, ReadCurrent(t, p) PROVE TypeOK'
  <2>1. CallsTypeOK'
    BY <1>0, <1>12 DEF ReadCurrent, CallsTypeOK, ManagerTypeOK, NoArg, NoOffset
  <2>2. QED
    BY <1>0, <1>12, <2>1 DEF ReadCurrent, TypeOK, ManagerTypeOK, HistoryTypeOK
<1>13. ASSUME NEW p \in Partitions, Rebalance(p) PROVE TypeOK'
  <2>1. StartPosition(p) \in Nat
    BY OffsetManagerAssumption DEF StartPosition, TypeOK
  <2>2. QED
    BY <1>0, <1>13, <2>1 DEF Rebalance, TypeOK, ManagerTypeOK, CallsTypeOK, HistoryTypeOK
<1>14. CASE Restart
  <2>1. \A p \in Partitions : StartPosition(p) \in Nat
    BY OffsetManagerAssumption DEF StartPosition, TypeOK
  <2>2. ManagerTypeOK'
    BY <1>14, OffsetManagerAssumption, FS_EmptySet DEF Restart, ManagerTypeOK
  <2>3. CallsTypeOK'
    BY <1>14 DEF Restart, CallsTypeOK
  <2>4. QED
    BY <1>0, <1>14, <2>1, <2>2, <2>3 DEF Restart, TypeOK, HistoryTypeOK
<1>15. CASE UNCHANGED vars
  BY <1>0, <1>15 DEF vars, TypeOK, ManagerTypeOK, CallsTypeOK, HistoryTypeOK
<1>16. QED
  BY <1>1, <1>2, <1>3, <1>4, <1>5, <1>6, <1>7, <1>8, <1>9, <1>10, <1>11, <1>12,
     <1>13, <1>14, <1>15 DEF Next, ThreadStep

\* Every variable keeps its type, and a thread inside an insertion always
\* holds the offset it is inserting.
THEOREM TypeCorrect == Spec => []TypeOK
BY TypeInit, TypeStep, PTL DEF Spec

-------------------------------------------------------------------------------
(* At least once: NoMessageLost.                                           *)

\* What one insertion of a recorded offset does: nothing is forgotten, the new
\* `current` is safe, and so is every offset up to the end of a claimed range.
LEMMA InsertOffsetSafe ==
  ASSUME TypeOK, CommitInv,
         NEW t \in Threads, NEW p \in Partitions, NEW o \in Nat,
         InsertOffset(p, o), Record(t, p, o)
  PROVE  /\ \A q \in Partitions : saved[q] \union skipped[q] \subseteq saved'[q] \union skipped'[q]
         /\ \A q \in Partitions : offsets'[q] \subseteq saved'[q] \union skipped'[q]
         /\ \A q \in Partitions : SafeUpTo(q, current[q])'
         /\ Claims(p, o) => \A n \in Nat : n <= RangeEnd(p, o) => Below(p, n) \subseteq saved'[p] \union skipped'[p]
<1>0. ManagerTypeOK /\ HistoryTypeOK
  BY DEF TypeOK
<1>1. /\ \A q \in Partitions : saved[q] \union skipped[q] \subseteq saved'[q] \union skipped'[q]
      /\ o \in saved'[p] \union skipped'[p]
  BY <1>0 DEF Record, HistoryTypeOK
<1>2. Inserted(p, o) \subseteq saved'[p] \union skipped'[p]
  BY <1>1 DEF CommitInv, Inserted
<1>3. \A q \in Partitions : offsets'[q] \subseteq saved'[q] \union skipped'[q]
  <2>1. \A q \in Partitions : offsets'[q] \subseteq IF q = p THEN Inserted(p, o) ELSE offsets[q]
    BY <1>0 DEF InsertOffset, ManagerTypeOK, Inserted
  <2>2. QED
    BY <2>1, <1>1, <1>2 DEF CommitInv
<1>4. CASE Claims(p, o)
  <2> DEFINE first == RunFirst(Inserted(p, o), o)
             end   == RangeEnd(p, o)
  <2>1. /\ first = current[p] /\ first \in Nat /\ end \in Nat
        /\ first <= o /\ o <= end
        /\ first .. o \subseteq Inserted(p, o)
        /\ o .. end \subseteq Inserted(p, o)
    BY <1>0, <1>4, InsertedFacts DEF Claims
  <2> HIDE DEF first, end
  <2>2. Low[p] \in Nat
    BY OffsetManagerAssumption
  <2>3. Below(p, end + 1) \subseteq saved'[p] \union skipped'[p]
    <3> SUFFICES ASSUME NEW n \in Low[p] .. end PROVE n \in saved'[p] \union skipped'[p]
      BY <2>1, <2>2 DEF Below
    <3>1. CASE n < current[p]
      BY <1>1, <2>1, <2>2, <3>1 DEF CommitInv, SafeUpTo, Below
    <3>2. CASE n \in first .. o
      BY <1>2, <2>1, <3>2
    <3>3. CASE n \in o .. end
      BY <1>2, <2>1, <3>3
    <3>4. QED
      BY <2>1, <2>2, <3>1, <3>2, <3>3
  <2>4. current' = [current EXCEPT ![p] = end + 1]
    BY <1>4 DEF InsertOffset, end
  <2>5. \A q \in Partitions : SafeUpTo(q, current[q])'
    BY <1>0, <1>1, <2>3, <2>4 DEF CommitInv, SafeUpTo, Below, ManagerTypeOK
  <2>6. \A n \in Nat : n <= end => Below(p, n) \subseteq saved'[p] \union skipped'[p]
    BY <2>1, <2>2, <2>3 DEF Below
  <2>7. QED
    BY <1>1, <1>3, <2>5, <2>6 DEF end
<1>5. CASE ~ Claims(p, o)
  <2>1. current' = current
    BY <1>5 DEF InsertOffset
  <2>2. \A q \in Partitions : SafeUpTo(q, current[q])'
    BY <1>1, <2>1 DEF CommitInv, SafeUpTo, Below
  <2>3. QED
    BY <1>1, <1>3, <1>5, <2>2
<1>6. QED
  BY <1>4, <1>5

\* The same of a forced commit, which counts what it goes past as skipped, up to
\* where its range begins or further.
LEMMA TakeLowestRangeSafe ==
  ASSUME TypeOK, CommitInv, NEW p \in Partitions, offsets[p] # {}, TakeLowestRange(p),
         \A q \in Partitions : saved[q] \union skipped[q] \subseteq saved'[q] \union skipped'[q],
         Below(p, Least(offsets[p])) \subseteq saved'[p] \union skipped'[p]
  PROVE  /\ \A q \in Partitions : offsets'[q] \subseteq saved'[q] \union skipped'[q]
         /\ \A q \in Partitions : SafeUpTo(q, current[q])'
         /\ Below(p, LowestEnd(p)) \subseteq saved'[p] \union skipped'[p]
<1>0. ManagerTypeOK
  BY DEF TypeOK
<1> DEFINE first == Least(offsets[p])
           end   == LowestEnd(p)
<1>1. first \in Nat /\ end \in Nat /\ first <= end /\ first .. end \subseteq offsets[p]
  BY <1>0, LowestRangeFacts DEF ManagerTypeOK
<1>2. /\ current' = [current EXCEPT ![p] = end + 1]
      /\ \A q \in Partitions : offsets'[q] \subseteq offsets[q]
      /\ Below(p, first) \subseteq saved'[p] \union skipped'[p]
  BY <1>0 DEF TakeLowestRange, ManagerTypeOK
<1> HIDE DEF first, end
<1>3. \A q \in Partitions : offsets'[q] \subseteq saved'[q] \union skipped'[q]
  BY <1>2 DEF CommitInv
<1>4. Low[p] \in Nat
  BY OffsetManagerAssumption
<1>5. Below(p, end + 1) \subseteq saved'[p] \union skipped'[p]
  <2> SUFFICES ASSUME NEW n \in Low[p] .. end PROVE n \in saved'[p] \union skipped'[p]
    BY <1>1, <1>4 DEF Below
  <2>1. CASE n < first
    BY <1>1, <1>2, <1>4, <2>1 DEF Below
  <2>2. CASE n \in first .. end
    BY <1>1, <2>2 DEF CommitInv
  <2>3. QED
    BY <1>1, <1>4, <2>1, <2>2
<1>6. \A q \in Partitions : SafeUpTo(q, current[q])'
  BY <1>0, <1>2, <1>5 DEF CommitInv, SafeUpTo, Below, ManagerTypeOK
<1>7. Below(p, end) \subseteq saved'[p] \union skipped'[p]
  BY <1>1, <1>4, <1>5 DEF Below
<1>8. QED
  BY <1>3, <1>6, <1>7 DEF end

\* An entry without an offset is safe: nothing lies below it.
LEMMA NothingBelowNoOffset ==
  ASSUME NEW p \in Partitions PROVE Below(p, NoOffset) = {}
BY OffsetManagerAssumption DEF Below, NoOffset

\* CommitInv is kept by a step that forgets nothing, commits nothing, and adds
\* only safe entries to the batches.
LEMMA CommitInvKept ==
  ASSUME TypeOK, CommitInv,
         \A q \in Partitions : saved[q] \union skipped[q] \subseteq saved'[q] \union skipped'[q],
         \A q \in Partitions : offsets'[q] \subseteq saved'[q] \union skipped'[q],
         \A q \in Partitions : SafeUpTo(q, current[q])',
         \A u \in Threads : \A e \in batch'[u] :
           \/ e \in batch[u]
           \/ Below(e.partition, e.offset) \subseteq saved'[e.partition] \union skipped'[e.partition],
         committed' = committed
  PROVE  CommitInv'
<1>1. \A u \in Threads : \A e \in batch[u] : e.partition \in Partitions
  BY DEF TypeOK, CallsTypeOK
<1>2. \A u \in Threads : \A e \in batch'[u] : SafeUpTo(e.partition, e.offset)'
  BY <1>1 DEF CommitInv, SafeUpTo, Below
<1>3. NoMessageLost'
  BY DEF CommitInv, NoMessageLost, SafeUpTo, Below
<1>4. QED
  BY <1>2, <1>3 DEF CommitInv

\* In particular by a step that touches neither the ranges nor the history.
LEMMA CommitInvUntouched ==
  ASSUME TypeOK, CommitInv,
         UNCHANGED <<offsets, current, saved, skipped, committed>>,
         \A u \in Threads : batch'[u] \subseteq batch[u]
  PROVE  CommitInv'
<1>1. \A q \in Partitions : SafeUpTo(q, current[q])'
  BY DEF CommitInv, SafeUpTo, Below
<1>2. \A q \in Partitions : offsets'[q] \subseteq saved'[q] \union skipped'[q]
  BY DEF CommitInv
<1>3. \A q \in Partitions : saved[q] \union skipped[q] \subseteq saved'[q] \union skipped'[q]
  OBVIOUS
<1>4. QED
  BY <1>1, <1>2, <1>3, CommitInvKept

LEMMA CommitInvInit == Init => CommitInv
<1> SUFFICES ASSUME Init PROVE CommitInv
  OBVIOUS
<1>1. \A p \in Partitions : Below(p, Low[p]) = {}
  BY OffsetManagerAssumption DEF Below
<1>2. QED
  BY <1>1, NothingBelowNoOffset DEF Init, CommitInv, NoMessageLost, SafeUpTo

LEMMA CommitInvStep == TypeOK /\ CommitInv /\ [Next]_vars => CommitInv'
<1> SUFFICES ASSUME TypeOK, CommitInv, [Next]_vars PROVE CommitInv'
  OBVIOUS
<1> USE DEF manager, calls, history, bounds
<1>0. ManagerTypeOK /\ CallsTypeOK /\ HistoryTypeOK
  BY DEF TypeOK
<1>1. ASSUME NEW t \in Threads, Save(t) PROVE CommitInv'
  <2> DEFINE p == arg[t].partition
             o == arg[t].offset
  <2>1. p \in Partitions /\ o \in Nat
    BY <1>0, <1>1, ArgType DEF Save
  <2>2. InsertOffset(p, o) /\ Record(t, p, o) /\ committed' = committed
    BY <1>1 DEF Save
  <2>3. \A u \in Threads : \A e \in batch'[u] :
          \/ e \in batch[u]
          \/ e = [partition |-> p, offset |-> o] /\ Claims(p, o)
    BY <1>0, <1>1 DEF Save, CallsTypeOK
  <2> HIDE DEF p, o
  <2>4. o <= RangeEnd(p, o)
    BY <1>0, <2>1, InsertedFacts
  <2>5. Claims(p, o) => Below(p, o) \subseteq saved'[p] \union skipped'[p]
    BY <2>1, <2>2, <2>4, InsertOffsetSafe
  <2>6. QED
    BY <2>1, <2>2, <2>3, <2>5, InsertOffsetSafe, CommitInvKept
<1>2. ASSUME NEW t \in Threads, SaveUnknown(t) PROVE CommitInv'
  <2>1. \A q \in Partitions : saved[q] \union skipped[q] \subseteq saved'[q] \union skipped'[q]
    BY <1>0, <1>2 DEF SaveUnknown, Record, HistoryTypeOK
  <2>2. UNCHANGED <<offsets, current, batch, committed>>
    BY <1>2 DEF SaveUnknown
  <2>3. \A q \in Partitions : offsets'[q] \subseteq saved'[q] \union skipped'[q]
    BY <2>1, <2>2 DEF CommitInv
  <2>4. \A q \in Partitions : SafeUpTo(q, current[q])'
    BY <2>1, <2>2 DEF CommitInv, SafeUpTo, Below
  <2>5. QED
    BY <2>1, <2>2, <2>3, <2>4, CommitInvKept
<1>3. ASSUME NEW t \in Threads, InsertCurrent(t) PROVE CommitInv'
  <2> DEFINE p == arg[t].partition
             o == arg[t].offset
  <2>1. p \in Partitions /\ o \in Nat
    BY <1>0, <1>3, ArgType DEF InsertCurrent
  <2>2. InsertOffset(p, o) /\ Record(t, p, o) /\ committed' = committed
    BY <1>3 DEF InsertCurrent
  <2>3. \A u \in Threads : \A e \in batch'[u] :
          \/ e \in batch[u]
          \/ e = [partition |-> p, offset |-> RangeEnd(p, o)] /\ Claims(p, o)
    BY <1>0, <1>3 DEF InsertCurrent, AppendToBatch, CallsTypeOK
  <2> HIDE DEF p, o
  <2>4. RangeEnd(p, o) \in Nat
    BY <1>0, <2>1, InsertedFacts
  <2>5. Claims(p, o) => Below(p, RangeEnd(p, o)) \subseteq saved'[p] \union skipped'[p]
    BY <2>1, <2>2, <2>4, InsertOffsetSafe
  <2>6. QED
    BY <2>1, <2>2, <2>3, <2>5, InsertOffsetSafe, CommitInvKept
<1>4. ASSUME NEW t \in Threads, Commit(t) PROVE CommitInv'
  <2>1. \A q \in Partitions :
          \/ committed'[q] = committed[q]
          \/ \E e \in batch[t] : e.partition = q /\ committed'[q] = e.offset
    BY <1>4 DEF Commit
  <2>2. UNCHANGED <<offsets, current, saved, skipped>> /\ batch' = [batch EXCEPT ![t] = {}]
    BY <1>4 DEF Commit
  <2>3. NoMessageLost'
    BY <2>1, <2>2 DEF CommitInv, NoMessageLost, SafeUpTo, Below
  <2>4. \A u \in Threads : batch'[u] \subseteq batch[u]
    BY <1>0, <2>2 DEF CallsTypeOK
  <2>5. QED
    BY <2>2, <2>3, <2>4 DEF CommitInv, SafeUpTo, Below
<1>5. ASSUME NEW t \in Threads, CommitFails(t) PROVE CommitInv'
  BY <1>0, <1>5, CommitInvUntouched DEF CommitFails, CallsTypeOK
<1>6. ASSUME NEW t \in Threads, ForceCommitAll(t) PROVE CommitInv'
  BY <1>0, <1>6, CommitInvUntouched DEF ForceCommitAll, CallsTypeOK
<1>7. ASSUME NEW t \in Threads, ForceCommitAllCurrent(t) PROVE CommitInv'
  BY <1>0, <1>7, CommitInvUntouched DEF ForceCommitAllCurrent, CallsTypeOK
<1>8. ASSUME NEW t \in Threads, NEW p \in Partitions, Deliver(t, p) PROVE CommitInv'
  BY <1>8, CommitInvUntouched DEF Deliver
<1>9. ASSUME NEW t \in Threads, NEW p \in Partitions, ForceCommit(t, p) PROVE CommitInv'
  <2>1. offsets[p] # {} /\ TakeLowestRange(p) /\ saved' = saved /\ committed' = committed
    BY <1>9 DEF ForceCommit
  <2>2. PICK o \in Nat \union {NoOffset}, furthest \in Nat :
          /\ o <= furthest
          /\ Least(offsets[p]) <= furthest
          /\ RecordPassed(p, furthest)
          /\ batch' = [batch EXCEPT ![t] = {[partition |-> p, offset |-> o]}]
    BY <1>9, ForceCommitFacts
  <2>3. /\ \A q \in Partitions : saved[q] \union skipped[q] \subseteq saved'[q] \union skipped'[q]
        /\ Below(p, furthest) \subseteq saved'[p] \union skipped'[p]
    BY <1>0, <2>1, <2>2, RecordPassedFacts
  <2>4. /\ Below(p, o) \subseteq saved'[p] \union skipped'[p]
        /\ Below(p, Least(offsets[p])) \subseteq saved'[p] \union skipped'[p]
    <3>1. Least(offsets[p]) \in Nat /\ Low[p] \in Nat
      BY <1>0, <2>1, LowestRangeFacts, OffsetManagerAssumption DEF ManagerTypeOK
    <3>2. QED
      BY <2>2, <2>3, <3>1 DEF Below, NoOffset
  <2>5. \A u \in Threads : \A e \in batch'[u] :
          e \in batch[u] \/ e = [partition |-> p, offset |-> o]
    BY <1>0, <2>2 DEF CallsTypeOK
  <2>6. QED
    BY <2>1, <2>3, <2>4, <2>5, TakeLowestRangeSafe, CommitInvKept
<1>10. ASSUME NEW t \in Threads, NEW p \in Partitions, ForceCommitNext(t, p) PROVE CommitInv'
  <2>1. CASE offsets[p] = {}
    BY <1>0, <1>10, <2>1, CommitInvUntouched DEF ForceCommitNext, AppendToBatch, CallsTypeOK
  <2>2. CASE offsets[p] # {}
    <3>1. /\ TakeLowestRange(p) /\ RecordPassed(p, Least(offsets[p]))
          /\ saved' = saved /\ committed' = committed
      BY <1>10, <2>2 DEF ForceCommitNext
    <3>2. \A u \in Threads : \A e \in batch'[u] :
            e \in batch[u] \/ e = [partition |-> p, offset |-> LowestEnd(p)]
      BY <1>0, <1>10, <2>2 DEF ForceCommitNext, AppendToBatch, CallsTypeOK
    <3>3. Least(offsets[p]) \in Int
      BY <1>0, <2>2, LowestRangeFacts DEF ManagerTypeOK
    <3>4. /\ \A q \in Partitions : saved[q] \union skipped[q] \subseteq saved'[q] \union skipped'[q]
          /\ Below(p, Least(offsets[p])) \subseteq saved'[p] \union skipped'[p]
      BY <1>0, <3>1, <3>3, RecordPassedFacts
    <3>5. QED
      BY <2>2, <3>1, <3>2, <3>4, TakeLowestRangeSafe, CommitInvKept
  <2>3. QED
    BY <2>1, <2>2
<1>11. ASSUME NEW t \in Threads, NEW p \in Partitions, ForceCommitCurrent(t, p) PROVE CommitInv'
  BY <1>11, CommitInvUntouched DEF ForceCommitCurrent
<1>12. ASSUME NEW t \in Threads, NEW p \in Partitions, ReadCurrent(t, p) PROVE CommitInv'
  BY <1>12, CommitInvUntouched DEF ReadCurrent
<1>13. ASSUME NEW p \in Partitions, Rebalance(p) PROVE CommitInv'
  BY <1>13, CommitInvUntouched DEF Rebalance
<1>14. CASE Restart
  <2>1. \A p \in Partitions : Below(p, Low[p]) = {}
    BY OffsetManagerAssumption DEF Below
  <2>2. /\ UNCHANGED <<saved, skipped, committed>>
        /\ current' = Low
        /\ offsets' = [p \in Partitions |-> {}]
        /\ batch' = [t \in Threads |-> {}]
    BY <1>14 DEF Restart
  <2>3. \A q \in Partitions : SafeUpTo(q, current[q])'
    BY <2>1, <2>2 DEF SafeUpTo, Below
  <2>4. QED
    BY <2>2, <2>3, CommitInvKept
<1>15. CASE UNCHANGED vars
  BY <1>15, CommitInvUntouched DEF vars
<1>16. QED
  BY <1>1, <1>2, <1>3, <1>4, <1>5, <1>6, <1>7, <1>8, <1>9, <1>10, <1>11, <1>12,
     <1>13, <1>14, <1>15 DEF Next, ThreadStep

\* At least once, for any number of threads, partitions and messages and any
\* mix of saves, forced commits, failed commits, rebalances and restarts: the
\* committed offset is past no message that is neither finished nor given up
\* by a forced commit, whatever offset the caller of that commit names.
THEOREM AtLeastOnce == Spec => []NoMessageLost
<1>1. CommitInv => NoMessageLost
  BY DEF CommitInv
<1>2. QED
  BY <1>1, TypeInit, TypeStep, CommitInvInit, CommitInvStep, PTL DEF Spec

-------------------------------------------------------------------------------
(* No range is left behind: NoRangeLeftBehind.                             *)

\* An insertion claims a range that begins at _currentOffset or makes none.
LEMMA InsertOffsetLeavesNone ==
  ASSUME ManagerTypeOK, CurrentNotFirst, NEW p \in Partitions, NEW o \in Nat, InsertOffset(p, o)
  PROVE  CurrentNotFirst'
<1>1. \A q \in Partitions \ {p} : current'[q] = current[q] /\ offsets'[q] = offsets[q]
  BY DEF InsertOffset, ManagerTypeOK
<1>2. CASE Claims(p, o)
  <2>1. current'[p] = RangeEnd(p, o) + 1 /\ offsets'[p] \subseteq Inserted(p, o)
    BY <1>2 DEF InsertOffset, ManagerTypeOK, Inserted
  <2>2. current'[p] \notin offsets'[p]
    BY <2>1, InsertedFacts
  <2>3. QED
    BY <1>1, <2>2 DEF CurrentNotFirst
<1>3. CASE ~ Claims(p, o)
  <2>1. current'[p] = current[p] /\ offsets'[p] = Inserted(p, o) /\ current[p] \in Nat
    BY <1>3 DEF InsertOffset, ManagerTypeOK
  <2>2. ASSUME current[p] \in Inserted(p, o)
        PROVE  current[p] - 1 \in Inserted(p, o)
    <3>1. CASE current[p] \in offsets[p]
      BY <3>1 DEF CurrentNotFirst, Inserted
    <3>2. CASE current[p] \notin offsets[p]
      <4>1. o = current[p]
        BY <2>2, <3>2 DEF Inserted
      <4>2. RunFirst(Inserted(p, o), o) # o
        BY <1>3, <3>2, <4>1 DEF Claims
      <4>3. /\ RunFirst(Inserted(p, o), o) \in Nat
            /\ RunFirst(Inserted(p, o), o) <= o
            /\ RunFirst(Inserted(p, o), o) .. o \subseteq Inserted(p, o)
        BY InsertedFacts
      <4>4. QED
        BY <4>1, <4>2, <4>3
    <3>3. QED
      BY <3>1, <3>2
  <2>3. QED
    BY <1>1, <2>1, <2>2 DEF CurrentNotFirst
<1>4. QED
  BY <1>2, <1>3

\* A forced commit leaves _currentOffset behind the end of the range it takes.
LEMMA TakeLowestRangeLeavesNone ==
  ASSUME ManagerTypeOK, CurrentNotFirst, NEW p \in Partitions, offsets[p] # {}, TakeLowestRange(p)
  PROVE  CurrentNotFirst'
<1>1. \A q \in Partitions \ {p} : current'[q] = current[q] /\ offsets'[q] = offsets[q]
  BY DEF TakeLowestRange, ManagerTypeOK
<1>2. current'[p] = LowestEnd(p) + 1 /\ offsets'[p] \subseteq offsets[p]
  BY DEF TakeLowestRange, ManagerTypeOK
<1>3. LowestEnd(p) + 1 \notin offsets[p]
  <2>1. Least(offsets[p]) \in offsets[p]
    BY LowestRangeFacts
  <2>2. offsets[p] \in SUBSET Nat /\ IsFiniteSet(offsets[p])
    BY DEF ManagerTypeOK
  <2>3. QED
    BY <2>1, <2>2, RunLastFacts DEF LowestEnd
<1>4. QED
  BY <1>1, <1>2, <1>3 DEF CurrentNotFirst

LEMMA CurrentNotFirstStep == TypeOK /\ CurrentNotFirst /\ [Next]_vars => CurrentNotFirst'
<1> SUFFICES ASSUME TypeOK, CurrentNotFirst, [Next]_vars PROVE CurrentNotFirst'
  OBVIOUS
<1>0. ManagerTypeOK /\ CallsTypeOK
  BY DEF TypeOK
<1>1. ASSUME NEW t \in Threads, Save(t) \/ InsertCurrent(t) PROVE CurrentNotFirst'
  <2>1. InsertOffset(arg[t].partition, arg[t].offset)
    BY <1>1 DEF Save, InsertCurrent
  <2>2. arg[t].partition \in Partitions /\ arg[t].offset \in Nat
    BY <1>0, <1>1, ArgType DEF Save, InsertCurrent
  <2>3. QED
    BY <1>0, <2>1, <2>2, InsertOffsetLeavesNone
<1>2. ASSUME UNCHANGED manager PROVE CurrentNotFirst'
  BY <1>2 DEF manager, CurrentNotFirst
<1>3. ASSUME NEW t \in Threads, NEW p \in Partitions, ForceCommit(t, p) PROVE CurrentNotFirst'
  BY <1>0, <1>3, TakeLowestRangeLeavesNone DEF ForceCommit
<1>4. ASSUME NEW t \in Threads, NEW p \in Partitions, ForceCommitNext(t, p)
      PROVE  CurrentNotFirst'
  BY <1>0, <1>2, <1>4, TakeLowestRangeLeavesNone DEF ForceCommitNext
<1>5. CASE Restart
  BY <1>5 DEF Restart, CurrentNotFirst
<1>6. ASSUME NEW t \in Threads,
             \/ SaveUnknown(t) \/ Commit(t) \/ CommitFails(t)
             \/ ForceCommitAll(t) \/ ForceCommitAllCurrent(t)
      PROVE  CurrentNotFirst'
  BY <1>2, <1>6 DEF SaveUnknown, Commit, CommitFails, ForceCommitAll, ForceCommitAllCurrent
<1>7. ASSUME NEW t \in Threads, NEW p \in Partitions,
             Deliver(t, p) \/ ForceCommitCurrent(t, p) \/ ReadCurrent(t, p)
      PROVE  CurrentNotFirst'
  BY <1>2, <1>7 DEF Deliver, ForceCommitCurrent, ReadCurrent
<1>8. ASSUME NEW p \in Partitions, Rebalance(p) PROVE CurrentNotFirst'
  BY <1>2, <1>8 DEF Rebalance
<1>9. CASE UNCHANGED vars
  BY <1>2, <1>9 DEF vars
<1>10. QED
  BY <1>1, <1>3, <1>4, <1>5, <1>6, <1>7, <1>8, <1>9 DEF Next, ThreadStep

\* For any number of threads and partitions and any mix of saves, forced
\* commits, redeliveries and restarts: what is claimable is claimed at once, by
\* the call that makes it so.
THEOREM NothingLeftBehind == Spec => []NoRangeLeftBehind
<1>1. TypeOK /\ CurrentNotFirst => NoRangeLeftBehind
  <2> SUFFICES ASSUME TypeOK, CurrentNotFirst, NEW p \in Partitions, NEW o \in offsets[p]
               PROVE  RunFirst(offsets[p], o) # current[p]
    BY DEF NoRangeLeftBehind
  <2>1. offsets[p] \in SUBSET Nat
    BY DEF TypeOK, ManagerTypeOK
  <2>2. RunFirst(offsets[p], o) \in offsets[p] /\ RunFirst(offsets[p], o) - 1 \notin offsets[p]
    BY <2>1, RunFirstFacts
  <2>3. QED
    BY <2>2 DEF CurrentNotFirst
<1>2. Init => CurrentNotFirst
  BY DEF Init, CurrentNotFirst
<1>3. QED
  BY <1>1, <1>2, TypeInit, TypeStep, CurrentNotFirstStep, PTL DEF Spec

-------------------------------------------------------------------------------
(* _currentOffset is the first unsaved offset: CurrentIsFirstUnsaved.      *)

FirstUnsavedInv == OnlySaves /\ DeliveredOnce /\ CurrentIsFirstUnsaved

\* One insertion of an offset that was never saved: either the offset extends
\* the saved prefix, over everything that waited behind it, or it waits.
LEMMA InsertKeepsFirstUnsaved ==
  ASSUME TypeOK, NEW p \in Managed, NEW o \in Nat,
         Low[p] <= o, o \notin saved[p],
         \A n \in saved[p] : Low[p] <= n,
         Below(p, current[p]) \subseteq saved[p],
         current[p] \notin saved[p],
         offsets[p] = saved[p] \ Below(p, current[p]),
         InsertOffset(p, o),
         saved' = [saved EXCEPT ![p] = @ \union {o}]
  PROVE  /\ Below(p, current'[p]) \subseteq saved'[p]
         /\ current'[p] \notin saved'[p]
         /\ offsets'[p] = saved'[p] \ Below(p, current'[p])
         /\ \A q \in Partitions \ {p} : current'[q] = current[q] /\ offsets'[q] = offsets[q]
<1>0. /\ ManagerTypeOK /\ HistoryTypeOK
      /\ p \in Partitions
      /\ Low[p] \in Nat /\ current[p] \in Nat
  BY OffsetManagerAssumption DEF TypeOK, ManagerTypeOK
<1>1. saved'[p] = saved[p] \union {o}
  BY <1>0 DEF HistoryTypeOK
<1>2. current[p] <= o
  BY <1>0 DEF Below
<1>3. \A n \in Inserted(p, o) : current[p] <= n
  <2>1. ASSUME NEW n \in offsets[p] PROVE current[p] <= n
    BY <1>0, <2>1 DEF Below, HistoryTypeOK
  <2>2. QED
    BY <1>2, <2>1 DEF Inserted
<1>4. \A q \in Partitions \ {p} : current'[q] = current[q] /\ offsets'[q] = offsets[q]
  BY <1>0 DEF InsertOffset, ManagerTypeOK
<1> DEFINE first == RunFirst(Inserted(p, o), o)
           end   == RangeEnd(p, o)
<1>5. /\ first \in Inserted(p, o) /\ first <= o /\ first .. o \subseteq Inserted(p, o)
      /\ end \in Nat /\ o <= end /\ o .. end \subseteq Inserted(p, o)
      /\ end + 1 \notin Inserted(p, o)
      /\ Run(Inserted(p, o), o) = first .. end
  BY <1>0, InsertedFacts
<1>6. Claims(p, o) <=> first = current[p]
  BY DEF Claims
<1> HIDE DEF first, end
<1>7. CASE Claims(p, o)
  <2>1. first = current[p]
    BY <1>6, <1>7
  <2>2. current'[p] = end + 1 /\ offsets'[p] = offsets[p] \ (current[p] .. end)
    BY <1>0, <1>5, <1>7, <2>1 DEF InsertOffset, ManagerTypeOK, end
  <2>3. current[p] .. end \subseteq saved[p] \union {o}
    BY <1>0, <1>5, <2>1 DEF Inserted
  <2>4. Below(p, end + 1) \subseteq saved[p] \union {o}
    BY <1>0, <1>5, <2>3 DEF Below
  <2>5. end + 1 \notin saved[p] \union {o}
    BY <1>0, <1>2, <1>5 DEF Inserted, Below
  <2>6. offsets[p] \ (current[p] .. end) = (saved[p] \union {o}) \ Below(p, end + 1)
    <3>1. ASSUME NEW n \in Nat, Low[p] <= n
          PROVE  n \in offsets[p] \ (current[p] .. end) <=> n \in (saved[p] \union {o}) \ Below(p, end + 1)
      BY <1>0, <1>2, <1>5, <3>1 DEF Below
    <3>2. offsets[p] \subseteq saved[p] /\ saved[p] \subseteq Nat
      BY <1>0 DEF HistoryTypeOK
    <3>3. QED
      BY <3>1, <3>2
  <2>7. QED
    BY <1>1, <1>4, <2>2, <2>4, <2>5, <2>6
<1>8. CASE ~ Claims(p, o)
  <2>1. current'[p] = current[p] /\ offsets'[p] = Inserted(p, o)
    BY <1>0, <1>8 DEF InsertOffset, ManagerTypeOK
  <2>2. o # current[p]
    <3>1. SUFFICES ASSUME o = current[p] PROVE FALSE
      OBVIOUS
    <3>2. current[p] <= first /\ first <= o /\ first \in Nat
      BY <1>0, <1>3, <1>5, InsertedFacts
    <3>3. QED
      BY <1>0, <1>6, <1>8, <3>1, <3>2
  <2>3. o \notin Below(p, current[p])
    BY <1>0, <1>2 DEF Below
  <2>4. QED
    BY <1>1, <1>4, <2>1, <2>2, <2>3 DEF Inserted
<1>9. QED
  BY <1>7, <1>8

LEMMA FirstUnsavedInit == Init => FirstUnsavedInv
<1> SUFFICES ASSUME Init PROVE FirstUnsavedInv
  OBVIOUS
<1>1. \A p \in Partitions : Low[p] \in Nat
  BY OffsetManagerAssumption
<1>2. CurrentIsFirstUnsaved
  BY <1>1, OffsetManagerAssumption DEF Init, CurrentIsFirstUnsaved, Below
<1>3. DeliveredOnce
  BY <1>1 DEF Init, DeliveredOnce
<1>4. OnlySaves
  BY DEF Init, OnlySaves
<1>5. QED
  BY <1>2, <1>3, <1>4 DEF FirstUnsavedInv

LEMMA FirstUnsavedStep ==
  ASSUME MaxForced = 0, MaxDisruptions = 0
  PROVE  TypeOK /\ FirstUnsavedInv /\ [Next]_vars => FirstUnsavedInv'
<1> SUFFICES ASSUME TypeOK, FirstUnsavedInv, [Next]_vars PROVE FirstUnsavedInv'
  OBVIOUS
<1> USE DEF manager, calls, history, bounds
<1>0. /\ ManagerTypeOK /\ CallsTypeOK /\ HistoryTypeOK
      /\ OnlySaves /\ DeliveredOnce /\ CurrentIsFirstUnsaved
  BY DEF TypeOK, FirstUnsavedInv
<1>1. ASSUME NEW t \in Threads, Save(t) PROVE FirstUnsavedInv'
  <2> DEFINE p == arg[t].partition
             o == arg[t].offset
  <2>1. pc[t] = "save"
    BY <1>0, <1>1 DEF Save, OnlySaves
  <2>2. p \in Managed /\ p \in Partitions /\ o \in Nat
    BY <1>0, <1>1, ArgType DEF Save
  <2>3. /\ InsertOffset(p, o)
        /\ saved' = [saved EXCEPT ![p] = @ \union {o}]
        /\ UNCHANGED <<position, bounds>>
        /\ arg' = [arg EXCEPT ![t] = NoArg]
        /\ pc' \in {[pc EXCEPT ![t] = "commit"], [pc EXCEPT ![t] = "idle"]}
    BY <1>1, <2>1 DEF Save, Record
  <2>4. /\ o \in Low[p] .. position[p] - 1
        /\ o \notin saved[p]
        /\ \A u \in Threads \ {t} : pc[u] = "save" => arg[u] # arg[t]
    BY <1>0, <2>1 DEF DeliveredOnce
  <2>5. \A u \in Threads \ {t} : pc[u] = "save" =>
          ~ (arg[u].partition = p /\ arg[u].offset = o)
    <3>1. ASSUME NEW u \in Threads \ {t}, pc[u] = "save",
                 arg[u].partition = p, arg[u].offset = o
          PROVE  FALSE
      <4>1. arg[u] \in [partition : Partitions, offset : Nat]
        BY <1>0, <3>1, ArgType
      <4>2. arg[t] \in [partition : Partitions, offset : Nat]
        BY <1>0, <2>1, ArgType
      <4>3. arg[u] = arg[t]
        BY <3>1, <4>1, <4>2
      <4>4. QED
        BY <2>4, <3>1, <4>3
    <3>2. QED
      BY <3>1
  <2> HIDE DEF p, o
  <2>6. \A q \in Partitions : saved'[q] = IF q = p THEN saved[q] \union {o} ELSE saved[q]
    BY <1>0, <2>2, <2>3 DEF HistoryTypeOK
  <2>7. /\ Below(p, current[p]) \subseteq saved[p]
        /\ current[p] \notin saved[p]
        /\ offsets[p] = saved[p] \ Below(p, current[p])
        /\ saved[p] \subseteq Low[p] .. position[p] - 1
        /\ Low[p] \in Nat /\ position[p] \in Nat
    BY <1>0, <2>2, OffsetManagerAssumption DEF CurrentIsFirstUnsaved, DeliveredOnce, TypeOK
  <2>8. Low[p] <= o /\ \A n \in saved[p] : Low[p] <= n
    BY <2>4, <2>7
  <2>9. /\ Below(p, current'[p]) \subseteq saved'[p]
        /\ current'[p] \notin saved'[p]
        /\ offsets'[p] = saved'[p] \ Below(p, current'[p])
        /\ \A q \in Partitions \ {p} : current'[q] = current[q] /\ offsets'[q] = offsets[q]
    BY <2>2, <2>3, <2>4, <2>7, <2>8, InsertKeepsFirstUnsaved
  <2>10. CurrentIsFirstUnsaved'
    BY <1>0, <2>6, <2>9, OffsetManagerAssumption DEF CurrentIsFirstUnsaved, Below
  <2>11. DeliveredOnce'
    <3>1. \A q \in Partitions :
            Low[q] <= position'[q] /\ saved'[q] \subseteq Low[q] .. position'[q] - 1
      BY <1>0, <2>3, <2>4, <2>6 DEF DeliveredOnce
    <3>2. ASSUME NEW u \in Threads, pc'[u] = "save"
          PROVE  /\ u # t /\ pc[u] = "save" /\ arg'[u] = arg[u]
      BY <1>0, <2>3, <3>2 DEF CallsTypeOK
    <3>3. ASSUME NEW u \in Threads, pc'[u] = "save"
          PROVE  /\ arg'[u].offset \in Low[arg'[u].partition] .. position'[arg'[u].partition] - 1
                 /\ arg'[u].offset \notin saved'[arg'[u].partition]
                 /\ \A v \in Threads \ {u} : pc'[v] = "save" => arg'[v] # arg'[u]
      <4>1. u # t /\ pc[u] = "save" /\ arg'[u] = arg[u]
        BY <3>2, <3>3
      <4>2. arg[u].partition \in Partitions
        BY <1>0, <4>1, ArgType
      <4>3. arg'[u].offset \in Low[arg'[u].partition] .. position'[arg'[u].partition] - 1
        BY <1>0, <2>3, <4>1 DEF DeliveredOnce
      <4>4. arg'[u].offset \notin saved'[arg'[u].partition]
        <5>1. arg[u].offset \notin saved[arg[u].partition]
          BY <1>0, <4>1 DEF DeliveredOnce
        <5>2. ~ (arg[u].partition = p /\ arg[u].offset = o)
          BY <2>5, <4>1
        <5>3. QED
          BY <2>6, <4>1, <4>2, <5>1, <5>2
      <4>5. \A v \in Threads \ {u} : pc'[v] = "save" => arg'[v] # arg'[u]
        BY <1>0, <3>2, <4>1 DEF DeliveredOnce
      <4>6. QED
        BY <4>3, <4>4, <4>5
    <3>4. QED
      BY <3>1, <3>3 DEF DeliveredOnce
  <2>12. OnlySaves'
    BY <1>0, <2>3 DEF OnlySaves, CallsTypeOK
  <2>13. QED
    BY <2>10, <2>11, <2>12 DEF FirstUnsavedInv
<1>2. ASSUME NEW t \in Threads, SaveUnknown(t) PROVE FirstUnsavedInv'
  <2> DEFINE p == arg[t].partition
             o == arg[t].offset
  <2>1. pc[t] = "save"
    BY <1>0, <1>2 DEF SaveUnknown, OnlySaves
  <2>2. p \notin Managed /\ p \in Partitions /\ o \in Nat
    BY <1>0, <1>2, ArgType DEF SaveUnknown
  <2>3. /\ saved' = [saved EXCEPT ![p] = @ \union {o}]
        /\ UNCHANGED <<position, offsets, current, forced, disruptions>>
        /\ arg' = [arg EXCEPT ![t] = NoArg]
        /\ pc' = [pc EXCEPT ![t] = "idle"]
    BY <1>2, <2>1 DEF SaveUnknown, Record
  <2>4. /\ o \in Low[p] .. position[p] - 1
        /\ \A u \in Threads \ {t} : pc[u] = "save" => arg[u] # arg[t]
    BY <1>0, <2>1 DEF DeliveredOnce
  <2>5. \A u \in Threads \ {t} : pc[u] = "save" =>
          ~ (arg[u].partition = p /\ arg[u].offset = o)
    <3>1. ASSUME NEW u \in Threads \ {t}, pc[u] = "save"
          PROVE  /\ arg[u] \in [partition : Partitions, offset : Nat]
                 /\ arg[t] \in [partition : Partitions, offset : Nat]
      BY <1>0, <2>1, <3>1, ArgType
    <3>2. QED
      BY <2>4, <3>1
  <2> HIDE DEF p, o
  <2>6. \A q \in Partitions : saved'[q] = IF q = p THEN saved[q] \union {o} ELSE saved[q]
    BY <1>0, <2>2, <2>3 DEF HistoryTypeOK
  <2>7. CurrentIsFirstUnsaved'
    BY <1>0, <2>2, <2>3, <2>6, OffsetManagerAssumption DEF CurrentIsFirstUnsaved, Below
  <2>8. DeliveredOnce'
    <3>1. \A q \in Partitions :
            Low[q] <= position'[q] /\ saved'[q] \subseteq Low[q] .. position'[q] - 1
      BY <1>0, <2>3, <2>4, <2>6 DEF DeliveredOnce
    <3>2. \A u \in Threads : pc'[u] = "save" => u # t /\ pc[u] = "save" /\ arg'[u] = arg[u]
      BY <1>0, <2>3 DEF CallsTypeOK
    <3>3. \A u \in Threads : pc'[u] = "save" => arg'[u].partition \in Partitions
      BY <1>0, <3>2, ArgType
    <3>4. \A u \in Threads : pc'[u] = "save" =>
            arg'[u].offset \notin saved'[arg'[u].partition]
      <4>1. ASSUME NEW u \in Threads, pc'[u] = "save"
            PROVE  arg'[u].offset \notin saved'[arg'[u].partition]
        <5>1. u # t /\ pc[u] = "save" /\ arg'[u] = arg[u] /\ arg[u].partition \in Partitions
          BY <3>2, <3>3, <4>1
        <5>2. arg[u].offset \notin saved[arg[u].partition]
          BY <1>0, <5>1 DEF DeliveredOnce
        <5>3. ~ (arg[u].partition = p /\ arg[u].offset = o)
          BY <2>5, <5>1
        <5>4. QED
          BY <2>6, <5>1, <5>2, <5>3
      <4>2. QED
        BY <4>1
    <3>5. QED
      BY <1>0, <2>3, <3>1, <3>2, <3>4 DEF DeliveredOnce
  <2>9. OnlySaves'
    BY <1>0, <2>3 DEF OnlySaves, CallsTypeOK
  <2>10. QED
    BY <2>7, <2>8, <2>9 DEF FirstUnsavedInv
<1>3. ASSUME NEW t \in Threads, NEW p \in Partitions, Deliver(t, p) PROVE FirstUnsavedInv'
  <2>1. PICK o \in Messages[p] : /\ position[p] <= o
                                 /\ position' = [position EXCEPT ![p] = o + 1]
                                 /\ arg' = [arg EXCEPT ![t] = [partition |-> p, offset |-> o]]
    BY <1>3 DEF Deliver
  <2>2. o \in Nat /\ Low[p] \in Nat /\ position[p] \in Nat
    BY OffsetManagerAssumption DEF TypeOK
  <2>3. /\ UNCHANGED <<offsets, current, saved, forced, disruptions>>
        /\ pc' = [pc EXCEPT ![t] = "save"]
        /\ pc[t] = "idle"
    BY <1>3 DEF Deliver
  <2>4. CurrentIsFirstUnsaved'
    BY <1>0, <2>3 DEF CurrentIsFirstUnsaved, Below
  <2>5. \A q \in Partitions :
          /\ position[q] \in Nat
          /\ position[q] <= position'[q]
          /\ Low[q] <= position'[q] /\ saved'[q] \subseteq Low[q] .. position'[q] - 1
    BY <1>0, <2>1, <2>2, <2>3, OffsetManagerAssumption DEF DeliveredOnce, TypeOK
  <2>6. ASSUME NEW u \in Threads, u # t, pc'[u] = "save"
        PROVE  /\ pc[u] = "save" /\ arg'[u] = arg[u]
               /\ arg[u].partition \in Partitions
               /\ arg[u].offset \in Low[arg[u].partition] .. position[arg[u].partition] - 1
    BY <1>0, <2>1, <2>3, <2>6, ArgType DEF CallsTypeOK, DeliveredOnce
  <2>7. arg'[t] = [partition |-> p, offset |-> o]
    BY <1>0, <2>1 DEF CallsTypeOK
  <2>8. DeliveredOnce'
    <3>1. ASSUME NEW u \in Threads, u # t, pc'[u] = "save"
          PROVE  arg'[u] # arg'[t]
      BY <2>1, <2>2, <2>6, <2>7, <3>1
    <3>2. /\ arg'[t].offset \in Low[arg'[t].partition] .. position'[arg'[t].partition] - 1
          /\ arg'[t].offset \notin saved'[arg'[t].partition]
      BY <1>0, <2>1, <2>2, <2>3, <2>7 DEF DeliveredOnce, TypeOK
    <3>3. ASSUME NEW u \in Threads, u # t, pc'[u] = "save"
          PROVE  /\ arg'[u].offset \in Low[arg'[u].partition] .. position'[arg'[u].partition] - 1
                 /\ arg'[u].offset \notin saved'[arg'[u].partition]
                 /\ \A v \in Threads \ {u, t} : pc'[v] = "save" => arg'[v] # arg'[u]
      <4>1. arg'[u].offset \in Low[arg'[u].partition] .. position'[arg'[u].partition] - 1
        <5> DEFINE q == arg[u].partition
        <5>1. /\ q \in Partitions /\ arg'[u] = arg[u]
              /\ arg[u].offset \in Low[q] .. position[q] - 1
          BY <2>6, <3>3
        <5>2. /\ position[q] \in Nat /\ Low[q] \in Nat
              /\ position'[q] = position[q] \/ position'[q] = o + 1
              /\ position[q] <= position'[q]
          BY <2>1, <2>5, <5>1, OffsetManagerAssumption DEF TypeOK
        <5> HIDE DEF q
        <5>3. arg[u].offset \in Low[q] .. position'[q] - 1
          BY <2>2, <5>1, <5>2
        <5>4. QED
          BY <5>1, <5>3 DEF q
      <4>2. arg'[u].offset \notin saved'[arg'[u].partition]
        BY <1>0, <2>3, <2>6, <3>3 DEF DeliveredOnce
      <4>3. \A v \in Threads \ {u, t} : pc'[v] = "save" => arg'[v] # arg'[u]
        BY <1>0, <2>6, <3>3 DEF DeliveredOnce
      <4>4. QED
        BY <4>1, <4>2, <4>3
    <3>4. QED
      BY <2>5, <3>1, <3>2, <3>3 DEF DeliveredOnce
  <2>9. OnlySaves'
    BY <1>0, <2>3 DEF OnlySaves, CallsTypeOK
  <2>10. QED
    BY <2>4, <2>8, <2>9 DEF FirstUnsavedInv
<1>4. ASSUME UNCHANGED <<position, offsets, current, saved, forced, disruptions>>,
             \A u \in Threads : pc'[u] = "save" => pc[u] = "save" /\ arg'[u] = arg[u],
             \A u \in Threads : pc'[u] \in {"idle", "save", "commit"}
      PROVE  FirstUnsavedInv'
  <2>1. CurrentIsFirstUnsaved'
    BY <1>0, <1>4 DEF CurrentIsFirstUnsaved, Below
  <2>2. DeliveredOnce'
    BY <1>0, <1>4 DEF DeliveredOnce
  <2>3. OnlySaves'
    BY <1>0, <1>4 DEF OnlySaves
  <2>4. QED
    BY <2>1, <2>2, <2>3 DEF FirstUnsavedInv
<1>5. ASSUME NEW t \in Threads, Commit(t) \/ CommitFails(t) PROVE FirstUnsavedInv'
  <2>1. /\ UNCHANGED <<position, offsets, current, arg, saved, forced, disruptions>>
        /\ pc' = [pc EXCEPT ![t] = "idle"]
    BY <1>5 DEF Commit, CommitFails
  <2>2. QED
    BY <1>0, <1>4, <2>1 DEF OnlySaves, CallsTypeOK
<1>6. ASSUME NEW t \in Threads, BeginForced(t) PROVE FALSE
  BY <1>0, <1>6 DEF BeginForced, OnlySaves
<1>7. ASSUME NEW t \in Threads, NEW p \in Partitions,
             ForceCommitNext(t, p) \/ ReadCurrent(t, p)
      PROVE  FALSE
  BY <1>0, <1>7 DEF ForceCommitNext, ReadCurrent, OnlySaves
<1>8. ASSUME NEW t \in Threads, InsertCurrent(t) PROVE FALSE
  BY <1>0, <1>8 DEF InsertCurrent, OnlySaves
<1>9. ASSUME NEW p \in Partitions, Rebalance(p) PROVE FALSE
  BY <1>0, <1>9 DEF Rebalance, OnlySaves
<1>10. CASE Restart
  BY <1>0, <1>10 DEF Restart, OnlySaves
<1>11. CASE UNCHANGED vars
  BY <1>0, <1>4, <1>11 DEF vars, OnlySaves
<1>12. QED
  BY <1>1, <1>2, <1>3, <1>5, <1>6, <1>7, <1>8, <1>9, <1>10, <1>11
  DEF Next, ThreadStep, ForceCommitAll, ForceCommitAllCurrent, ForceCommit, ForceCommitCurrent

\* Where no commit is forced and no message is delivered twice, _currentOffset
\* is the first unsaved offset of every managed partition, for any number of
\* threads and any log: ranges merge and are claimed without losing any.
THEOREM FirstUnsaved ==
  ASSUME MaxForced = 0, MaxDisruptions = 0
  PROVE  Spec => []CurrentIsFirstUnsaved
<1>1. TypeOK /\ FirstUnsavedInv /\ [Next]_vars => FirstUnsavedInv'
  BY FirstUnsavedStep
<1>2. FirstUnsavedInv => CurrentIsFirstUnsaved
  BY DEF FirstUnsavedInv
<1>3. QED
  BY <1>1, <1>2, TypeInit, TypeStep, FirstUnsavedInit, PTL DEF Spec

-------------------------------------------------------------------------------
(* OffsetManager implements OffsetLedger: where no commit is forced and no *)
(* message is delivered twice, each of its steps is, on the managed        *)
(* partitions, a step of the ledger or none.                               *)

\* A claimed range lies between where the log begins and _currentOffset, and what is
\* claimed stays claimed: the commit outside the lock publishes nothing unsaved.
LedgerInv ==
  /\ \A p \in Managed : Low[p] <= current[p]
  /\ \A t \in Threads : pc[t] = "commit" =>
       \E p \in Managed : \E o \in Low[p] .. current[p] - 1 :
         head[t] = p /\ batch[t] = {[partition |-> p, offset |-> o]}

-------------------------------------------------------------------------------
(* Operators of the ledger.                                                *)

LEMMA RunLastUnique ==
  ASSUME NEW S \in SUBSET Nat, NEW x \in S, NEW c \in Nat,
         x <= c, x .. c - 1 \subseteq S, c \notin S
  PROVE  RunLast(S, x) = c - 1
<1>1. c - 1 \in S /\ x <= c - 1
  OBVIOUS
<1>2. \A l \in S : x <= l /\ x .. l \subseteq S /\ l + 1 \notin S => l = c - 1
  <2>1. SUFFICES ASSUME NEW l \in S, x <= l, x .. l \subseteq S, l + 1 \notin S
                 PROVE  l = c - 1
    OBVIOUS
  <2>2. ~ (l < c - 1)
    <3>1. l < c - 1 => l + 1 \in x .. c - 1
      BY <2>1
    <3>2. QED
      BY <2>1, <3>1
  <2>3. ~ (c - 1 < l)
    <3>1. c - 1 < l => c \in x .. l
      BY <2>1
    <3>2. QED
      BY <2>1, <3>1
  <2>4. QED
    BY <2>2, <2>3
<1>3. QED
  BY <1>1, <1>2 DEF RunLast

\* The first offset that is not saved, found as the ledger finds it.
LEMMA FirstMissingUnique ==
  ASSUME NEW p \in Managed, NEW S \in SUBSET Nat, NEW c \in Nat,
         Low[p] <= c, Low[p] .. c - 1 \subseteq S, c \notin S
  PROVE  Ledger!FirstMissing(p, S) = c
<1>1. Low[p] \in Nat
  BY OffsetManagerAssumption
<1>2. CASE Low[p] \in S
  <2>1. RunLast(S, Low[p]) = c - 1
    BY <1>1, <1>2, RunLastUnique
  <2>2. Ledger!FirstMissing(p, S) = RunLast(S, Low[p]) + 1
    BY <1>2 DEF Ledger!FirstMissing, Ledger!RunLast, RunLast
  <2>3. QED
    BY <2>1, <2>2
<1>3. CASE Low[p] \notin S
  <2>1. Low[p] = c
    BY <1>1, <1>3
  <2>2. QED
    BY <1>3, <2>1 DEF Ledger!FirstMissing
<1>4. QED
  BY <1>2, <1>3

-------------------------------------------------------------------------------
(* The steps that are left.                                                *)

LEMMA StepsWithoutForce ==
  ASSUME MaxForced = 0, MaxDisruptions = 0, OnlySaves, [Next]_vars
  PROVE  \/ \E t \in Threads : Save(t) \/ SaveUnknown(t) \/ Commit(t) \/ CommitFails(t)
         \/ \E t \in Threads, p \in Partitions : Deliver(t, p)
         \/ UNCHANGED vars
<1>1. ASSUME NEW t \in Threads PROVE ~ BeginForced(t)
  BY DEF BeginForced, OnlySaves
<1>2. ASSUME NEW t \in Threads, NEW p \in Partitions
      PROVE  ~ ForceCommitNext(t, p) /\ ~ ReadCurrent(t, p)
  BY DEF ForceCommitNext, ReadCurrent, OnlySaves
<1>3. ASSUME NEW t \in Threads PROVE ~ InsertCurrent(t)
  BY DEF InsertCurrent, OnlySaves
<1>4. ASSUME NEW p \in Partitions PROVE ~ Rebalance(p)
  BY DEF Rebalance, OnlySaves
<1>5. ~ Restart
  BY DEF Restart, OnlySaves
<1>6. QED
  BY <1>1, <1>2, <1>3, <1>4, <1>5
  DEF Next, ThreadStep, ForceCommitAll, ForceCommitAllCurrent, ForceCommit, ForceCommitCurrent

\* What saveOffset() finds, and how far it moves _currentOffset.
LEMMA SaveFacts ==
  ASSUME TypeOK, FirstUnsavedInv, LedgerInv, NEW t \in Threads, Save(t),
         NEW p, p = arg[t].partition, NEW o, o = arg[t].offset
  PROVE  /\ pc[t] = "save" /\ p \in Managed /\ o \in Nat /\ o \notin saved[p] /\ Low[p] <= o
         /\ saved' = [saved EXCEPT ![p] = @ \union {o}]
         /\ \A q \in Partitions \ {p} : current'[q] = current[q]
         /\ current[p] <= current'[p]
         /\ Claims(p, o) => o < current'[p]
         /\ ~ Claims(p, o) => current' = current
<1>1. /\ ManagerTypeOK /\ CallsTypeOK /\ HistoryTypeOK
      /\ OnlySaves /\ DeliveredOnce
  BY DEF TypeOK, FirstUnsavedInv
<1>2. pc[t] = "save" /\ p \in Managed /\ p \in Partitions /\ o \in Nat
  BY <1>1, ArgType DEF Save, OnlySaves
<1>3. InsertOffset(p, o) /\ saved' = [saved EXCEPT ![p] = @ \union {o}]
  BY <1>2 DEF Save, Record
<1>4. o \notin saved[p] /\ Low[p] <= o
  BY <1>1, <1>2, OffsetManagerAssumption DEF DeliveredOnce, TypeOK
<1>5. CASE Claims(p, o)
  <2>1. /\ RunFirst(Inserted(p, o), o) <= o /\ o <= RangeEnd(p, o)
        /\ RangeEnd(p, o) \in Nat /\ RunFirst(Inserted(p, o), o) \in Nat
    BY <1>1, <1>2, InsertedFacts
  <2>2. current[p] = RunFirst(Inserted(p, o), o)
    BY <1>5 DEF Claims
  <2>3. current' = [current EXCEPT ![p] = RangeEnd(p, o) + 1]
    BY <1>3, <1>5 DEF InsertOffset
  <2>4. QED
    BY <1>1, <1>2, <1>3, <1>4, <1>5, <2>1, <2>2, <2>3 DEF ManagerTypeOK
<1>6. CASE ~ Claims(p, o)
  BY <1>1, <1>2, <1>3, <1>4, <1>6 DEF InsertOffset, ManagerTypeOK
<1>7. QED
  BY <1>5, <1>6

-------------------------------------------------------------------------------
(* The invariant.                                                          *)

LEMMA LedgerInvInit == Init => LedgerInv
BY OffsetManagerAssumption DEF Init, LedgerInv

LEMMA LedgerInvStep ==
  ASSUME MaxForced = 0, MaxDisruptions = 0, TypeOK, FirstUnsavedInv, LedgerInv, [Next]_vars
  PROVE  LedgerInv'
<1> USE DEF manager, calls, history, bounds
<1>0. ManagerTypeOK /\ CallsTypeOK /\ OnlySaves /\ \A p \in Managed : Low[p] \in Nat
  BY OffsetManagerAssumption DEF TypeOK, FirstUnsavedInv
<1>1. ASSUME NEW t \in Threads, Save(t) PROVE LedgerInv'
  <2> DEFINE p == arg[t].partition
             o == arg[t].offset
  <2>1. /\ p \in Managed /\ o \in Nat /\ Low[p] <= o
        /\ \A q \in Partitions \ {p} : current'[q] = current[q]
        /\ current[p] <= current'[p]
        /\ Claims(p, o) => o < current'[p]
    BY <1>1, SaveFacts
  <2>2. IF Claims(p, o)
        THEN /\ pc' = [pc EXCEPT ![t] = "commit"]
             /\ batch' = [batch EXCEPT ![t] = {[partition |-> p, offset |-> o]}]
             /\ head' = [head EXCEPT ![t] = p]
        ELSE pc' = [pc EXCEPT ![t] = "idle"] /\ UNCHANGED <<batch, head>>
    BY <1>1 DEF Save
  <2>3. ManagerTypeOK'
    BY TypeStep DEF TypeOK
  <2> HIDE DEF p, o
  <2>4. \A q \in Managed : Low[q] <= current'[q] /\ current[q] <= current'[q]
                           /\ current[q] \in Nat /\ current'[q] \in Nat
    BY <1>0, <2>1, <2>3, OffsetManagerAssumption DEF LedgerInv, ManagerTypeOK
  <2>5. ASSUME NEW u \in Threads, pc'[u] = "commit"
        PROVE  \E q \in Managed : \E n \in Low[q] .. current'[q] - 1 :
                 head'[u] = q /\ batch'[u] = {[partition |-> q, offset |-> n]}
    <3>1. CASE u = t
      <4>1. Claims(p, o) /\ head'[u] = p /\ batch'[u] = {[partition |-> p, offset |-> o]}
        BY <1>0, <2>2, <2>5, <3>1 DEF CallsTypeOK
      <4>2. o \in Low[p] .. current'[p] - 1
        BY <1>0, <2>1, <2>4, <4>1
      <4>3. QED
        BY <2>1, <4>1, <4>2
    <3>2. CASE u # t
      <4>1. pc[u] = "commit" /\ head'[u] = head[u] /\ batch'[u] = batch[u]
        BY <1>0, <2>2, <2>5, <3>2 DEF CallsTypeOK
      <4>2. PICK q \in Managed : \E n \in Low[q] .. current[q] - 1 :
                   head[u] = q /\ batch[u] = {[partition |-> q, offset |-> n]}
        BY <4>1 DEF LedgerInv
      <4>3. \A n \in Low[q] .. current[q] - 1 : n \in Low[q] .. current'[q] - 1
        BY <1>0, <2>4
      <4>4. QED
        BY <4>1, <4>2, <4>3
    <3>3. QED
      BY <3>1, <3>2
  <2>6. QED
    BY <2>4, <2>5 DEF LedgerInv
<1>2. ASSUME UNCHANGED current,
             \A u \in Threads : pc'[u] = "commit" =>
               pc[u] = "commit" /\ head'[u] = head[u] /\ batch'[u] = batch[u]
      PROVE  LedgerInv'
  BY <1>2 DEF LedgerInv
<1>3. ASSUME NEW t \in Threads, SaveUnknown(t) \/ Commit(t) \/ CommitFails(t)
      PROVE  LedgerInv'
  <2>1. /\ UNCHANGED current
        /\ pc' = [pc EXCEPT ![t] = "idle"]
        /\ \A u \in Threads \ {t} : head'[u] = head[u] /\ batch'[u] = batch[u]
    BY <1>0, <1>3 DEF SaveUnknown, Commit, CommitFails, CallsTypeOK
  <2>2. QED
    BY <1>0, <1>2, <2>1 DEF CallsTypeOK
<1>4. ASSUME NEW t \in Threads, NEW p \in Partitions, Deliver(t, p) PROVE LedgerInv'
  BY <1>0, <1>2, <1>4 DEF Deliver, CallsTypeOK
<1>5. CASE UNCHANGED vars
  BY <1>2, <1>5 DEF vars
<1>6. QED
  BY <1>0, <1>1, <1>3, <1>4, <1>5, StepsWithoutForce

-------------------------------------------------------------------------------
(* The refinement.                                                         *)

LEMMA LedgerInit == Init => Ledger!Init
BY OffsetManagerAssumption DEF Init, Ledger!Init

\* saveOffset() saves one offset and moves _currentOffset to the first unsaved one.
LEMMA SaveImplements ==
  ASSUME TypeOK, TypeOK', FirstUnsavedInv, FirstUnsavedInv', LedgerInv, LedgerInv',
         NEW t \in Threads, Save(t)
  PROVE  Ledger!Next
<1> DEFINE p == arg[t].partition
           o == arg[t].offset
<1>1. /\ p \in Managed /\ o \in Nat /\ o \notin saved[p]
      /\ saved' = [saved EXCEPT ![p] = @ \union {o}]
      /\ \A q \in Partitions \ {p} : current'[q] = current[q]
  BY SaveFacts
<1>2. UNCHANGED committed
  BY DEF Save
<1> HIDE DEF p, o
<1>3. /\ saved \in [Partitions -> SUBSET Nat] /\ saved' \in [Partitions -> SUBSET Nat]
      /\ current'[p] \in Nat
  BY <1>1, OffsetManagerAssumption DEF TypeOK, HistoryTypeOK, ManagerTypeOK
<1>4. Ledger!FirstMissing(p, saved'[p]) = current'[p]
  <2>1. /\ Low[p] <= current'[p] /\ Low[p] .. current'[p] - 1 \subseteq saved'[p]
        /\ current'[p] \notin saved'[p] /\ saved'[p] \in SUBSET Nat
    BY <1>1, <1>3, OffsetManagerAssumption
       DEF LedgerInv, FirstUnsavedInv, CurrentIsFirstUnsaved, Below
  <2>2. QED
    BY <1>1, <1>3, <2>1, FirstMissingUnique
<1>5. o \in saved'[p] /\ saved'[p] = saved[p] \union {o}
  BY <1>1, <1>3, OffsetManagerAssumption
<1>6. [q \in Managed |-> saved'[q]]
        = [[q \in Managed |-> saved[q]] EXCEPT ![p] = @ \union {o}]
  BY <1>1, <1>3, OffsetManagerAssumption
<1>7. [q \in Managed |-> current'[q]]
        = [[q \in Managed |-> current[q]] EXCEPT ![p] = current'[p]]
  BY <1>1, OffsetManagerAssumption
<1>8. Ledger!Save(p, o)
  BY <1>1, <1>2, <1>4, <1>5, <1>6, <1>7 DEF Ledger!Save
<1>9. o \in ([q \in Managed |-> saved[q]]')[p]
  BY <1>1, <1>5
<1>10. QED
  BY <1>1, <1>8, <1>9 DEF Ledger!Next, Ledger!Save

\* commit() publishes the one offset that was claimed, all below which is saved.
LEMMA CommitImplements ==
  ASSUME TypeOK, LedgerInv, NEW t \in Threads, Commit(t)
  PROVE  Ledger!Next
<1>1. PICK p \in Managed : \E o \in Low[p] .. current[p] - 1 :
             head[t] = p /\ batch[t] = {[partition |-> p, offset |-> o]}
  BY DEF Commit, LedgerInv
<1>2. PICK o \in Low[p] .. current[p] - 1 :
             head[t] = p /\ batch[t] = {[partition |-> p, offset |-> o]}
  BY <1>1
<1> DEFINE Sent(q) == {e \in batch[t] : /\ e.partition = q
                                        /\ e.offset # NoOffset
                                        /\ Group[q] = Group[head[t]]}
<1>3. committed' = [q \in Partitions |->
                      IF Sent(q) = {} THEN committed[q]
                      ELSE (CHOOSE e \in Sent(q) : TRUE).offset]
  BY DEF Commit
<1>4. p \in Partitions /\ Low[p] \in Nat /\ current[p] \in Nat /\ o # NoOffset
  BY <1>2, OffsetManagerAssumption DEF TypeOK, ManagerTypeOK, NoOffset
<1>5. Sent(p) = {[partition |-> p, offset |-> o]}
  BY <1>2, <1>4
<1>6. \A q \in Partitions \ {p} : Sent(q) = {}
  BY <1>2
<1> HIDE DEF Sent
<1>7. committed'[p] = o /\ \A q \in Partitions \ {p} : committed'[q] = committed[q]
  <2>1. (CHOOSE e \in Sent(p) : TRUE) = [partition |-> p, offset |-> o]
    BY <1>5
  <2>2. QED
    BY <1>3, <1>4, <1>5, <1>6, <2>1
<1>8. [q \in Managed |-> committed'[q]] = [[q \in Managed |-> committed[q]] EXCEPT ![p] = o]
  BY <1>7, OffsetManagerAssumption
<1>9. UNCHANGED <<saved, current>>
  BY DEF Commit, manager, history
<1>10. ([q \in Managed |-> committed[q]]')[p] = o
  BY <1>7
<1>11. Ledger!Publish(p, ([q \in Managed |-> committed[q]]')[p])
  BY <1>2, <1>8, <1>9, <1>10 DEF Ledger!Publish
<1>12. QED
  BY <1>11 DEF Ledger!Next, Ledger!Publish

LEMMA LedgerStep ==
  ASSUME MaxForced = 0, MaxDisruptions = 0, TypeOK, TypeOK', FirstUnsavedInv, FirstUnsavedInv',
         LedgerInv, LedgerInv', [Next]_vars
  PROVE  [Ledger!Next]_(Ledger!ledgerVars)
<1>1. ASSUME NEW t \in Threads, Save(t) PROVE Ledger!Next
  BY <1>1, SaveImplements
<1>2. ASSUME NEW t \in Threads, Commit(t) PROVE Ledger!Next
  BY <1>2, CommitImplements
<1>3. ASSUME NEW t \in Threads, SaveUnknown(t) PROVE UNCHANGED Ledger!ledgerVars
  <2>1. /\ UNCHANGED <<current, committed>>
        /\ pc[t] = "save" /\ arg[t].partition \notin Managed
        /\ saved' = [saved EXCEPT ![arg[t].partition] = @ \union {arg[t].offset}]
    BY <1>3 DEF SaveUnknown, Record, manager
  <2>2. \A q \in Managed : saved'[q] = saved[q]
    BY <2>1, OffsetManagerAssumption DEF TypeOK, HistoryTypeOK
  <2>3. QED
    BY <2>1, <2>2 DEF Ledger!ledgerVars
<1>4. ASSUME UNCHANGED <<saved, current, committed>> PROVE UNCHANGED Ledger!ledgerVars
  BY <1>4 DEF Ledger!ledgerVars
<1>5. ASSUME NEW t \in Threads,
             CommitFails(t) \/ \E p \in Partitions : Deliver(t, p)
      PROVE  UNCHANGED <<saved, current, committed>>
  BY <1>5 DEF CommitFails, Deliver, manager, history
<1>6. UNCHANGED vars => UNCHANGED <<saved, current, committed>>
  BY DEF vars, manager, history
<1>7. QED
  BY <1>1, <1>2, <1>3, <1>4, <1>5, <1>6, StepsWithoutForce DEF FirstUnsavedInv

\* Where no commit is forced and no message is delivered twice, the manager is the ledger
\* of its managed partitions: _currentOffset moves exactly when the first gap closes, and
\* only offsets below it are ever published, for any number of threads and any log.
THEOREM LedgerImplemented ==
  ASSUME MaxForced = 0, MaxDisruptions = 0
  PROVE  Spec => ImplementsLedger
<1>1. TypeOK /\ FirstUnsavedInv /\ [Next]_vars => FirstUnsavedInv'
  BY FirstUnsavedStep
<1>2. TypeOK /\ FirstUnsavedInv /\ LedgerInv /\ [Next]_vars => LedgerInv'
  BY LedgerInvStep
<1>3. /\ TypeOK /\ TypeOK' /\ FirstUnsavedInv /\ FirstUnsavedInv' /\ LedgerInv /\ LedgerInv'
      /\ [Next]_vars
      => [Ledger!Next]_(Ledger!ledgerVars)
  BY LedgerStep
<1>4. QED
  BY <1>1, <1>2, <1>3, TypeInit, TypeStep, FirstUnsavedInit, LedgerInvInit, LedgerInit, PTL
     DEF Spec, ImplementsLedger, Ledger!Spec
===============================================================================
