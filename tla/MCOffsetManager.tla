--------------------------- MODULE MCOffsetManager ----------------------------
(* Small instances of OffsetManager. *)
EXTENDS OffsetManager, TLC

CONSTANTS a, b, c, t1, t2, t3, groupA, groupB

TwoThreads   == {t1, t2}
ThreeThreads == {t1, t2, t3}
ThreadSymmetry == Permutations(Threads)

\* A caller of forceCommit(partition) may name any offset of a log, or none.
AnyOffset == {NoOffset} \union 0 .. 5

\* One partition, a log of five messages.
OnePartition == {a}
OneGroup     == [p \in Partitions |-> groupA]
FromZero     == [p \in Partitions |-> 0]
FiveMessages == [p \in Partitions |-> 0 .. 4]

\* Two managed partitions of topics read by different groups, and one that was
\* assigned after the manager was made. The log of `a` begins at 1 and has a
\* hole at 2.
ThreePartitions == {a, b, c}
TwoManaged      == {a, b}
TwoGroups       == (a :> groupA) @@ (b :> groupB) @@ (c :> groupA)
FirstOffsets    == (a :> 1) @@ (b :> 0) @@ (c :> 0)
MessagesAndHole == (a :> {1, 3}) @@ (b :> {0}) @@ (c :> {0})
===============================================================================
