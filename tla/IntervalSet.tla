----------------------------- MODULE IntervalSet ------------------------------
(***************************************************************************)
(* utils/corokafka_interval_set.h: IntervalSet<T>, a std::map from the     *)
(* first element of a range to its last.  The map is a function from the   *)
(* keys present to their values; an iterator is a key.                     *)
(***************************************************************************)
EXTENDS Integers, FiniteSetsExt

CONSTANT MaxPoint
ASSUME MaxPointAssumption == MaxPoint \in Nat

VARIABLES
  ranges,   \* the std::map base class
  result    \* the InsertReturnType of the last insert: iterator and flag

vars == <<ranges, result>>

Covered(map) == UNION {key .. map[key] : key \in DOMAIN map}

NoResult == [it |-> -1, modified |-> FALSE]

\* --Iterator(it): the key just below `key`; callers know that one exists.
Previous(map, key) == Max({k \in DOMAIN map : k < key})

CanAbsorb(map, left, right) == left <= right /\ map[left] >= map[right]

CanMerge(map, left, right) ==
  /\ left <= right
  /\ \/ map[left] >= right /\ map[left] < map[right]
     \/ map[left] + 1 = right

\* Faulty variant of Reach: without the ++upper, the first range above is missed.
ReachNoIncrement(map, last) == {k \in DOMAIN map : k <= last}

\* upper_bound(last), then one further: the keys the loop may reach are those
\* with no other key between them and `last`.
Reach(map, last) == {k \in DOMAIN map : \A j \in DOMAIN map : ~ (last < j /\ j < k)}

WithoutKey(map, key) == [k \in DOMAIN map \ {key} |-> map[k]]

WithKey(map, key, value) ==
  [k \in DOMAIN map \union {key} |-> IF k = key THEN value ELSE map[k]]

\* One turn of the loop of insert(), on the pair (current, next).
MergeNext(state, next) ==
  LET map == state.map
      current == state.current
  IN  IF CanAbsorb(map, current, next)
      THEN [map |-> WithoutKey(map, next), current |-> current]
      ELSE IF CanMerge(map, current, next)
      THEN [map |-> WithoutKey(WithKey(map, current, map[next]), next), current |-> current]
      ELSE [map |-> map, current |-> next]

\* The loop, over the keys behind `current` within `reach`, in their order.
MergeLoop(map, current, reach) ==
  LET turn[n \in 0 .. MaxPoint] ==
        IF n <= current THEN [map |-> map, current |-> current]
        ELSE IF n \in reach THEN MergeNext(turn[n - 1], n) ELSE turn[n - 1]
  IN  turn[MaxPoint].map

\* Faulty variant of InsertNewKey: the iterator is not moved to the previous
\* range, although the loop erases the new element into it.
InsertNewKeyKeepIterator(map, first, last) ==
  LET added    == WithKey(map, first, last)
      reach    == Reach(map, last) \union {first}
      previous == Previous(map, first)
  IN  IF \E k \in DOMAIN map : k < first
      THEN [map      |-> MergeLoop(added, previous, reach),
            it       |-> first,
            modified |-> ~ CanAbsorb(added, previous, first)]
      ELSE [map |-> MergeLoop(added, first, reach), it |-> first, modified |-> TRUE]

\* insert() of a range whose first element is no key yet.
InsertNewKey(map, first, last) ==
  LET added    == WithKey(map, first, last)
      reach    == Reach(map, last) \union {first}
      previous == Previous(map, first)
      absorbed == CanAbsorb(added, previous, first)
      merged   == CanMerge(added, previous, first)
  IN  IF \E k \in DOMAIN map : k < first
      THEN [map      |-> MergeLoop(added, previous, reach),
            it       |-> IF absorbed \/ merged THEN previous ELSE first,
            modified |-> ~ absorbed]
      ELSE [map |-> MergeLoop(added, first, reach), it |-> first, modified |-> TRUE]

\* Faulty variant of InsertAtKey: the flag is not cleared for a known range.
InsertAtKeyAlwaysModified(map, first, last) ==
  LET widened == [map EXCEPT ![first] = Max({last, @})]
  IN  [map      |-> MergeLoop(widened, first, Reach(map, last)),
       it       |-> first,
       modified |-> TRUE]

\* insert() of a range whose first element is a key: the range is widened.
InsertAtKey(map, first, last) ==
  LET widened == [map EXCEPT ![first] = Max({last, @})]
  IN  [map      |-> MergeLoop(widened, first, Reach(map, last)),
       it       |-> first,
       modified |-> last > map[first]]

InsertResult(map, first, last) ==
  IF first \in DOMAIN map THEN InsertAtKey(map, first, last)
                          ELSE InsertNewKey(map, first, last)

\* Faulty variant: the length of a closed range without its + 1.
LengthHalfOpen(map, key) == map[key] - key

Length(map, key) == (map[key] - key) + 1

\* count(): the number of points, range by range.
Count(map) ==
  LET sum[n \in 0 .. MaxPoint] ==
        (IF n = 0 THEN 0 ELSE sum[n - 1]) + (IF n \in DOMAIN map THEN Length(map, n) ELSE 0)
  IN  sum[MaxPoint]

-------------------------------------------------------------------------------
Init ==
  /\ ranges = <<>>
  /\ result = NoResult

Insert(first, last) ==
  LET outcome == InsertResult(ranges, first, last)
  IN  /\ ranges' = outcome.map
      /\ result' = [it |-> outcome.it, modified |-> outcome.modified]

\* std::map::erase, which IntervalSet re-exports.
Erase(key) ==
  /\ ranges' = WithoutKey(ranges, key)
  /\ result' = NoResult

Next ==
  \/ \E first, last \in 0 .. MaxPoint : first <= last /\ Insert(first, last)
  \/ \E key \in DOMAIN ranges : Erase(key)

Spec == Init /\ [][Next]_vars

-------------------------------------------------------------------------------
\* Every range is well formed and the returned iterator can be dereferenced:
\* insert() never hands out the iterator of an element its loop has erased.
TypeOK ==
  /\ DOMAIN ranges \subseteq 0 .. MaxPoint
  /\ \A key \in DOMAIN ranges : ranges[key] \in key .. MaxPoint
  /\ result = NoResult \/ result.it \in DOMAIN ranges

\* No two ranges overlap or touch: after any sequence of inserts and erases
\* the map is in the one normal form of its set of points, which count() counts,
\* and the iterator that insert() returned is still one of the map.
NormalForm ==
  /\ TypeOK
  /\ \A left, right \in DOMAIN ranges : left < right => ranges[left] + 1 < right
  /\ Count(ranges) = Cardinality(Covered(ranges))

\* insert() adds exactly the points asked for, returns the maximal range that
\* now holds them, and reports "not modified" only when all were present.
Points == INSTANCE PointSet WITH
  points <- Covered(ranges),
  answer <- IF result = NoResult THEN [first |-> -1, last |-> -1, modified |-> FALSE]
            ELSE [first |-> result.it, last |-> ranges[result.it],
                  modified |-> result.modified]

ImplementsPointSet == Points!Spec
===============================================================================
