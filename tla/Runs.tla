--------------------------------- MODULE Runs ---------------------------------
(***************************************************************************)
(* Runs of consecutive numbers in a set of naturals.                       *)
(*                                                                         *)
(* IntervalSet<int64_t> stores a set of offsets as disjoint, non-adjacent  *)
(* ranges: each stored range is one maximal run of the set.  This module   *)
(* says what a maximal run is without saying how it is stored.             *)
(***************************************************************************)
EXTENDS Integers

\* The first element of the maximal run of S that contains x \in S.
RunFirst(S, x) ==
  CHOOSE f \in S : f <= x /\ f .. x \subseteq S /\ f - 1 \notin S

\* The last element of the maximal run of S that contains x \in S.
RunLast(S, x) ==
  CHOOSE l \in S : x <= l /\ x .. l \subseteq S /\ l + 1 \notin S

\* The maximal run of S that contains x \in S.
Run(S, x) == RunFirst(S, x) .. RunLast(S, x)

\* The least element of a non-empty set of naturals.
Least(S) == CHOOSE m \in S : \A n \in S : m <= n
===============================================================================
