------------------------------- MODULE PointSet -------------------------------
(***************************************************************************)
(* What IntervalSet promises, stated on a plain set of points: insert adds *)
(* the points of a closed interval and answers with the maximal run that   *)
(* now holds them and with whether any point is new; erase takes one       *)
(* maximal run away.                                                       *)
(***************************************************************************)
EXTENDS Runs

CONSTANT MaxPoint   \* a natural: the largest point

VARIABLES
  points,   \* the set of points held
  answer    \* what the last insert returned: the run and "was it modified"

pointVars == <<points, answer>>

NoAnswer == [first |-> -1, last |-> -1, modified |-> FALSE]

Init ==
  /\ points = {}
  /\ answer = NoAnswer

Insert(first, last) ==
  /\ points' = points \union first .. last
  /\ answer' = [first    |-> RunFirst(points', first),
                last     |-> RunLast(points', last),
                modified |-> ~ first .. last \subseteq points]

Erase(point) ==
  /\ points' = points \ Run(points, point)
  /\ answer' = NoAnswer

Next ==
  \/ \E first, last \in 0 .. MaxPoint : first <= last /\ Insert(first, last)
  \/ \E point \in points : Erase(point)

Spec == Init /\ [][Next]_pointVars
===============================================================================
