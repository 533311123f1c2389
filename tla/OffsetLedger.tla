----------------------------- MODULE OffsetLedger -----------------------------
(***************************************************************************)
(* What OffsetManager promises to an application that saves every message  *)
(* once and never forces a commit: the current offset is, at every moment, *)
(* the first offset that is not saved, and the broker is only ever told of *)
(* an offset all of whose predecessors are saved.                          *)
(***************************************************************************)
EXTENDS Runs

CONSTANTS Partitions, Low, NoOffset

VARIABLES saved, current, committed

ledgerVars == <<saved, current, committed>>

Init ==
  /\ saved = [p \in Partitions |-> {}]
  /\ current = Low
  /\ committed = [p \in Partitions |-> NoOffset]

\* The first offset of p, from where its log begins, that is not in S.
FirstMissing(p, S) == IF Low[p] \in S THEN RunLast(S, Low[p]) + 1 ELSE Low[p]

Save(p, o) ==
  /\ o \in Nat \ saved[p]
  /\ saved' = [saved EXCEPT ![p] = @ \union {o}]
  /\ current' = [current EXCEPT ![p] = FirstMissing(p, saved'[p])]
  /\ UNCHANGED committed

Publish(p, o) ==
  /\ o \in Low[p] .. current[p] - 1
  /\ committed' = [committed EXCEPT ![p] = o]
  /\ UNCHANGED <<saved, current>>

\* The offset saved or published is the one the step adds or writes.
Next ==
  \E p \in Partitions :
    \/ \E o \in saved'[p] : Save(p, o)
    \/ Publish(p, committed'[p])

Spec == Init /\ [][Next]_ledgerVars
===============================================================================
