-------------------------- MODULE MCProducerManager --------------------------
(* Small instances of ProducerManager.  Topic o preserves message order and  *)
(* topic u does not; the cfg files choose the topics and the bounds.         *)
EXTENDS ProducerManager

CONSTANTS o, u, thread1, thread2, none

==============================================================================
