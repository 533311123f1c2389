------------------------- MODULE MCConsumerDispatch -------------------------
(* The partitions read by a consumer of one topic. *)
EXTENDS ConsumerDispatch

ThreePartitions == 0 .. 2
=============================================================================
