---------------------------- MODULE MCIntervalSet -----------------------------
(* All insert/erase sequences on the points 0 .. MaxPoint. *)
EXTENDS IntervalSet
===============================================================================
