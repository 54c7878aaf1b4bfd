----------------------------- MODULE MCCounters -----------------------------
(* Values for the configuration of Counters.                               *)
EXTENDS Counters

NoPoison == {}
=============================================================================
