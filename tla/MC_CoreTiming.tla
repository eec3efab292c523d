---------------------------- MODULE MC_CoreTiming ----------------------------
(* Core and its observers, for the runs on latency, cycle length and stop. *)
EXTENDS CoreTiming
=============================================================================
