---------------------------- MODULE MC_Testbench ----------------------------
(* Five frames to two samples, blocks of two samples, two wires. *)
EXTENDS Testbench
=============================================================================
