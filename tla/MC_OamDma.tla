----------------------------- MODULE MC_OamDma -----------------------------
(* Two cells of two bytes on each bus. *)
EXTENDS OamDma
=============================================================================
