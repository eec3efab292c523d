------------------------------ MODULE MC_Timer ------------------------------
(* A timer of two bits on a divider of four, with the speed changing in any cycle.
   Selection 0 watches the slowest bit and 1 the fastest the code has, as in
   Timer.v:86-92. *)
EXTENDS TimerTiming

MCTap == [s \in Select |-> IF s = 0 THEN 8 ELSE 2]
=============================================================================
