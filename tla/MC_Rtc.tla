------------------------------- MODULE MC_Rtc -------------------------------
(* A minute of two seconds, an hour of two minutes, a day of one hour, four
   days.  What the memory holds before a first save: zeros, or a time one
   second past the end of a minute. *)
EXTENDS Rtc

MCZero ==
  { [S |-> 0, M |-> 0, H |-> 0, DL |-> 0, day8 |-> 0, halt |-> FALSE, carry |-> FALSE] }

MCGarbage ==
  MCZero \cup
  { [S |-> 2, M |-> 1, H |-> 0, DL |-> 1, day8 |-> 1, halt |-> FALSE, carry |-> FALSE] }
=============================================================================
