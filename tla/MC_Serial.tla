----------------------------- MODULE MC_Serial ------------------------------
(* One port of three bits and its printer; the fast clock is the divider's
   second bit, as in the code, and the slow one the third. *)
EXTENDS SerialPrinter
=============================================================================
