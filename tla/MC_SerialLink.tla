--------------------------- MODULE MC_SerialLink ----------------------------
(* Bytes of two bits, the fast clock at the divider's second bit as in the
   code, consoles that gain or lose two cycles on each other. *)
EXTENDS SerialLink
=============================================================================
