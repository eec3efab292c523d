------------------------------ MODULE Transfer ------------------------------
(***************************************************************************)
(* What the HDMA engine promises to a program, whatever the dots in        *)
(* between: a write of n to HDMA5 starts a transfer of n + 1 blocks; bytes *)
(* move one at a time and none is skipped or repeated; the transfer ends   *)
(* by itself after the last byte; the count software can read back goes    *)
(* down by one per block and reads all ones at the end; only a transfer    *)
(* of the hblank kind can be called off; and a general-purpose transfer,   *)
(* once started, runs to its end with the processor held.                  *)
(***************************************************************************)
EXTENDS Integers

CONSTANTS Lengths, Blocks, BlockLen

VARIABLES
  left,      \* bytes still to move, 0 when no transfer is under way
  kind,      \* kind of the transfer that is or was last under way
  shown,     \* HDMA5[6:0]
  cpu        \* the processor's own state

vars == <<left, kind, shown, cpu>>

Init ==
  /\ left = 0
  /\ kind = "general"
  /\ shown = Blocks - 1

Begin ==
  /\ left = 0
  /\ \E n \in Lengths, k \in {"general", "hblank"} :
       left' = (n + 1) * BlockLen /\ shown' = n /\ kind' = k

MoveByte ==
  /\ left > 0
  /\ left' = left - 1
  /\ shown' = IF left' % BlockLen = 0 THEN (shown - 1) % Blocks ELSE shown
  /\ UNCHANGED <<kind, cpu>>

Abort ==
  /\ left > 0 /\ kind = "hblank"
  /\ left' = 0
  /\ UNCHANGED <<kind, shown>>

(* The processor's own steps, impossible while it is held. *)
Compute ==
  /\ ~(left > 0 /\ kind = "general")
  /\ UNCHANGED <<left, kind, shown>>

Next == Begin \/ MoveByte \/ Abort \/ Compute

(* A general-purpose transfer does not wait for anything. *)
Fairness == WF_vars(MoveByte /\ kind = "general")

Spec == Init /\ [][Next]_vars /\ Fairness
=============================================================================
