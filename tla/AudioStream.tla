---------------------------- MODULE AudioStream ----------------------------
(***************************************************************************)
(* What the audio device is promised: full blocks of samples, in order,    *)
(* the k-th sample taken a fixed number of frames after the one before, so *)
(* that the rates never drift apart.                                       *)
(***************************************************************************)
EXTENDS Naturals

CONSTANTS
  P, Q,      \* P / Q frames to a sample
  Block      \* samples of a block

VARIABLES
  blocks,    \* blocks put so far
  block      \* the last one: the frame each sample is made from

(* The frame of the k-th sample: the first after k * P / Q of them. *)
Frame(k) == ((k * P + Q - 1) \div Q) + 1

Init == blocks = 0 /\ block = <<>>

Put ==
  /\ blocks' = blocks + 1
  /\ block' = [i \in 1..Block |-> Frame(blocks * Block + i)]

Spec == Init /\ [][Put]_<<blocks, block>>
=============================================================================
