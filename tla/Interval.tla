------------------------------ MODULE Interval ------------------------------
(***************************************************************************)
(* What a program may rely on of the timer counter: a counter that, while  *)
(* it is on, goes up one tick at a time; that is loaded with the modulo,   *)
(* and requests an interrupt, in the step after it wrapped and at no other *)
(* time; and that loses neither a tick nor a wrap unless the program loads *)
(* the counter, or has turned it off, in that very step.                   *)
(***************************************************************************)
EXTENDS Integers

CONSTANT Size            \* the counter counts modulo Size

VARIABLES
  value, modulo,
  on,
  due                    \* the last step wrapped the counter

vars == <<value, modulo, on, due>>

Init == value = 0 /\ modulo = 0 /\ on = FALSE /\ due = FALSE

Tick ==
  /\ on /\ ~due
  /\ value' = (value + 1) % Size
  /\ due' = (value = Size - 1)

Reload ==                \* and request the interrupt
  /\ on /\ due
  /\ value' = modulo
  /\ due' = FALSE

Load ==
  /\ value' \in 0..(Size - 1)
  /\ due' = FALSE
  /\ UNCHANGED <<modulo, on>>

Rest ==
  /\ ~(on /\ due)
  /\ value' = value
  /\ due' = FALSE

(* Outside Load the program may write the modulo or the switch meanwhile. *)
Next == Tick \/ Reload \/ Load \/ Rest
=============================================================================
