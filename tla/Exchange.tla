------------------------------ MODULE Exchange ------------------------------
(***************************************************************************)
(* What a program may rely on of the serial port: a transfer, once started, *)
(* shifts exactly Width bits into SB, oldest first, whatever the program   *)
(* writes meanwhile, and ends after the last of them.                      *)
(***************************************************************************)
EXTENDS Integers, Sequences

CONSTANT Width

VARIABLES
  sb,        \* the shift register, its most significant bit first
  busy,      \* a transfer is under way
  got        \* bits it has shifted in

vars == <<sb, busy, got>>

Init == sb = [i \in 1..Width |-> 0] /\ busy = FALSE /\ got = 0

Load ==
  /\ ~busy
  /\ sb' \in [1..Width -> {0, 1}]
  /\ UNCHANGED <<busy, got>>

Begin ==
  /\ ~busy
  /\ busy' = TRUE /\ got' = 0
  /\ UNCHANGED sb

Shift ==
  /\ busy /\ got < Width
  /\ \E bit \in {0, 1} :
       sb' = [i \in 1..Width |-> IF i = Width THEN bit ELSE sb[i + 1]]
  /\ got' = got + 1
  /\ UNCHANGED busy

Finish ==
  /\ busy /\ got = Width
  /\ busy' = FALSE /\ got' = 0
  /\ UNCHANGED sb

Next == Load \/ Begin \/ Shift \/ Finish

Spec == Init /\ [][Next]_vars
=============================================================================
