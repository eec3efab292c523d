------------------------------- MODULE Clock --------------------------------
(***************************************************************************)
(* What the clock of an MBC3 cartridge promises: it advances one second per *)
(* second while it runs, whether the console is on or off, notes that its  *)
(* days have wrapped, and shows the time of the last latch.                *)
(***************************************************************************)
EXTENDS Integers

CONSTANT Period       \* seconds in the days it can count

VARIABLES
  value,              \* seconds, modulo Period
  running,
  overflow,           \* the days have wrapped since the program cleared this
  selected,           \* the program has one of the registers selected for writing
  shown               \* what the program reads, modulo Period

Half == Period \div 2

vars == <<value, running, overflow, selected, shown>>

Init ==
  /\ value \in 0..(Period - 1) /\ shown \in 0..(Period - 1)
  /\ running \in BOOLEAN /\ overflow \in BOOLEAN
  /\ selected = FALSE

Second ==
  /\ running
  /\ value' = (value + 1) % Period
  /\ overflow' = (overflow \/ value = Period - 1)
  /\ UNCHANGED <<running, selected, shown>>

Latch == shown' = value /\ UNCHANGED <<value, running, overflow, selected>>

Select == selected' \in BOOLEAN /\ UNCHANGED <<value, running, overflow, shown>>

(* The program writes seconds, minutes, hours or the low days. *)
Set ==
  /\ selected
  /\ value' \in 0..(Period - 1) /\ shown' \in 0..(Period - 1)
  /\ overflow' \in BOOLEAN
  /\ UNCHANGED <<running, selected>>

(* It writes the top day bit, the halt bit and the carry bit: the seconds stay
   what they are, modulo half the period. *)
SetTop ==
  /\ selected
  /\ value' \in {value, (value + Half) % Period}
  /\ shown' \in {shown, (shown + Half) % Period}
  /\ running' \in BOOLEAN /\ overflow' \in BOOLEAN
  /\ UNCHANGED selected

Next == Second \/ Latch \/ Select \/ Set \/ SetTop

Spec == Init /\ [][Next]_vars
=============================================================================
