------------------------------- MODULE Serial -------------------------------
(***************************************************************************)
(* Serial.v: one serial port.  One step is one machine cycle (one clock    *)
(* edge with en = cpu_en).  In a transfer the port samples sdi on rising   *)
(* edges of the serial clock, shifting SB, and on falling edges puts the   *)
(* next bit on sdo and counts; the clock is its own divider or the other   *)
(* side's.  The program may write SB and SC in any cycle; writes during a  *)
(* transfer are ignored.                                                   *)
(***************************************************************************)
EXTENDS Integers, Sequences

CONSTANTS
  Width,      \* 8 in the code: bits of SB, count counts modulo this
  FastTap,    \* weight of the divider bit that is the fast clock; 2^1
  SlowTap,    \* of the slow one; 2^6, the divider's top bit
  IdleLow     \* the other side keeps its clock low when a transfer starts (CPOL = 0)

ASSUME SerialAssumption ==
  /\ Width \in Nat \ {0}
  /\ FastTap \in Nat \ {0, 1} /\ SlowTap \in Nat \ {0, 1}
  /\ SlowTap % FastTap = 0
  /\ IdleLow \in BOOLEAN

VARIABLES
  SB_reg,                     \* a bit for each of 1..Width, SB[7] first
  transfer, fast, internal,   \* SC[7], SC[1], SC[0]
  divider,
  sck, sdo,                   \* sck_reg, sdo_reg
  count

vars == <<SB_reg, transfer, fast, internal, divider, sck, sdo, count>>

Bits  == {0, 1}
Level == {0, 1}               \* of a clock line
Tap   == IF fast THEN FastTap ELSE SlowTap

sck_o == IF internal THEN (divider \div Tap) % 2 ELSE 0

Clock(sck_i) == IF internal THEN sck_o ELSE sck_i

(* Rising: SB shifts.  Falling: the bit is counted. *)
Posedge(sck_i) == Clock(sck_i) = 1 /\ sck = 0
Negedge(sck_i) == Clock(sck_i) = 0 /\ sck = 1

Shifted(bit) == [i \in 1..Width |-> IF i = Width THEN bit ELSE SB_reg[i + 1]]

(* A faulty variant: one bit too many, which the counter never reaches. *)
FinishedLate(sck_i) == transfer /\ Negedge(sck_i) /\ count = Width

Finished(sck_i) == transfer /\ Negedge(sck_i) /\ count = Width - 1     \* seri_intr

(* A faulty variant: the bit is counted on the rising edge as well. *)
BusyTwice(sck_i, sdi) ==
  /\ transfer
  /\ sck' = Clock(sck_i)
  /\ divider' = (divider + 1) % (2 * SlowTap)
  /\ SB_reg' = IF Posedge(sck_i) THEN Shifted(sdi) ELSE SB_reg
  /\ sdo' = IF Negedge(sck_i) THEN SB_reg[1] ELSE sdo
  /\ count' = IF sck # Clock(sck_i) THEN (count + 1) % Width ELSE count
  /\ transfer' = ~(sck # Clock(sck_i) /\ count = Width - 1)
  /\ UNCHANGED <<fast, internal>>

(* A faulty variant: the divider is wider than its register. *)
BusyUnwrapped(sck_i, sdi) ==
  /\ transfer
  /\ sck' = Clock(sck_i)
  /\ divider' = divider + 1
  /\ SB_reg' = IF Posedge(sck_i) THEN Shifted(sdi) ELSE SB_reg
  /\ sdo' = IF Negedge(sck_i) THEN SB_reg[1] ELSE sdo
  /\ count' = IF Negedge(sck_i) THEN (count + 1) % Width ELSE count
  /\ transfer' = ~Finished(sck_i)
  /\ UNCHANGED <<fast, internal>>

(* A cycle of a transfer; what the program writes is ignored. *)
Busy(sck_i, sdi) ==
  /\ transfer
  /\ sck' = Clock(sck_i)
  /\ divider' = (divider + 1) % (2 * SlowTap)
  /\ SB_reg' = IF Posedge(sck_i) THEN Shifted(sdi) ELSE SB_reg
  /\ sdo' = IF Negedge(sck_i) THEN SB_reg[1] ELSE sdo
  /\ count' = IF Negedge(sck_i) THEN (count + 1) % Width ELSE count
  /\ transfer' = ~Finished(sck_i)
  /\ UNCHANGED <<fast, internal>>

(* Cycles between transfers.  The clock is followed all the same. *)
Rest(sck_i) ==
  /\ ~transfer
  /\ sck' = Clock(sck_i)
  /\ divider' = 0

Quiet(sck_i) == Rest(sck_i) /\ UNCHANGED <<SB_reg, transfer, fast, internal, sdo, count>>

WriteSB(v, sck_i) ==
  /\ Rest(sck_i)
  /\ SB_reg' = v
  /\ UNCHANGED <<transfer, fast, internal, sdo, count>>

(* A faulty variant: the count of an earlier transfer is kept, and so is the
   bit on the line. *)
WriteSCKeep(t, f, i, sck_i) ==
  /\ Rest(sck_i)
  /\ (t /\ IdleLow) => sck_i = 0
  /\ transfer' = t /\ fast' = f /\ internal' = i
  /\ UNCHANGED <<SB_reg, count, sdo>>

WriteSC(t, f, i, sck_i) ==
  /\ Rest(sck_i)
  /\ (t /\ IdleLow) => sck_i = 0
  /\ transfer' = t /\ fast' = f /\ internal' = i
  /\ count' = IF t THEN 0 ELSE count
  /\ sdo' = IF t THEN SB_reg[1] ELSE sdo
  /\ UNCHANGED SB_reg

Init ==
  /\ SB_reg = [i \in 1..Width |-> 0]
  /\ transfer = FALSE /\ fast = FALSE /\ internal = FALSE
  /\ divider = 0 /\ sck = 0 /\ sdo = 0 /\ count = 0

(* What the port does in a cycle with these lines. *)
Cycle(sck_i, sdi) ==
  \/ Busy(sck_i, sdi)
  \/ Quiet(sck_i)
  \/ \E v \in [1..Width -> Bits] : WriteSB(v, sck_i)
  \/ \E t, f, i \in BOOLEAN : WriteSC(t, f, i, sck_i)

Next == \E sck_i \in Level, sdi \in Bits : Cycle(sck_i, sdi)

(* Machine cycles keep ending: CpuProgress of Core. *)
Fairness == WF_vars(Next)

Spec == Init /\ [][Next]_vars /\ Fairness

TypeOK ==
  /\ SB_reg \in [1..Width -> Bits]
  /\ transfer \in BOOLEAN /\ fast \in BOOLEAN /\ internal \in BOOLEAN
  /\ divider \in 0..(2 * SlowTap - 1)
  /\ sck \in Level /\ sdo \in Bits
  /\ count \in 0..(Width - 1)

(* The port implements Exchange: every bit counted on a falling edge was
   shifted in on the rising edge before it, so that a transfer ends after
   Width bits, no more and no fewer (Serial.v:104-119). *)
PortExchange == INSTANCE Exchange WITH
  sb <- SB_reg, busy <- transfer, got <- IF transfer THEN count + sck ELSE 0

ImplementsExchange == PortExchange!Spec

(* A transfer on the port's own clock ends by itself. *)
TransferEnds == (transfer /\ internal) ~> ~transfer
=============================================================================
