----------------------------- MODULE SerialLink -----------------------------
(***************************************************************************)
(* The port with the port of a second console on its pins, over a link     *)
(* cable: the clock and data of each on the inputs of the other (SoC.v     *)
(* hands sck_o, sck_i, sdo and sdi to the pins).  A is the console of       *)
(* Serial's variables, B the other.  Each has its own oscillator; neither  *)
(* runs more than Drift machine cycles while the other runs none.  A gives *)
(* the clock; its program starts only when B's is armed, which programs    *)
(* arrange by delays or by a protocol of their own.                        *)
(***************************************************************************)
EXTENDS Serial

CONSTANT Drift

ASSUME LinkAssumption == Drift \in Nat \ {0}

VARIABLES
  bSB, bTransfer, bFast, bInternal, bDivider, bSck, bSdo, bCount,
  lead,               \* cycles A has run since B's last, or minus the converse
  sentA, sentB,       \* the bytes that the exchange under way, or the last, swaps
  swapping            \* A has started and B has not ended since

bvars == <<bSB, bTransfer, bFast, bInternal, bDivider, bSck, bSdo, bCount>>
lvars == <<vars, bvars, lead, sentA, sentB, swapping>>

B == INSTANCE Serial WITH IdleLow <- FALSE,
       SB_reg <- bSB, transfer <- bTransfer, fast <- bFast, internal <- bInternal,
       divider <- bDivider, sck <- bSck, sdo <- bSdo, count <- bCount

LInit ==
  /\ Init /\ B!Init
  /\ lead = 0
  /\ sentA = SB_reg /\ sentB = bSB
  /\ swapping = FALSE

(* B waits for a clock and has seen no edge of it. *)
Armed == bTransfer /\ bCount = 0 /\ bSck = 0

AWaits    == Quiet(B!sck_o)
ALoads    == \E v \in [1..Width -> {0, 1}] : WriteSB(v, B!sck_o)
AStarts   == Armed /\ \E f \in BOOLEAN : WriteSC(TRUE, f, TRUE, B!sck_o)
AShifts   == Busy(B!sck_o, bSdo)

BWaits    == B!Quiet(sck_o)
BLoads    == \E v \in [1..Width -> {0, 1}] : B!WriteSB(v, sck_o)
BArms     == B!WriteSC(TRUE, FALSE, FALSE, sck_o)
BShifts   == B!Busy(sck_o, sdo)

(* A machine cycle of one console. *)
ACycle ==
  /\ lead < Drift
  /\ lead' = IF lead < 0 THEN 1 ELSE lead + 1
  /\ AWaits \/ ALoads \/ AStarts \/ AShifts
  /\ sentA' = IF ~transfer /\ transfer' THEN SB_reg ELSE sentA
  /\ sentB' = IF ~transfer /\ transfer' THEN bSB ELSE sentB
  /\ swapping' = (swapping \/ (~transfer /\ transfer'))
  /\ UNCHANGED bvars

BCycle ==
  /\ lead > -Drift
  /\ lead' = IF lead > 0 THEN -1 ELSE lead - 1
  /\ BWaits \/ BLoads \/ BArms \/ BShifts
  /\ swapping' = (swapping /\ ~(bTransfer /\ ~bTransfer'))
  /\ UNCHANGED <<vars, sentA, sentB>>

LNext == ACycle \/ BCycle

(* Both oscillators run. *)
LSpec == LInit /\ [][LNext]_lvars /\ WF_lvars(ACycle) /\ WF_lvars(BCycle)

(* Each port ends its transfer with the byte that the other one held at the
   start, though the two do not run in step: each bit is on the wire before
   the other side samples it (Serial.v:106-119). *)
Swapped ==
  [][ /\ (transfer /\ ~transfer') => SB_reg' = sentB
      /\ (bTransfer /\ ~bTransfer') => bSB' = sentA ]_lvars

(* The side without a clock of its own gets all its edges from the other: an
   exchange ends on both sides. *)
ExchangeEnds ==
  /\ transfer ~> ~transfer
  /\ swapping ~> ~swapping
=============================================================================
