-------------------------------- MODULE Timer --------------------------------
(***************************************************************************)
(* Timer.v: the divider and the timer counter.  One step is one machine    *)
(* cycle (one clock edge with en = cpu_en).  Everything is derived from    *)
(* one free-running counter by falling-edge detectors: a register holds    *)
(* the bit watched one cycle ago.  TIMA is counted by the edges of the bit *)
(* TAC selects, its overflow is the edge of its own top bit, and two edges *)
(* pace the sequencer of the APU.  The program may write any register in   *)
(* any cycle, stop may hold the divider, and the speed may change.         *)
(***************************************************************************)
EXTENDS Integers

CONSTANTS
  Half,        \* weight of the top bit of TIMA; 2^7 in the code
  SysSize,     \* SYS_COUNT counts modulo this; 2^14 in the code
  Select,      \* values of TAC[1:0]
  Tap,         \* weight of the SYS_COUNT bit each selects; 2^7, 2^1, 2^3, 2^5
  ApuTap,      \* weight of DIV[4] in SYS_COUNT; 2^10
  ApuTapDouble \* weight of DIV[5]; 2^11

Size == 2 * Half

ASSUME TimerAssumption ==
  /\ Half \in Nat \ {0}
  /\ SysSize \in Nat /\ SysSize > 1
  /\ 0 \in Select
  /\ Tap \in [Select -> Nat \ {0}]
  /\ ApuTap \in Nat \ {0} /\ ApuTapDouble \in Nat \ {0}

VARIABLES
  sys,                    \* SYS_COUNT_reg
  tima, tma,
  enable, select,         \* TAC
  div_tick, tima_tick,    \* the bits watched, one cycle ago
  apu_stick, apu_dtick

vars == <<sys, tima, tma, enable, select, div_tick, tima_tick, apu_stick, apu_dtick>>

Bit(weight) == (sys \div weight) % 2 = 1

DivNegedge  == div_tick /\ ~Bit(Tap[select])
TimaNegedge == tima_tick /\ tima < Half

(* A faulty variant: at normal speed every second event is swallowed. *)
ApuEventSwallowed(dbl_spd) == apu_dtick /\ ~Bit(ApuTapDouble)

(* div_apu_event, at the speed of the cycle. *)
ApuEvent(dbl_spd) ==
  IF dbl_spd THEN apu_dtick /\ ~Bit(ApuTapDouble) ELSE apu_stick /\ ~Bit(ApuTap)

(* Faulty variants: a counter that does not wrap; one that is not reloaded. *)
CountedUnwrapped ==
  IF enable /\ DivNegedge THEN tima + 1
  ELSE IF enable /\ TimaNegedge THEN tma
  ELSE tima
CountedNoReload == IF enable /\ DivNegedge THEN (tima + 1) % Size ELSE tima

(* A tick wins over a reload. *)
Counted ==
  IF enable /\ DivNegedge THEN (tima + 1) % Size
  ELSE IF enable /\ TimaNegedge THEN tma
  ELSE tima

(* The detectors; a write to TIMA clears the one of its top bit. *)
Watch ==
  /\ div_tick' = Bit(Tap[select])
  /\ apu_stick' = Bit(ApuTap)
  /\ apu_dtick' = Bit(ApuTapDouble)

(* A faulty variant: the detector of the top bit watches the next value. *)
AdvanceEarly ==
  /\ Watch
  /\ tima' = Counted
  /\ tima_tick' = (Counted >= Half)

Advance ==
  /\ Watch
  /\ tima_tick' = (tima >= Half)
  /\ tima' = Counted

(* A faulty variant: a divider that wraps one early. *)
NextsysShort == (sys + 1) % (SysSize - 1)

Nextsys == (sys + 1) % SysSize

(***************************************************************************)
(* The cycles.                                                             *)
(***************************************************************************)
Quiet == Advance /\ sys' = Nextsys /\ UNCHANGED <<tma, enable, select>>

Hold == Advance /\ sys' = 0 /\ UNCHANGED <<tma, enable, select>>      \* stop

WriteDIV == Advance /\ sys' = 1 /\ UNCHANGED <<tma, enable, select>>

(* Faulty variant: the detector left as it was. *)
WriteTIMAStale(v) ==
  /\ Watch
  /\ tima_tick' = (tima >= Half)
  /\ tima' = v
  /\ sys' = Nextsys
  /\ UNCHANGED <<tma, enable, select>>

WriteTIMA(v) ==
  /\ Watch
  /\ tima_tick' = FALSE
  /\ tima' = v
  /\ sys' = Nextsys
  /\ UNCHANGED <<tma, enable, select>>

WriteTMA(v) ==
  /\ Advance
  /\ tma' = v
  /\ sys' = Nextsys
  /\ UNCHANGED <<enable, select>>

WriteTAC(e, s) ==
  /\ Advance
  /\ enable' = e /\ select' = s
  /\ sys' = Nextsys
  /\ UNCHANGED tma

Init ==
  /\ sys = 0 /\ tima = 0 /\ tma = 0
  /\ enable = FALSE /\ select = 0
  /\ div_tick = FALSE /\ tima_tick = FALSE
  /\ apu_stick = FALSE /\ apu_dtick = FALSE

Next ==
  \/ Quiet
  \/ Hold
  \/ WriteDIV
  \/ \E v \in 0..(Size - 1) : WriteTIMA(v) \/ WriteTMA(v)
  \/ \E e \in BOOLEAN, s \in Select : WriteTAC(e, s)

(* Machine cycles keep ending: CpuProgress of Core. *)
Fairness == WF_vars(Next)

Spec == Init /\ [][Next]_vars /\ Fairness

TypeOK ==
  /\ sys \in 0..(SysSize - 1)
  /\ tima \in 0..(Size - 1) /\ tma \in 0..(Size - 1)
  /\ enable \in BOOLEAN /\ select \in Select
  /\ div_tick \in BOOLEAN /\ tima_tick \in BOOLEAN
  /\ apu_stick \in BOOLEAN /\ apu_dtick \in BOOLEAN

(***************************************************************************)
(* Properties.                                                             *)
(***************************************************************************)
(* The falling edge of TIMA's top bit always means that the counter wrapped
   one cycle ago, never that the program wrote a smaller value or that a
   reload lowered it; and no tick is due in that cycle, so that the reload,
   which a tick would suppress (Timer.v:95-101), cannot be lost to it, even
   when TAC selects another bit in between. *)
EdgeIsOverflow == TimaNegedge => tima = 0 /\ ~div_tick

(* TIMA implements Interval: one interrupt for every wrap, none without. *)
TimaInterval == INSTANCE Interval WITH
  value <- tima, modulo <- tma, on <- enable, due <- TimaNegedge

ImplementsInterval == TimaInterval!Init /\ [][TimaInterval!Next]_vars

(* A timer that is on and left alone keeps overflowing. *)
KeepsOverflowing ==
  (<>[][Quiet]_vars /\ <>[]enable) => []<>TimaNegedge
=============================================================================
