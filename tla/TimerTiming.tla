----------------------------- MODULE TimerTiming -----------------------------
(***************************************************************************)
(* Timer with history variables, for what the divider promises about time: *)
(* the rate of the timer's ticks and of the APU's events.  The speed of    *)
(* the processor is chosen afresh in every cycle.                          *)
(***************************************************************************)
EXTENDS Timer

(* The taps are bits of the divider, those of the APU two adjacent ones. *)
ASSUME TimingAssumption ==
  /\ \A s \in Select : SysSize % (2 * Tap[s]) = 0
  /\ ApuTapDouble = 2 * ApuTap /\ SysSize % (2 * ApuTapDouble) = 0

VARIABLES
  dbl_spd,      \* the speed input
  tickAge,      \* cycles since the last tick of the selected bit
  apuAge,       \* cycles since the last event for the APU,
  apuTime,      \*   how long they took, in cycles of double speed,
  changes       \*   and how often the speed changed in them: 0, 1, or 2 for more

observers == <<dbl_spd, tickAge, apuAge, apuTime, changes>>

Unknown == -1   \* the program disturbed the divider since
Settling == -2  \* in the last cycle: what falls now, falls because of that

(* Ages never pass the longest period, which the properties below imply. *)
Longest == 2 * SysSize

Age(event, age, disturbed) ==
  CASE disturbed -> Settling
    [] ~disturbed /\ age = Settling -> Unknown
    [] ~disturbed /\ age # Settling /\ event -> 1
    [] OTHER -> IF age \in {Unknown, Longest} THEN Unknown ELSE age + 1

Restarted == sys' # Nextsys

(* A cycle of normal speed is as long as two of double speed. *)
Duration == IF dbl_spd THEN 1 ELSE 2

(* A count since the last event, for which it starts over; not kept without one. *)
Since(count, more) ==
  IF apuAge' \in {Unknown, Settling} THEN 0
  ELSE (IF ApuEvent(dbl_spd) THEN 0 ELSE count) + more

TimingInit ==
  /\ Init /\ dbl_spd = FALSE
  /\ tickAge = Unknown /\ apuAge = Unknown /\ apuTime = 0 /\ changes = 0

TimingNext ==
  /\ Next
  /\ dbl_spd' \in BOOLEAN
  /\ tickAge' = Age(DivNegedge, tickAge, Restarted \/ select' # select)
  /\ apuAge' = Age(ApuEvent(dbl_spd), apuAge, Restarted)
  /\ apuTime' = Since(apuTime, Duration)
  /\ changes' = LET n == Since(changes, IF dbl_spd' = dbl_spd THEN 0 ELSE 1)
                IN  IF n > 2 THEN 2 ELSE n

TimingSpec == TimingInit /\ [][TimingNext]_<<vars, observers>> /\ WF_vars(TimingNext)

(* As long as the program leaves DIV and the selection alone, the timer ticks
   exactly once in two weights of the selected bit. *)
TickPeriod ==
  DivNegedge => tickAge \in {Settling, Unknown, 2 * Tap[select]}

(* The time between two events of the APU, the same at either speed. *)
ApuPeriodTime == 2 * ApuTapDouble

(* As long as DIV is left alone, the event that paces the APU comes in the cycle in
   which a whole period has passed since the last one, if the speed did not change
   meanwhile, at either speed: none is doubled and none is lost.  One change of the
   speed moves it by at most half a period; more of them bring it no earlier than
   that, and no two periods late (Timer.v:70-84). *)
ApuPeriod ==
  apuAge \notin {Unknown, Settling} =>
    /\ changes = 0 => (ApuEvent(dbl_spd) <=> apuTime = ApuPeriodTime)
    /\ changes > 0 /\ ApuEvent(dbl_spd) => 2 * apuTime >= ApuPeriodTime
    /\ changes = 1 => IF ApuEvent(dbl_spd) THEN 2 * apuTime <= 3 * ApuPeriodTime
                                          ELSE 2 * apuTime < 3 * ApuPeriodTime
    /\ changes = 2 => apuTime < 2 * ApuPeriodTime
=============================================================================
