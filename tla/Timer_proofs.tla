---------------------------- MODULE Timer_proofs ----------------------------
(***************************************************************************)
(* The timer counter implements Interval, for every width of TIMA and of   *)
(* the divider and every choice of taps.  The inductive invariant is       *)
(* EdgeIsOverflow: a tick needs div_tick, and a tick clears it, so after   *)
(* the tick that wraps TIMA the next cycle is free for the reload.  The    *)
(* second part is about time: ticks and APU events keep their periods,     *)
(* because their ages are phases of the divider (TickInv, ApuInv), and the *)
(* time since an event is bounded by its age (ApuTimeInv).                 *)
(***************************************************************************)
EXTENDS TimerTiming, TLAPS

(* Counting modulo a size: one more, or back to zero. *)
LEMMA Modulo ==
  ASSUME NEW size \in Nat \ {0}, NEW n \in 0..(size - 1)
  PROVE  (n + 1) % size = IF n = size - 1 THEN 0 ELSE n + 1
<1>1. CASE n = size - 1
  BY <1>1
<1>2. CASE n # size - 1
  <2>1. n + 1 \in 0..(size - 1)
    BY <1>2
  <2> QED BY <2>1, <1>2
<1> QED BY <1>1, <1>2

(* The sizes of the counters. *)
LEMMA Sizes ==
  /\ Half \in Nat \ {0} /\ Size \in Nat \ {0} /\ Size = 2 * Half
  /\ SysSize \in Nat \ {0} /\ 0 \in 0..(SysSize - 1) /\ 1 \in 0..(SysSize - 1)
BY TimerAssumption DEF Size

(* What TIMA becomes when the program does not write it. *)
LEMMA CountedValue ==
  ASSUME TypeOK
  PROVE  /\ Counted \in 0..(Size - 1)
         /\ enable /\ DivNegedge =>
              Counted = (tima + 1) % Size /\ Counted = IF tima = Size - 1 THEN 0 ELSE tima + 1
         /\ ~(enable /\ DivNegedge) => Counted = IF enable /\ TimaNegedge THEN tma ELSE tima
<1>1. tima \in 0..(Size - 1) /\ tma \in 0..(Size - 1) /\ Size \in Nat \ {0}
  BY Sizes DEF TypeOK
<1>2. (tima + 1) % Size = IF tima = Size - 1 THEN 0 ELSE tima + 1
  BY <1>1, Modulo
<1>3. (tima + 1) % Size \in 0..(Size - 1)
  BY <1>1, <1>2
<1> QED BY <1>1, <1>2, <1>3 DEF Counted

(* A cycle in which the program writes TIMA. *)
Loaded ==
  tima' \in 0..(Size - 1) /\ tima_tick' = FALSE /\ UNCHANGED <<tma, enable, select>>

(* Every step advances the detectors, and TIMA unless the program writes it. *)
LEMMA StepShape ==
  ASSUME TypeOK, Next
  PROVE  /\ Watch
         /\ Loaded \/ Advance
         /\ sys' \in 0..(SysSize - 1)
         /\ tma' \in 0..(Size - 1) /\ enable' \in BOOLEAN /\ select' \in Select
<1>1. sys \in 0..(SysSize - 1) /\ Nextsys \in 0..(SysSize - 1)
  <2>1. sys \in 0..(SysSize - 1)
    BY DEF TypeOK
  <2>2. Nextsys = IF sys = SysSize - 1 THEN 0 ELSE sys + 1
    BY <2>1, Sizes, Modulo DEF Nextsys
  <2> QED BY <2>1, <2>2, Sizes
<1>2. tma \in 0..(Size - 1) /\ enable \in BOOLEAN /\ select \in Select
  BY DEF TypeOK
<1>3. CASE Quiet \/ Hold \/ WriteDIV
  BY <1>1, <1>2, <1>3, Sizes DEF Quiet, Hold, WriteDIV, Advance
<1>4. ASSUME NEW v \in 0..(Size - 1), WriteTIMA(v) \/ WriteTMA(v)
      PROVE  /\ Watch
             /\ Loaded \/ Advance
             /\ sys' \in 0..(SysSize - 1)
             /\ tma' \in 0..(Size - 1) /\ enable' \in BOOLEAN /\ select' \in Select
  BY <1>1, <1>2, <1>4 DEF WriteTIMA, WriteTMA, Advance, Loaded
<1>5. ASSUME NEW e \in BOOLEAN, NEW s \in Select, WriteTAC(e, s)
      PROVE  /\ Watch
             /\ Loaded \/ Advance
             /\ sys' \in 0..(SysSize - 1)
             /\ tma' \in 0..(Size - 1) /\ enable' \in BOOLEAN /\ select' \in Select
  BY <1>1, <1>2, <1>5 DEF WriteTAC, Advance
<1> QED BY <1>3, <1>4, <1>5 DEF Next

(* The types hold at reset *)
LEMMA TypeInit == Init => TypeOK
<1>1. 0 \in 0..(Size - 1) /\ 0 \in 0..(SysSize - 1)
  BY Sizes
<1>2. 0 \in Select
  BY TimerAssumption
<1> QED BY <1>1, <1>2 DEF Init, TypeOK

(* and after every step. *)
LEMMA TypeNext == TypeOK /\ [Next]_vars => TypeOK'
<1> SUFFICES ASSUME TypeOK, [Next]_vars PROVE TypeOK'
  OBVIOUS
<1>1. CASE Next
  <2>1. Watch /\ (Loaded \/ Advance) /\ sys' \in 0..(SysSize - 1)
        /\ tma' \in 0..(Size - 1) /\ enable' \in BOOLEAN /\ select' \in Select
    BY <1>1, StepShape
  <2>2. tima' \in 0..(Size - 1) /\ tima_tick' \in BOOLEAN
    <3>1. CASE Loaded
      BY <3>1 DEF Loaded
    <3>2. CASE Advance
      BY <3>2, CountedValue DEF Advance
    <3> QED BY <2>1, <3>1, <3>2
  <2>3. div_tick' \in BOOLEAN /\ apu_stick' \in BOOLEAN /\ apu_dtick' \in BOOLEAN
    BY <2>1 DEF Watch, Bit
  <2> QED BY <2>1, <2>2, <2>3 DEF TypeOK
<1>2. CASE UNCHANGED vars
  BY <1>2 DEF vars, TypeOK
<1> QED BY <1>1, <1>2

(* The falling edge of the top bit is an overflow in which no tick is due. *)
LEMMA EdgeNext == TypeOK /\ EdgeIsOverflow /\ [Next]_vars => EdgeIsOverflow'
<1> SUFFICES ASSUME TypeOK, EdgeIsOverflow, [Next]_vars PROVE EdgeIsOverflow'
  OBVIOUS
<1>1. CASE Next /\ Loaded
  BY <1>1 DEF Loaded, EdgeIsOverflow, TimaNegedge
<1>2. CASE Next /\ Advance
  <2> SUFFICES ASSUME tima_tick', tima' < Half PROVE tima' = 0 /\ ~div_tick'
    BY DEF EdgeIsOverflow, TimaNegedge
  <2>1. tima >= Half /\ tima' = Counted /\ div_tick' = Bit(Tap[select])
    BY <1>2 DEF Advance, Watch
  <2>2. tima \in 0..(Size - 1) /\ Half \in Nat /\ Size = 2 * Half
    BY Sizes DEF TypeOK
  <2>3. ~TimaNegedge
    BY <2>1, <2>2 DEF TimaNegedge
  <2>4. enable /\ DivNegedge
    <3> SUFFICES ASSUME ~(enable /\ DivNegedge) PROVE FALSE
      OBVIOUS
    <3>1. Counted = tima
      BY <2>3, CountedValue
    <3> QED BY <3>1, <2>1, <2>2
  <2>5. Counted = IF tima = Size - 1 THEN 0 ELSE tima + 1
    BY <2>4, CountedValue
  <2> QED BY <2>1, <2>2, <2>4, <2>5 DEF DivNegedge
<1>3. CASE UNCHANGED vars
  BY <1>3 DEF vars, EdgeIsOverflow, TimaNegedge
<1> QED BY <1>1, <1>2, <1>3, StepShape

(* Type correctness of the timer (Timer.v:17-66). *)
THEOREM Typed == Spec => []TypeOK
BY TypeInit, TypeNext, PTL DEF Spec

(* An overflow is never invented and its reload never lost to a tick
   (Timer.v:95-101). *)
THEOREM EdgeOverflow == Spec => []EdgeIsOverflow
<1>1. Init => EdgeIsOverflow
  BY DEF Init, EdgeIsOverflow, TimaNegedge
<1> QED BY <1>1, Typed, EdgeNext, PTL DEF Spec

(* One step of the timer is one step of Interval. *)
LEMMA StepRefines ==
  TypeOK /\ EdgeIsOverflow /\ [Next]_vars => [TimaInterval!Next]_vars
<1> SUFFICES ASSUME TypeOK, EdgeIsOverflow, Next PROVE TimaInterval!Next
  OBVIOUS
<1>1. CASE Loaded
  BY <1>1 DEF Loaded, TimaNegedge, TimaInterval!Next, TimaInterval!Load
<1>2. CASE Advance
  <2>1. /\ tima' = Counted /\ tima_tick' = (tima >= Half)
        /\ tima \in 0..(Size - 1) /\ Half \in Nat \ {0} /\ Size = 2 * Half
        /\ enable \in BOOLEAN /\ tima_tick \in BOOLEAN
    BY <1>2, Sizes DEF Advance, TypeOK
  <2>2. tima_tick' <=> tima >= Half
    BY <1>2 DEF Advance
  <2>3. CASE enable /\ DivNegedge
    <3>1. /\ tima' = (tima + 1) % Size
          /\ tima' = IF tima = Size - 1 THEN 0 ELSE tima + 1
      BY <2>1, <2>3, CountedValue
    <3>2. TimaNegedge' = (tima = Size - 1)
      BY <2>1, <2>2, <3>1 DEF TimaNegedge
    <3>3. ~TimaNegedge
      BY <2>3 DEF EdgeIsOverflow, DivNegedge
    <3> QED BY <2>3, <3>1, <3>2, <3>3 DEF TimaInterval!Next, TimaInterval!Tick
  <2>4. CASE ~(enable /\ DivNegedge) /\ enable /\ TimaNegedge
    <3>1. tima' = tma
      BY <2>1, <2>4, CountedValue
    <3>2. ~TimaNegedge'
      BY <2>1, <2>4, <2>2 DEF TimaNegedge
    <3> QED BY <2>4, <3>1, <3>2 DEF TimaInterval!Next, TimaInterval!Reload
  <2>5. CASE ~(enable /\ DivNegedge) /\ ~(enable /\ TimaNegedge)
    <3>1. tima' = tima
      BY <2>1, <2>5, CountedValue
    <3>2. ~TimaNegedge'
      BY <2>1, <2>2, <3>1 DEF TimaNegedge
    <3> QED BY <2>5, <3>1, <3>2 DEF TimaInterval!Next, TimaInterval!Rest
  <2> QED BY <2>3, <2>4, <2>5
<1> QED BY <1>1, <1>2, StepShape

(* TIMA implements Interval: one reload and one interrupt for every wrap. *)
THEOREM RefinesInterval == Spec => ImplementsInterval
<1>1. Init => TimaInterval!Init
  BY DEF Init, TimaInterval!Init, TimaNegedge
<1> QED BY <1>1, Typed, EdgeOverflow, StepRefines, PTL DEF Spec, ImplementsInterval
----------------------------------------------------------------------------

(* Quotient and remainder are unique. *)
LEMMA Remainder ==
  ASSUME NEW x \in Nat, NEW n \in Nat, NEW d \in Nat \ {0}, NEW r \in 0..(d - 1), x = d * n + r
  PROVE  x \div d = n /\ x % d = r
<1>1. x \div d = n
  BY SMT
<1>2. x % d = x - d * (x \div d)
  BY SMT
<1> QED BY <1>1, <1>2, SMT

LEMMA Divided ==
  ASSUME NEW x \in Nat, NEW d \in Nat \ {0}
  PROVE  x \div d \in Nat /\ x % d \in 0..(d - 1) /\ x = d * (x \div d) + (x % d)
BY SMT

(* A bit of a number is the upper half of the remainder by twice its weight. *)
LEMMA BitOf ==
  ASSUME NEW x \in Nat, NEW t \in Nat \ {0}
  PROVE  ((x \div t) % 2 = 1) <=> (x % (2 * t) >= t)
<1> DEFINE q == x \div (2 * t)
           r == x % (2 * t)
<1>0. 2 * t \in Nat \ {0}
  BY SMT
<1>1. q \in Nat /\ r \in 0..(2 * t - 1) /\ x = (2 * t) * q + r
  BY <1>0, Divided
<1> HIDE DEF q, r
<1>2. CASE r < t
  <2>1. x = t * (2 * q) + r /\ 2 * q \in Nat /\ r \in 0..(t - 1)
    BY <1>1, <1>2, SMT
  <2>2. x \div t = 2 * q
    BY <2>1, Remainder
  <2>3. (2 * q) % 2 = 0
    BY <1>1, SMT
  <2> QED BY <1>1, <1>2, <2>2, <2>3, SMT DEF r
<1>3. CASE r >= t
  <2>1. x = t * (2 * q + 1) + (r - t) /\ 2 * q + 1 \in Nat /\ r - t \in 0..(t - 1)
    BY <1>1, <1>3, SMT
  <2>2. x \div t = 2 * q + 1
    BY <2>1, Remainder
  <2>3. (2 * q + 1) % 2 = 1
    BY <1>1, SMT
  <2> QED BY <1>1, <1>3, <2>2, <2>3, SMT DEF r
<1> QED BY <1>1, <1>2, <1>3, SMT

(* A counter modulo s, seen modulo a divisor of s, counts and wraps as well. *)
LEMMA CountsModulo ==
  ASSUME NEW s \in Nat \ {0}, NEW m \in Nat \ {0}, s % m = 0, NEW x \in 0..(s - 1)
  PROVE  ((x + 1) % s) % m = IF x % m = m - 1 THEN 0 ELSE (x % m) + 1
<1> DEFINE k == x \div m
           r == x % m
<1>1. k \in Nat /\ r \in 0..(m - 1) /\ x = m * k + r
  <2>1. x \in Nat
    BY SMT
  <2> QED BY <2>1, Divided
<1> HIDE DEF k, r
<1>2. CASE x + 1 < s
  <2>1. (x + 1) % s = x + 1 /\ x + 1 \in Nat
    BY <1>2, SMT
  <2>2. CASE r = m - 1
    <3>1. x + 1 = m * (k + 1) + 0 /\ k + 1 \in Nat /\ 0 \in 0..(m - 1)
      BY <1>1, <2>2, SMT
    <3>2. (x + 1) % m = 0
      BY <2>1, <3>1, Remainder
    <3> QED BY <1>1, <2>1, <2>2, <3>2, SMT DEF r
  <2>3. CASE r # m - 1
    <3>1. PICK e \in 0..(m - 1) : e = r + 1 /\ x + 1 = m * k + e
      BY <1>1, <2>3, SMT
    <3>2. PICK y \in Nat : y = x + 1
      BY <2>1
    <3>3. y = m * k + e
      BY <3>1, <3>2
    <3>4. y % m = e
      BY <1>1, <3>3, Remainder
    <3>5. (x + 1) % m = r + 1
      BY <3>1, <3>2, <3>4
    <3> QED BY <1>1, <2>1, <2>3, <3>5, SMT DEF r
  <2> QED BY <2>2, <2>3
<1>3. CASE x + 1 = s
  <2>1. (x + 1) % s = 0 /\ 0 % m = 0
    BY <1>3, SMT
  <2>2. PICK l \in Nat : s = m * l
    <3>1. s = m * (s \div m) + 0 /\ s \div m \in Nat
      BY Divided
    <3> QED BY <3>1
  <2>3. l # 0
    BY <2>2, SMT
  <2>4. x = m * (l - 1) + (m - 1) /\ l - 1 \in Nat /\ m - 1 \in 0..(m - 1)
    BY <1>3, <2>2, <2>3, SMT
  <2>5. x % m = m - 1
    BY <2>4, Remainder
  <2> QED BY <2>1, <2>5
<1> QED BY <1>2, <1>3, SMT

(* The remainder by twice m: the one by m, or that and m. *)
LEMMA Doubled ==
  ASSUME NEW x \in Nat, NEW m \in Nat \ {0}
  PROVE  x % (2 * m) = x % m \/ x % (2 * m) = (x % m) + m
<1> DEFINE q == x \div (2 * m)
           r == x % (2 * m)
<1>0. 2 * m \in Nat \ {0}
  BY SMT
<1>1. q \in Nat /\ r \in 0..(2 * m - 1) /\ x = (2 * m) * q + r
  BY <1>0, Divided
<1> HIDE DEF q, r
<1>2. CASE r < m
  <2>1. x = m * (2 * q) + r /\ 2 * q \in Nat /\ r \in 0..(m - 1)
    BY <1>1, <1>2, SMT
  <2>2. x % m = r
    BY <2>1, Remainder
  <2> QED BY <2>2 DEF r
<1>3. CASE r >= m
  <2>1. PICK e \in 0..(m - 1) : e = r - m /\ x = m * (2 * q + 1) + e
    BY <1>1, <1>3, SMT
  <2>2. 2 * q + 1 \in Nat
    BY <1>1
  <2>3. x % m = e
    BY <2>1, <2>2, Remainder
  <2> QED BY <1>1, <2>1, <2>3, SMT DEF r
<1> QED BY <1>1, <1>2, <1>3, SMT
----------------------------------------------------------------------------

(* Phases of the divider: in one period of the selected bit, and in one of
   the slower bit of the APU. *)
Phase == sys % (2 * Tap[select])
ApuPhase == sys % (2 * ApuTapDouble)

(* The bits watched are halves and quarters of those periods. *)
LEMMA Phases ==
  ASSUME TypeOK
  PROVE  /\ Tap[select] \in Nat \ {0} /\ ApuTap \in Nat \ {0} /\ ApuTapDouble = 2 * ApuTap
         /\ Phase \in 0..(2 * Tap[select] - 1) /\ (Bit(Tap[select]) <=> Phase >= Tap[select])
         /\ ApuPhase \in 0..(4 * ApuTap - 1) /\ (Bit(ApuTapDouble) <=> ApuPhase >= 2 * ApuTap)
         /\ Bit(ApuTap) <=> (ApuPhase \in ApuTap..(2 * ApuTap - 1) \/ ApuPhase >= 3 * ApuTap)
<1>1. PICK n \in Nat : n = sys
  BY Sizes DEF TypeOK
<1>2. PICK t \in Nat \ {0} : t = Tap[select]
  BY TimerAssumption DEF TypeOK
<1>3. PICK a \in Nat \ {0} : a = ApuTap
  BY TimerAssumption
<1>4. ApuTapDouble = 2 * a /\ 2 * a \in Nat \ {0} /\ 2 * t \in Nat \ {0} /\ 2 * (2 * a) \in Nat \ {0}
  BY <1>2, <1>3, TimingAssumption
<1>5. n % (2 * t) \in 0..(2 * t - 1) /\ (((n \div t) % 2 = 1) <=> n % (2 * t) >= t)
  BY <1>2, <1>4, BitOf, Divided
<1>6. PICK r \in 0..(2 * (2 * a) - 1) :
        r = n % (2 * (2 * a)) /\ (((n \div (2 * a)) % 2 = 1) <=> r >= 2 * a)
  BY <1>4, BitOf, Divided
<1>7. PICK q \in 0..(2 * a - 1) :
        (((n \div a) % 2 = 1) <=> q >= a) /\ (r = q \/ r = q + 2 * a)
  <2>1. n % (2 * a) \in 0..(2 * a - 1) /\ (((n \div a) % 2 = 1) <=> n % (2 * a) >= a)
    BY <1>3, <1>4, BitOf, Divided
  <2>2. n % (2 * (2 * a)) = n % (2 * a) \/ n % (2 * (2 * a)) = (n % (2 * a)) + 2 * a
    BY <1>4, Doubled
  <2> QED BY <1>6, <2>1, <2>2
<1>8. /\ Phase = n % (2 * t) /\ (Bit(Tap[select]) <=> ((n \div t) % 2 = 1))
      /\ ApuPhase = r /\ (Bit(ApuTapDouble) <=> ((n \div (2 * a)) % 2 = 1))
      /\ (Bit(ApuTap) <=> ((n \div a) % 2 = 1))
  BY <1>1, <1>2, <1>3, <1>4, <1>6 DEF Phase, ApuPhase, Bit
<1>9. Phase \in 0..(2 * Tap[select] - 1) /\ (Bit(Tap[select]) <=> Phase >= Tap[select])
  BY <1>2, <1>5, <1>8
<1>10. r \in 0..(4 * a - 1) /\ (Bit(ApuTapDouble) <=> r >= 2 * a)
  BY <1>6, <1>8
<1>11. Bit(ApuTap) <=> (r \in a..(2 * a - 1) \/ r >= 3 * a)
  <2>1. q >= a <=> (r \in a..(2 * a - 1) \/ r >= 3 * a)
    BY <1>7
  <2> QED BY <1>7, <1>8, <2>1
<1> QED BY <1>2, <1>3, <1>4, <1>8, <1>9, <1>10, <1>11

(* In a cycle that leaves the divider alone both phases count. *)
LEMMA PhasesCount ==
  ASSUME TypeOK, ~Restarted
  PROVE  /\ select' = select => Phase' = IF Phase = 2 * Tap[select] - 1 THEN 0 ELSE Phase + 1
         /\ ApuPhase' = IF ApuPhase = 4 * ApuTap - 1 THEN 0 ELSE ApuPhase + 1
<1>1. PICK n \in 0..(SysSize - 1) : n = sys
  BY DEF TypeOK
<1>2. PICK t \in Nat \ {0} : t = Tap[select] /\ SysSize % (2 * t) = 0
  BY TimerAssumption, TimingAssumption DEF TypeOK
<1>3. PICK a \in Nat \ {0} : a = ApuTap
  BY TimerAssumption
<1>4. /\ ApuTapDouble = 2 * a /\ 2 * t \in Nat \ {0} /\ 2 * (2 * a) \in Nat \ {0}
      /\ SysSize % (2 * (2 * a)) = 0 /\ SysSize \in Nat \ {0}
  BY <1>2, <1>3, TimingAssumption, Sizes
<1>5. ((n + 1) % SysSize) % (2 * t) = IF n % (2 * t) = 2 * t - 1 THEN 0 ELSE (n % (2 * t)) + 1
  BY <1>2, <1>4, CountsModulo
<1>6. ((n + 1) % SysSize) % (2 * (2 * a)) =
        IF n % (2 * (2 * a)) = 2 * (2 * a) - 1 THEN 0 ELSE (n % (2 * (2 * a))) + 1
  BY <1>4, CountsModulo
<1>7. sys' = (n + 1) % SysSize
  BY <1>1 DEF Restarted, Nextsys
<1>8. ApuPhase = n % (2 * (2 * a)) /\ ApuPhase' = ((n + 1) % SysSize) % (2 * (2 * a))
      /\ 2 * (2 * a) = 4 * ApuTap
  BY <1>1, <1>3, <1>4, <1>7 DEF ApuPhase
<1>9. ASSUME select' = select
      PROVE  Phase = n % (2 * t) /\ Phase' = ((n + 1) % SysSize) % (2 * t)
  BY <1>1, <1>2, <1>7, <1>9 DEF Phase
<1> QED BY <1>2, <1>5, <1>6, <1>8, <1>9

(* How an age goes on. *)
LEMMA AgeCases ==
  ASSUME NEW event, NEW age, NEW disturbed \in BOOLEAN
  PROVE  /\ disturbed => Age(event, age, disturbed) = Settling
         /\ ~disturbed /\ age = Settling => Age(event, age, disturbed) = Unknown
         /\ ~disturbed /\ age # Settling /\ event => Age(event, age, disturbed) = 1
         /\ ~disturbed /\ age # Settling /\ ~event =>
              Age(event, age, disturbed) =
                IF age \in {Unknown, Longest} THEN Unknown ELSE age + 1
<1>1. CASE disturbed
  BY <1>1, Zenon DEF Age
<1>2. CASE ~disturbed /\ age = Settling
  BY <1>2, Zenon DEF Age
<1>3. CASE ~disturbed /\ age # Settling /\ event
  BY <1>3, Zenon DEF Age
<1>4. CASE ~disturbed /\ age # Settling /\ ~event
  BY <1>4, Zenon DEF Age
<1> QED BY <1>1, <1>2, <1>3, <1>4, Zenon

(* Why the ticks keep their distance: unless the program disturbed them in the
   last cycle, the selected bit falls only at the start of its period, and the
   age of the last tick is the phase. *)
TickInv ==
  /\ tickAge \in {Settling, Unknown} \cup 1..(2 * Tap[select])
  /\ tickAge # Settling /\ DivNegedge => Phase = 0
  /\ tickAge >= 1 =>
       /\ Phase = (IF tickAge = 2 * Tap[select] THEN 0 ELSE tickAge)
       /\ Phase = 0 => div_tick

(* The same for the two bits of the APU: the fast one falls at the start and
   in the middle of the period of the slow one, the slow one at its start
   only.  Half a period after an event the phase is at one of the two; later
   than that only if an event in the middle was passed over. *)
ApuInv ==
  /\ apuAge \in {Settling, Unknown} \cup 1..(4 * ApuTap)
  /\ apuAge # Settling =>
       /\ apu_stick /\ ~Bit(ApuTap) => ApuPhase \in {0, 2 * ApuTap}
       /\ apu_dtick /\ ~Bit(ApuTapDouble) => ApuPhase = 0
  /\ apuAge >= 1 =>
       /\ ApuPhase = 0 => apu_stick /\ apu_dtick
       /\ ApuPhase = 2 * ApuTap => apu_stick
       /\ \/ ApuPhase = (IF apuAge = 4 * ApuTap THEN 0 ELSE apuAge)
          \/ apuAge \in 1..(2 * ApuTap) /\
             ApuPhase = (IF apuAge = 2 * ApuTap THEN 0 ELSE apuAge + 2 * ApuTap)

LEMMA TickNext == TypeOK /\ TickInv /\ TimingNext => TickInv'
<1> SUFFICES ASSUME TypeOK, TickInv, TimingNext PROVE TickInv'
  OBVIOUS
<1> DEFINE t == Tap[select]
           disturbed == Restarted \/ select' # select
<1>0. disturbed \in BOOLEAN
  OBVIOUS
<1>1. t \in Nat \ {0} /\ Phase \in 0..(2 * t - 1) /\ (Bit(t) <=> Phase >= t)
  BY Phases
<1>2. TypeOK' /\ (div_tick' <=> Bit(t)) /\ div_tick \in BOOLEAN
  <2>1. TypeOK'
    BY TypeNext DEF TimingNext
  <2>2. div_tick' = Bit(t)
    BY StepShape, Zenon DEF TimingNext, Watch
  <2> QED BY <2>1, <2>2 DEF TypeOK
<1>3. tickAge' = Age(DivNegedge, tickAge, disturbed)
  BY Zenon DEF TimingNext
<1>4. CASE disturbed
  <2>1. tickAge' = Settling
    BY <1>3, <1>4, AgeCases, Zenon
  <2> QED BY <2>1 DEF TickInv, Settling
<1>5. CASE ~disturbed
  <2>1. select' = select /\ ~Restarted
    BY <1>5
  <2>2. Phase' = IF Phase = 2 * t - 1 THEN 0 ELSE Phase + 1
    BY <2>1, PhasesCount
  <2>3. t' = t /\ (Bit(t)' <=> Phase' >= t)
    <3>1. Bit(Tap[select])' <=> (Phase >= Tap[select])'
      BY <1>2, Phases, PTL
    <3> QED BY <2>1, <3>1
  <2>4. DivNegedge' => Phase' = 0
    BY <1>1, <1>2, <2>1, <2>2, <2>3 DEF DivNegedge
  <2>5. Phase' = 0 => div_tick'
    BY <1>1, <1>2, <2>2
  <2> HIDE DEF t, disturbed
  <2>6. CASE tickAge = Settling
    <3>1. tickAge' = Unknown
      BY <1>0, <1>3, <1>5, <2>6, AgeCases, Zenon
    <3> QED BY <2>4, <3>1 DEF TickInv, Unknown
  <2>7. CASE tickAge # Settling /\ DivNegedge
    <3>1. tickAge' = 1
      BY <1>0, <1>3, <1>5, <2>7, AgeCases, Zenon
    <3>2. Phase = 0
      BY <2>7 DEF TickInv
    <3>3. tickAge' \in 1..(2 * t) /\ Phase' = (IF tickAge' = 2 * t THEN 0 ELSE tickAge')
      BY <1>1, <2>2, <3>1, <3>2
    <3> QED BY <2>3, <2>4, <2>5, <3>3 DEF TickInv, t
  <2>8. CASE tickAge # Settling /\ ~DivNegedge
    <3>1. tickAge' = IF tickAge \in {Unknown, Longest} THEN Unknown ELSE tickAge + 1
      <4> DEFINE next == IF tickAge \in {Unknown, Longest} THEN Unknown ELSE tickAge + 1
      <4>1. Age(DivNegedge, tickAge, disturbed) = next
        BY <1>0, <1>5, <2>8, AgeCases
      <4> QED BY <1>3, <4>1
    <3>2. CASE tickAge \in {Unknown, Longest}
      BY <2>4, <3>1, <3>2 DEF TickInv, Unknown
    <3>3. CASE tickAge \notin {Unknown, Longest}
      <4>1. tickAge \in 1..(2 * t) /\ tickAge' = tickAge + 1
        BY <2>8, <3>1, <3>3 DEF TickInv, t
      <4>2. Phase = (IF tickAge = 2 * t THEN 0 ELSE tickAge) /\ (Phase = 0 => div_tick)
        BY <4>1 DEF TickInv, t
      <4>3. tickAge # 2 * t
        BY <1>1, <2>8, <4>2 DEF DivNegedge, t
      <4>4. tickAge' \in 1..(2 * t) /\ Phase' = (IF tickAge' = 2 * t THEN 0 ELSE tickAge')
        BY <1>1, <2>2, <4>1, <4>2, <4>3
      <4> QED BY <2>3, <2>4, <2>5, <4>4 DEF TickInv, t
    <3> QED BY <3>2, <3>3
  <2> QED BY <2>6, <2>7, <2>8
<1> QED BY <1>4, <1>5

(* The divider keeps its period: left alone, the timer ticks exactly once in
   two weights of the bit selected (Timer.v:86-101). *)
THEOREM TicksKeepTheirPeriod == TimingSpec => []TickPeriod
<1>1. TimingInit => TypeOK /\ TickInv
  <2> SUFFICES ASSUME TimingInit PROVE TypeOK /\ TickInv
    OBVIOUS
  <2>1. TypeOK /\ tickAge = Unknown /\ ~div_tick
    BY TypeInit DEF TimingInit, Init
  <2> QED BY <2>1 DEF TickInv, Unknown, DivNegedge
<1>2. TypeOK /\ TickInv /\ [TimingNext]_<<vars, observers>> => TypeOK' /\ TickInv'
  <2> SUFFICES ASSUME TypeOK, TickInv, [TimingNext]_<<vars, observers>> PROVE TypeOK' /\ TickInv'
    OBVIOUS
  <2>1. CASE TimingNext
    BY <2>1, TypeNext, TickNext DEF TimingNext
  <2>2. CASE UNCHANGED <<vars, observers>>
    <3>1. TypeOK'
      BY <2>2, TypeNext
    <3>2. sys' = sys /\ select' = select /\ div_tick' = div_tick /\ tickAge' = tickAge
      BY <2>2 DEF vars, observers
    <3>3. Phase' = Phase /\ (DivNegedge' <=> DivNegedge)
      BY <3>2 DEF Phase, DivNegedge, Bit
    <3> QED BY <3>1, <3>2, <3>3 DEF TickInv
  <2> QED BY <2>1, <2>2
<1>3. TypeOK /\ TickInv => TickPeriod
  <2> SUFFICES ASSUME TypeOK, TickInv, DivNegedge
               PROVE  tickAge \in {Settling, Unknown, 2 * Tap[select]}
    BY DEF TickPeriod
  <2>1. Tap[select] \in Nat \ {0}
    BY Phases
  <2> QED BY <2>1 DEF TickInv, Settling, Unknown
<1> QED BY <1>1, <1>2, <1>3, PTL DEF TimingSpec

LEMMA ApuNext == TypeOK /\ ApuInv /\ TimingNext => ApuInv'
<1> SUFFICES ASSUME TypeOK, ApuInv, TimingNext PROVE ApuInv'
  OBVIOUS
<1> DEFINE a == ApuTap
           r == ApuPhase
           event == ApuEvent(dbl_spd)
<1>1. /\ a \in Nat \ {0} /\ r \in 0..(4 * a - 1) /\ (Bit(ApuTapDouble) <=> r >= 2 * a)
      /\ (Bit(a) <=> (r \in a..(2 * a - 1) \/ r >= 3 * a))
  BY Phases
<1>2. /\ TypeOK' /\ (apu_stick' <=> Bit(a)) /\ (apu_dtick' <=> Bit(ApuTapDouble))
      /\ apu_stick \in BOOLEAN /\ apu_dtick \in BOOLEAN
  <2>1. TypeOK'
    BY TypeNext DEF TimingNext
  <2>2. apu_stick' = Bit(a) /\ apu_dtick' = Bit(ApuTapDouble)
    BY StepShape, Zenon DEF TimingNext, Watch
  <2> QED BY <2>1, <2>2 DEF TypeOK
<1>3. Restarted \in BOOLEAN /\ apuAge' = Age(event, apuAge, Restarted)
  BY Zenon DEF TimingNext, Restarted
<1>4. CASE Restarted
  <2>1. apuAge' = Settling
    BY <1>3, <1>4, AgeCases, Zenon
  <2> QED BY <2>1 DEF ApuInv, Settling
<1>5. CASE ~Restarted
  <2>1. r' = IF r = 4 * a - 1 THEN 0 ELSE r + 1
    BY <1>5, PhasesCount
  <2>2. /\ Bit(ApuTapDouble)' <=> r' >= 2 * a
        /\ Bit(ApuTap)' <=> (r' \in a..(2 * a - 1) \/ r' >= 3 * a)
    <3>1. /\ (Bit(ApuTapDouble) <=> ApuPhase >= 2 * ApuTap)'
          /\ (Bit(ApuTap) <=> (ApuPhase \in ApuTap..(2 * ApuTap - 1) \/ ApuPhase >= 3 * ApuTap))'
      BY <1>2, Phases, PTL
    <3> QED BY <3>1
  <2> HIDE DEF a, r, event
  <2>3. /\ apu_stick' /\ ~Bit(ApuTap)' => r' \in {0, 2 * a}
        /\ apu_dtick' /\ ~Bit(ApuTapDouble)' => r' = 0
        /\ r' = 0 => apu_stick' /\ apu_dtick'
        /\ r' = 2 * a => apu_stick'
    <3>1. apu_stick' /\ ~Bit(ApuTap)' => r' \in {0, 2 * a}
      BY <1>1, <1>2, <2>1, <2>2
    <3>2. apu_dtick' /\ ~Bit(ApuTapDouble)' => r' = 0
      BY <1>1, <1>2, <2>1, <2>2
    <3> QED BY <1>1, <1>2, <2>1, <3>1, <3>2
  <2>4. CASE apuAge = Settling
    <3>1. apuAge' = Unknown
      BY <1>3, <1>5, <2>4, AgeCases, Zenon
    <3> QED BY <2>3, <3>1 DEF ApuInv, Unknown, a, r
  <2>5. CASE apuAge # Settling /\ event
    <3>1. apuAge' = 1
      BY <1>3, <1>5, <2>5, AgeCases, Zenon
    <3>2. r \in {0, 2 * a}
      BY <2>5 DEF ApuInv, ApuEvent, event, a, r
    <3>3. /\ apuAge' \in 1..(4 * a)
          /\ \/ r' = (IF apuAge' = 4 * a THEN 0 ELSE apuAge')
             \/ /\ apuAge' \in 1..(2 * a)
                /\ r' = (IF apuAge' = 2 * a THEN 0 ELSE apuAge' + 2 * a)
      BY <1>1, <2>1, <3>1, <3>2
    <3> QED BY <2>3, <3>3 DEF ApuInv, a, r
  <2>6. CASE apuAge # Settling /\ ~event
    <3>1. apuAge' = IF apuAge \in {Unknown, Longest} THEN Unknown ELSE apuAge + 1
      <4> DEFINE next == IF apuAge \in {Unknown, Longest} THEN Unknown ELSE apuAge + 1
      <4>1. Age(event, apuAge, Restarted) = next
        BY <1>3, <1>5, <2>6, AgeCases
      <4> QED BY <1>3, <4>1
    <3>2. CASE apuAge \in {Unknown, Longest}
      BY <2>3, <3>1, <3>2 DEF ApuInv, Unknown, a, r
    <3>3. CASE apuAge \notin {Unknown, Longest}
      <4>1. apuAge \in 1..(4 * a) /\ apuAge' = apuAge + 1
        BY <2>6, <3>1, <3>3 DEF ApuInv, a
      <4>2. /\ r = 0 => apu_stick /\ apu_dtick
            /\ r = 2 * a => apu_stick
            /\ \/ r = (IF apuAge = 4 * a THEN 0 ELSE apuAge)
               \/ apuAge \in 1..(2 * a) /\ r = (IF apuAge = 2 * a THEN 0 ELSE apuAge + 2 * a)
        BY <4>1 DEF ApuInv, a, r
      <4>3. r # 0
        <5> SUFFICES ASSUME r = 0 PROVE FALSE
          OBVIOUS
        <5>1. ~Bit(ApuTapDouble) /\ ~Bit(ApuTap)
          BY <1>1 DEF a
        <5> QED BY <2>6, <4>2, <5>1, Zenon DEF ApuEvent, event
      <4>4. /\ apuAge' \in 1..(4 * a)
            /\ \/ r' = (IF apuAge' = 4 * a THEN 0 ELSE apuAge')
               \/ /\ apuAge' \in 1..(2 * a)
                  /\ r' = (IF apuAge' = 2 * a THEN 0 ELSE apuAge' + 2 * a)
        BY <1>1, <2>1, <4>1, <4>2, <4>3
      <4> QED BY <2>3, <4>4 DEF ApuInv, a, r
    <3> QED BY <3>2, <3>3
  <2> QED BY <2>4, <2>5, <2>6
<1> QED BY <1>4, <1>5

(* What a time t of n cycles may be, c changes of the speed among them, when the
   cycle at hand lasts u.  An event passed over in the middle of the slow bit's
   period, half of which is h, was passed over at double speed. *)
TimeBounds(h, n, t, c, u) ==
  /\ n <= t /\ t <= 2 * n
  /\ n > h => t <= 2 * n - 1
  /\ c = 0 => t = IF u = 1 THEN n ELSE 2 * n
  /\ c = 1 /\ n > h => t <= IF u = 1 THEN n + h ELSE 2 * n - h - 1

LEMMA TimeGoesOn ==
  ASSUME NEW h \in Nat \ {0}, NEW n \in Nat \ {0}, NEW t \in Nat, NEW c \in 0..2,
         NEW u \in {1, 2}, NEW v \in {1, 2}, TimeBounds(h, n, t, c, u), n = h => u = 1,
         NEW k \in 0..2, k = IF u = v THEN c ELSE IF c = 2 THEN 2 ELSE c + 1
  PROVE  TimeBounds(h, n + 1, t + u, k, v)
BY SMT DEF TimeBounds

LEMMA TimeStarts ==
  ASSUME NEW h \in Nat \ {0}, NEW u \in {1, 2}, NEW v \in {1, 2},
         NEW k \in 0..2, k = IF u = v THEN 0 ELSE 1
  PROVE  TimeBounds(h, 1, u, k, v)
BY SMT DEF TimeBounds

(* The time since the last event, and an event of the double speed only where
   that of the slow bit is. *)
ApuTimeInv ==
  /\ dbl_spd \in BOOLEAN
  /\ apuAge >= 1 =>
       /\ changes \in 0..2 /\ apuTime \in Nat
       /\ TimeBounds(2 * ApuTap, apuAge, apuTime, changes, Duration)
       /\ changes = 0 /\ dbl_spd => ApuPhase = (IF apuAge = 4 * ApuTap THEN 0 ELSE apuAge)

LEMMA ApuTimeNext == TypeOK /\ ApuInv /\ ApuTimeInv /\ TimingNext => ApuTimeInv'
<1> SUFFICES ASSUME TypeOK, ApuInv, ApuTimeInv, TimingNext PROVE ApuTimeInv'
  OBVIOUS
<1> DEFINE a == ApuTap
           r == ApuPhase
           u == Duration
           event == ApuEvent(dbl_spd)
<1>1. /\ a \in Nat \ {0} /\ r \in 0..(4 * a - 1) /\ (Bit(ApuTapDouble) <=> r >= 2 * a)
      /\ (Bit(a) <=> (r \in a..(2 * a - 1) \/ r >= 3 * a)) /\ 2 * a \in Nat \ {0}
  BY Phases
<1>2. /\ dbl_spd' \in BOOLEAN /\ dbl_spd \in BOOLEAN
      /\ u \in {1, 2} /\ (u = 1 <=> dbl_spd) /\ u' \in {1, 2} /\ (u' = 1 <=> dbl_spd')
  <2>1. dbl_spd' \in BOOLEAN /\ dbl_spd \in BOOLEAN
    BY DEF TimingNext, ApuTimeInv
  <2> QED BY <2>1 DEF Duration
<1>3. Restarted \in BOOLEAN /\ apuAge' = Age(event, apuAge, Restarted)
  BY Zenon DEF TimingNext, Restarted
<1>4. CASE apuAge' \in {Unknown, Settling}
  BY <1>2, <1>4 DEF ApuTimeInv, Unknown, Settling
<1>5. CASE apuAge' \notin {Unknown, Settling}
  <2>1. ~Restarted /\ apuAge # Settling
    BY <1>3, <1>5, AgeCases, Zenon
  <2>2. /\ apuTime' = (IF event THEN 0 ELSE apuTime) + u
        /\ changes' = LET n == (IF event THEN 0 ELSE changes) + IF dbl_spd' = dbl_spd THEN 0 ELSE 1
                      IN  IF n > 2 THEN 2 ELSE n
    BY <1>5 DEF TimingNext, Since
  <2>3. r' = IF r = 4 * a - 1 THEN 0 ELSE r + 1
    BY <2>1, PhasesCount
  <2>4. CASE event
    <3>1. apuAge' = 1
      BY <1>3, <2>1, <2>4, AgeCases, Zenon
    <3>2. apuTime' = u /\ changes' = IF u = u' THEN 0 ELSE 1
      BY <1>2, <2>2, <2>4
    <3>3. TimeBounds(2 * a, 1, apuTime', changes', u')
      <4> DEFINE v == u'
                 k == changes'
      <4>1. k \in 0..2 /\ k = IF u = v THEN 0 ELSE 1
        BY <3>2
      <4> HIDE DEF u, v, k
      <4>2. TimeBounds(2 * a, 1, u, k, v)
        BY <1>1, <1>2, <4>1, TimeStarts DEF v
      <4> QED BY <3>2, <4>2 DEF v, k
    <3>4. changes' = 0 /\ dbl_spd' => r = 0
      <4>1. changes' = 0 /\ dbl_spd' => dbl_spd
        BY <1>2, <3>2
      <4>2. dbl_spd => r = 0
        BY <2>1, <2>4 DEF ApuInv, ApuEvent
      <4> QED BY <4>1, <4>2
    <3>5. r = 0 => r' = 1 /\ 1 # 4 * a
      BY <1>1, <2>3
    <3>6. changes' \in 0..2 /\ apuTime' \in Nat
      BY <1>2, <3>2
    <3> QED BY <1>2, <3>1, <3>3, <3>4, <3>5, <3>6 DEF ApuTimeInv
  <2>5. CASE ~event
    <3>1. apuAge \in 1..(4 * a) /\ apuAge' = apuAge + 1
      <4>1. Age(event, apuAge, Restarted) = IF apuAge \in {Unknown, Longest} THEN Unknown ELSE apuAge + 1
        BY <1>3, <2>1, <2>5, AgeCases
      <4> QED BY <1>3, <1>5, <2>1, <4>1 DEF ApuInv
    <3>2. /\ changes \in 0..2 /\ apuTime \in Nat /\ TimeBounds(2 * a, apuAge, apuTime, changes, u)
          /\ changes = 0 /\ dbl_spd => r = (IF apuAge = 4 * a THEN 0 ELSE apuAge)
      BY <3>1 DEF ApuTimeInv
    <3>3. /\ r = 0 => apu_stick /\ apu_dtick
          /\ r = 2 * a => apu_stick
          /\ \/ r = (IF apuAge = 4 * a THEN 0 ELSE apuAge)
             \/ apuAge \in 1..(2 * a) /\ r = (IF apuAge = 2 * a THEN 0 ELSE apuAge + 2 * a)
      BY <3>1 DEF ApuInv
    <3>4. r # 0
      <4> SUFFICES ASSUME r = 0 PROVE FALSE
        OBVIOUS
      <4> HIDE DEF a, r
      <4>1. ~Bit(ApuTapDouble) /\ ~Bit(ApuTap)
        BY <1>1 DEF a
      <4> QED BY <2>5, <3>3, <4>1, Zenon DEF ApuEvent, event
    <3>5. r = 2 * a => u = 1
      <4> SUFFICES ASSUME r = 2 * a, ~dbl_spd PROVE FALSE
        BY <1>2
      <4> HIDE DEF a, r
      <4>1. ~Bit(ApuTap)
        BY <1>1 DEF a
      <4> QED BY <2>5, <3>3, <4>1, Zenon DEF ApuEvent, event
    <3> HIDE DEF a, r, u, event
    <3>6. apuAge = 2 * a => u = 1
      BY <1>1, <3>1, <3>3, <3>4, <3>5
    <3>7. /\ apuTime' = apuTime + u /\ apuTime' \in Nat /\ changes' \in 0..2
          /\ changes' = IF u = u' THEN changes ELSE IF changes = 2 THEN 2 ELSE changes + 1
      BY <1>2, <2>2, <2>5, <3>2
    <3>8. TimeBounds(2 * a, apuAge + 1, apuTime + u, changes', u')
      <4> DEFINE v == u'
                 k == changes'
      <4> HIDE DEF v, k
      <4>1. v \in {1, 2} /\ k \in 0..2 /\ k = IF u = v THEN changes ELSE IF changes = 2 THEN 2 ELSE changes + 1
        BY <1>2, <3>7 DEF v, k
      <4>2. TimeBounds(2 * a, apuAge + 1, apuTime + u, k, v)
        <5>1. 2 * a \in Nat \ {0} /\ apuAge \in Nat \ {0} /\ u \in {1, 2}
          BY <1>1, <1>2, <3>1
        <5> QED BY <3>2, <3>6, <4>1, <5>1, TimeGoesOn
      <4> QED BY <4>2 DEF v, k
    <3>9. changes' = 0 /\ dbl_spd' => r' = (IF apuAge' = 4 * a THEN 0 ELSE apuAge')
      <4>1. changes' = 0 /\ dbl_spd' => changes = 0 /\ dbl_spd
        BY <1>2, <3>2, <3>7
      <4> QED BY <1>1, <2>3, <3>1, <3>2, <3>4, <4>1
    <3> QED BY <1>2, <3>1, <3>7, <3>8, <3>9 DEF ApuTimeInv, a, r, u
  <2> QED BY <2>4, <2>5
<1> QED BY <1>4, <1>5

(* An APU event comes exactly when a whole period has passed since the last one at
   an unchanged speed, fast or slow; one change of the speed moves it by at most
   half a period, and more of them by less than one (Timer.v:70-84). *)
THEOREM ApuEventsKeepTheirPeriod == TimingSpec => []ApuPeriod
<1>1. TimingInit => TypeOK /\ ApuInv /\ ApuTimeInv
  <2> SUFFICES ASSUME TimingInit PROVE TypeOK /\ ApuInv /\ ApuTimeInv
    OBVIOUS
  <2>1. TypeOK /\ apuAge = Unknown /\ ~apu_stick /\ ~apu_dtick /\ dbl_spd \in BOOLEAN
    BY TypeInit DEF TimingInit, Init
  <2> QED BY <2>1 DEF ApuInv, ApuTimeInv, Unknown
<1>2. TypeOK /\ ApuInv /\ ApuTimeInv /\ [TimingNext]_<<vars, observers>>
        => TypeOK' /\ ApuInv' /\ ApuTimeInv'
  <2> SUFFICES ASSUME TypeOK, ApuInv, ApuTimeInv, [TimingNext]_<<vars, observers>>
               PROVE  TypeOK' /\ ApuInv' /\ ApuTimeInv'
    OBVIOUS
  <2>1. CASE TimingNext
    BY <2>1, TypeNext, ApuNext, ApuTimeNext DEF TimingNext
  <2>2. CASE UNCHANGED <<vars, observers>>
    <3>1. TypeOK'
      BY <2>2, TypeNext
    <3>2. sys' = sys /\ apu_stick' = apu_stick /\ apu_dtick' = apu_dtick /\ UNCHANGED observers
      BY <2>2 DEF vars
    <3>3. ApuPhase' = ApuPhase /\ Bit(ApuTap)' = Bit(ApuTap)
          /\ Bit(ApuTapDouble)' = Bit(ApuTapDouble) /\ Duration' = Duration
      BY <3>2 DEF ApuPhase, Bit, observers, Duration
    <3>4. ApuInv'
      BY <3>2, <3>3 DEF ApuInv, observers
    <3>5. ApuTimeInv'
      BY <3>2, <3>3 DEF ApuTimeInv, observers
    <3> QED BY <3>1, <3>4, <3>5
  <2> QED BY <2>1, <2>2
<1>3. TypeOK /\ ApuInv /\ ApuTimeInv => ApuPeriod
  <2> SUFFICES ASSUME TypeOK, ApuInv, ApuTimeInv, apuAge \notin {Settling, Unknown}
               PROVE  ApuPeriod
    BY DEF ApuPeriod
  <2> DEFINE a == ApuTap
             r == ApuPhase
             event == ApuEvent(dbl_spd)
  <2>1. /\ a \in Nat \ {0} /\ ApuTapDouble = 2 * a /\ r \in 0..(4 * a - 1)
        /\ (Bit(ApuTapDouble) <=> r >= 2 * a)
        /\ (Bit(a) <=> (r \in a..(2 * a - 1) \/ r >= 3 * a))
    BY Phases
  <2>2. apuAge \in 1..(4 * a)
    BY DEF ApuInv
  <2>3. /\ \/ r = (IF apuAge = 4 * a THEN 0 ELSE apuAge)
           \/ apuAge \in 1..(2 * a) /\ r = (IF apuAge = 2 * a THEN 0 ELSE apuAge + 2 * a)
        /\ r = 0 => apu_stick /\ apu_dtick
        /\ r = 2 * a => apu_stick
        /\ event => IF dbl_spd THEN r = 0 ELSE r \in {0, 2 * a}
    BY <2>2 DEF ApuInv, ApuEvent
  <2>4. /\ changes \in 0..2 /\ apuTime \in Nat /\ dbl_spd \in BOOLEAN
        /\ TimeBounds(2 * a, apuAge, apuTime, changes, IF dbl_spd THEN 1 ELSE 2)
        /\ changes = 0 /\ dbl_spd => r = (IF apuAge = 4 * a THEN 0 ELSE apuAge)
    BY <2>2 DEF ApuTimeInv, Duration
  <2> HIDE DEF a, r
  <2>5. (IF dbl_spd THEN r = 0 ELSE r \in {0, 2 * a}) => event
    <3>1. r = 0 => ~Bit(ApuTapDouble) /\ ~Bit(a)
      BY <2>1
    <3>2. r = 2 * a => ~Bit(a)
      BY <2>1
    <3> QED BY <2>3, <2>4, <3>1, <3>2, Zenon DEF ApuEvent, a
  <2> HIDE DEF event
  <2>6. event <=> IF dbl_spd THEN r = 0 ELSE r \in {0, 2 * a}
    BY <2>3, <2>5
  <2>7. /\ changes = 0 => (event <=> apuTime = 4 * a)
        /\ changes > 0 /\ event => 2 * apuTime >= 4 * a
        /\ changes = 1 => IF event THEN 2 * apuTime <= 12 * a ELSE 2 * apuTime < 12 * a
        /\ changes = 2 => apuTime < 8 * a
    <3>1. CASE dbl_spd
      BY <2>1, <2>2, <2>3, <2>4, <2>6, <3>1 DEF TimeBounds
    <3>2. CASE ~dbl_spd
      BY <2>1, <2>2, <2>3, <2>4, <2>6, <3>2 DEF TimeBounds
    <3> QED BY <3>1, <3>2
  <2>8. ApuPeriodTime = 4 * a /\ 3 * ApuPeriodTime = 12 * a /\ 2 * ApuPeriodTime = 8 * a
    BY <2>1 DEF ApuPeriodTime
  <2> QED BY <2>7, <2>8 DEF ApuPeriod, event
<1> QED BY <1>1, <1>2, <1>3, PTL DEF TimingSpec
=============================================================================
