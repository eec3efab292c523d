----------------------------- MODULE CoreTiming -----------------------------
(***************************************************************************)
(* Core with three history variables, for the promises that are about how  *)
(* long something takes.  They observe the core and never guide it.        *)
(***************************************************************************)
EXTENDS Core

CONSTANT MaxCount        \* the observers stop counting here

(* Longer than the longest machine cycle and than the longest instruction: no
   promise below holds because the counting stopped. *)
ASSUME CountAssumption == MaxCount \in Nat /\ MaxCount > 5

VARIABLES
  dots,      \* dots of the current machine cycle so far
  pace,      \* the speed at which the current machine cycle began
  late       \* machine cycles ended with an interrupt due and not taken

observers == <<dots, pace, late>>

Interrupted == -1        \* by the HDMA engine, which lets the phase run on

Count(n) == IF n < MaxCount THEN n + 1 ELSE n

TimingInit == Init /\ dots = 3 /\ pace = FALSE /\ late = 0

Due == IME /\ Pending # {} /\ ~service

Observe ==
  IF CommitStep
  THEN /\ dots' = 0
       /\ pace' = speed'
       /\ late' = IF Due /\ ~service' THEN Count(late) ELSE 0
  ELSE /\ dots' = IF hstate' = "SEND" \/ hstate = "SEND" \/ dots = Interrupted
                  THEN Interrupted ELSE Count(dots)
       /\ UNCHANGED <<pace, late>>

TimingNext == Next /\ Observe

TimingSpec == TimingInit /\ [][TimingNext]_<<vars, observers>>

(* A machine cycle of a processor that is awake, and not held by the HDMA
   engine, takes four dots at normal speed and two at double speed, and the
   speed at its beginning decides, even when the cycle itself writes KEY1 or
   the phase counter is past the new limit when the speed changes (Core.v:260
   and 347-352). *)
CycleLength ==
  [][(CommitStep /\ ~Halted /\ ~Stopped)
       => dots \in {Interrupted, IF pace THEN 1 ELSE 3}]_<<vars, observers>>

(* An interrupt that is due is taken at the latest when the longest
   instruction, six machine cycles, ends. *)
InterruptLatency == late <= 5

(* "1 = next stop instruction will switch clock speeds" (hardware.inc:579):
   the speed after an armed stop is not the one before it. *)
StopSwitchesSpeed ==
  [][(CommitStep /\ Raised("stop") /\ armed) => speed' # pace]_<<vars, observers>>
=============================================================================
