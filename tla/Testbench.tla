----------------------------- MODULE Testbench -----------------------------
(***************************************************************************)
(* The main loop of main.cpp, one pass per dot, with what it does besides  *)
(* the picture: it clocks the joypad port (Joypad.v) and drives its lines, *)
(* polls the keyboard, and hands the APU's output to the audio device,     *)
(* itself or, compiled with THREAD_AUDIO, through a queue to a worker.     *)
(* The loop ends on a quit event or, with CYCLE_LIMIT, after MAX_CYCLES.   *)
(***************************************************************************)
EXTENDS Naturals, Sequences

CONSTANTS
  MAX_CYCLES,
  PollDots,      \* the keyboard is polled every so many dots: 456
  P, Q,          \* cycles_per_sample = P / Q
  Block,         \* samples handed to the device at a time: 256, as sample_idx has 8 bits
  Lines          \* of the four wires to the joypad port

ASSUME TestbenchAssumption ==
  /\ MAX_CYCLES \in Nat \ {0} /\ PollDots \in Nat \ {0}
  /\ P \in Nat \ {0} /\ Q \in 1..P /\ Block \in Nat \ {0}

Groups == {"buttons", "dpad"}

VARIABLES
  main, cycle, threaded,
  selected, low, pins,      \* JOYP_reg[5:4] and [3:0], the wires; low ones
  keys,                     \* the flags up, down, ... of main
  wrote,                    \* history: the last dot wrote JOYP
  q, keepRunning, worker, f,
  acc, samples,             \* sample_accumulator in units of 1 / Q
  blocks, block,            \* history: the blocks put, and the last
  missed                    \* history: the worker was past its test when notified

joypad == <<selected, low, pins, keys, wrote>>
stream == <<acc, samples, blocks, block>>
vars == <<main, cycle, threaded, joypad, q, keepRunning, worker, f, stream, missed>>

(* Wires low: keys held down in a selected group. *)
Low(sel, held) == {l \in Lines : \E g \in sel : <<g, l>> \in held}

----------------------------------------------------------------------------

Full == acc >= P

Sample(n) ==
  IF Full
    THEN IF Len(samples) = Block - 1
           THEN blocks' = blocks + 1 /\ block' = Append(samples, n) /\ samples' = <<>>
           ELSE samples' = Append(samples, n) /\ UNCHANGED <<blocks, block>>
    ELSE UNCHANGED <<samples, blocks, block>>

(* Faulty variants: the sum starts again at each sample; the sum is not reduced. *)
FilterDrift(n) == acc' = (IF Full THEN 0 ELSE acc + Q) /\ Sample(n)

FilterUnreduced(n) == acc' = acc + Q /\ Sample(n)

(* A frame goes through the filters, and one in P / Q becomes a sample.  The sum
   is compared before it is stepped. *)
Filter(n) == acc' = (IF Full THEN acc + Q - P ELSE acc + Q) /\ Sample(n)

(* The rising edge: the port takes the wires and, in a machine cycle that writes
   JOYP, the selection. *)
Edge ==
  /\ main = "edge" /\ main' = "audio"
  /\ low' = pins
  /\ \/ \E s \in SUBSET Groups : selected' = s /\ wrote' = TRUE
     \/ UNCHANGED selected /\ wrote' = FALSE
  /\ UNCHANGED <<cycle, threaded, pins, keys, q, keepRunning, worker, f, stream, missed>>

Inline ==
  /\ main = "audio" /\ ~threaded /\ main' = "poll"
  /\ Filter(cycle + 1)
  /\ UNCHANGED <<cycle, threaded, joypad, q, keepRunning, worker, f, missed>>

(* A faulty variant: the predicate is tested before the mutex is taken. *)
LockedToTake == worker = "take"

(* The worker has the mutex. *)
Locked == worker \in {"take", "wait"}

Push ==
  /\ main = "audio" /\ threaded /\ ~Locked /\ main' = "notify"
  /\ q' = Append(q, cycle + 1)
  /\ UNCHANGED <<cycle, threaded, joypad, keepRunning, worker, f, stream, missed>>

Woken == IF worker = "asleep" THEN "lock" ELSE worker

Notify ==
  /\ main = "notify" /\ main' = "poll"
  /\ worker' = Woken
  /\ UNCHANGED <<cycle, threaded, joypad, q, keepRunning, f, stream, missed>>

Finish == IF threaded THEN "stop" ELSE "end"

(* A faulty variant: a wire once low is not driven high again. *)
DriveKept == pins' = pins \union Low(selected, keys')

Drive == pins' = Low(selected, keys')

(* The rest of a pass: the events since the last poll, the wires, the test of the
   loop. *)
Poll ==
  /\ main = "poll"
  /\ \E held \in SUBSET (Groups \X Lines), quit \in BOOLEAN :
       /\ cycle % PollDots # 0 => held = keys /\ ~quit
       /\ keys' = held
       /\ main' = IF quit \/ cycle + 1 = MAX_CYCLES THEN Finish ELSE "edge"
  /\ Drive
  /\ cycle' = cycle + 1
  /\ UNCHANGED <<threaded, selected, low, wrote, q, keepRunning, worker, f, stream, missed>>

(* keepRunning is cleared without the mutex. *)
Stop ==
  /\ main = "stop" /\ main' = "notify_all"
  /\ keepRunning' = FALSE
  /\ UNCHANGED <<cycle, threaded, joypad, q, worker, f, stream, missed>>

NotifyAll ==
  /\ main = "notify_all" /\ main' = "join"
  /\ worker' = Woken
  /\ missed' = (worker = "wait")
  /\ UNCHANGED <<cycle, threaded, joypad, q, keepRunning, f, stream>>

Join ==
  /\ main = "join" /\ worker = "done" /\ main' = "end"
  /\ UNCHANGED <<cycle, threaded, joypad, q, keepRunning, worker, f, stream, missed>>

----------------------------------------------------------------------------

worker_unchanged == UNCHANGED <<main, cycle, threaded, joypad, keepRunning, missed>>

Test ==
  /\ worker = "test"
  /\ worker' = IF keepRunning THEN "lock" ELSE "done"
  /\ UNCHANGED <<q, f, stream>> /\ worker_unchanged

(* A faulty variant: the predicate looks at the queue only. *)
LockFrames ==
  /\ worker = "lock"
  /\ worker' = IF q # <<>> THEN "take" ELSE "wait"
  /\ UNCHANGED <<q, f, stream>> /\ worker_unchanged

(* The mutex is taken, and the predicate of wait tested. *)
Lock ==
  /\ worker = "lock"
  /\ worker' = IF q # <<>> \/ ~keepRunning THEN "take" ELSE "wait"
  /\ UNCHANGED <<q, f, stream>> /\ worker_unchanged

(* The mutex is released and the thread put to sleep in one step. *)
Sleep ==
  /\ worker = "wait" /\ worker' = "asleep"
  /\ UNCHANGED <<q, f, stream>> /\ worker_unchanged

Spurious ==
  /\ worker = "asleep" /\ worker' = "lock"
  /\ UNCHANGED <<q, f, stream>> /\ worker_unchanged

Take ==
  /\ worker = "take"
  /\ IF keepRunning
       THEN worker' = "filter" /\ f' = Head(q) /\ q' = Tail(q)
       ELSE worker' = "done" /\ UNCHANGED <<f, q>>
  /\ UNCHANGED stream /\ worker_unchanged

Play ==
  /\ worker = "filter" /\ worker' = "test"
  /\ Filter(f)
  /\ UNCHANGED <<q, f>> /\ worker_unchanged

----------------------------------------------------------------------------

(* The port is reset with both groups selected. *)
Init ==
  /\ main = "edge" /\ cycle = 0 /\ threaded \in BOOLEAN
  /\ selected = Groups /\ low = {} /\ pins = {} /\ keys = {} /\ wrote = FALSE
  /\ q = <<>> /\ keepRunning = TRUE /\ f = 0
  /\ worker = IF threaded THEN "test" ELSE "done"
  /\ acc = 0 /\ samples = <<>> /\ blocks = 0 /\ block = <<>> /\ missed = FALSE

MainStep == Edge \/ Inline \/ Push \/ Notify \/ Poll \/ Stop \/ NotifyAll \/ Join
WorkerStep == Test \/ Lock \/ Sleep \/ Take \/ Play

(* The process has ended. *)
Ended == main = "end" /\ UNCHANGED vars

Next == MainStep \/ WorkerStep \/ Spurious \/ Ended

(* The system runs both threads.  The mutex is not fair, and no thread need be
   woken that was not notified. *)
Fairness == WF_vars(MainStep) /\ WF_vars(WorkerStep)

Spec == Init /\ [][Next]_vars /\ Fairness

----------------------------------------------------------------------------

TypeOK ==
  /\ main \in {"edge", "audio", "notify", "poll", "stop", "notify_all", "join", "end"}
  /\ worker \in {"test", "lock", "take", "wait", "asleep", "filter", "done"}
  /\ cycle \in 0..MAX_CYCLES /\ threaded \in BOOLEAN
  /\ selected \subseteq Groups /\ low \subseteq Lines /\ pins \subseteq Lines
  /\ keys \subseteq Groups \X Lines
  /\ keepRunning \in BOOLEAN /\ wrote \in BOOLEAN /\ missed \in BOOLEAN
  /\ q \in Seq(1..MAX_CYCLES) /\ f \in 0..MAX_CYCLES
  /\ acc \in 0..(P + Q - 1) /\ Len(samples) < Block

Played == INSTANCE AudioStream

(* The device gets every sample once, in order and at the right rate, in whole
   blocks, whether main filters the frames or the worker does and however far that
   lags behind (main.cpp:577-594, 878-913). *)
ImplementsAudioStream == Played!Spec

(* The worker never sleeps on a frame for which no notification is on its way
   (main.cpp:577-582, 892-899). *)
NoSleepOverFrames == worker = "asleep" /\ q # <<>> => main = "notify" \/ ~keepRunning

(* At the end main gets the worker back and goes on to the destructors, which save
   the cartridge, but for one interleaving: keepRunning is cleared and notified
   between the worker's test and its sleep (main.cpp:849-853, 893). *)
JoinReturns == (main = "join" /\ ~missed) ~> (main = "end")

(* One dot after a write to JOYP its low bits are the keys held in the selected
   group, and none of the other (Joypad.v:22, main.cpp:754-774). *)
ButtonsShown ==
  main \in {"audio", "notify", "poll"} /\ ~wrote => low = Low(selected, keys)
=============================================================================
