-------------------------- MODULE Testbench_proofs --------------------------
(* What holds of Testbench for any rate, block size and keyboard. *)
EXTENDS Testbench, Integers, TLAPS

Loop == {"edge", "audio", "notify", "poll"}

(* The types, which tell how long the loop goes on and what the worker's last look
   at the queue is still worth. *)
TypeInv ==
  /\ TypeOK
  /\ samples \in Seq(Nat) /\ blocks \in Nat
  /\ main \in Loop => cycle < MAX_CYCLES
  /\ worker = "take" => q # <<>> \/ ~keepRunning
  /\ worker = "wait" => q = <<>>
  /\ ~threaded => worker = "done"
  /\ main = "notify" => threaded

(* The sum stays in range: it is reduced when it is high enough. *)
LEMMA Stepped ==
  ASSUME acc \in 0..(P + Q - 1), samples \in Seq(Nat), blocks \in Nat, Len(samples) < Block,
         NEW n \in Nat, Filter(n)
  PROVE  /\ acc' \in 0..(P + Q - 1)
         /\ samples' \in Seq(Nat) /\ blocks' \in Nat /\ Len(samples') < Block
<1> USE TestbenchAssumption
<1>1. acc' \in 0..(P + Q - 1)
  BY SMT DEF Filter, Full
<1>2. CASE Full /\ Len(samples) = Block - 1
  BY <1>1, <1>2, SMT DEF Filter, Sample
<1>3. CASE Full /\ Len(samples) # Block - 1
  BY <1>1, <1>3, SMT DEF Filter, Sample
<1>4. CASE ~Full
  BY <1>1, <1>4, SMT DEF Filter, Sample
<1> QED BY <1>2, <1>3, <1>4

Flags == threaded \in BOOLEAN /\ keepRunning \in BOOLEAN /\ wrote \in BOOLEAN /\ missed \in BOOLEAN

LEMMA InitTyped == Init => TypeInv
<1> SUFFICES ASSUME Init PROVE TypeInv
  OBVIOUS
<1> USE TestbenchAssumption
<1>1. Flags
  BY Zenon DEF Flags, Init
<1>2. worker \in {"test", "done"} /\ (~threaded => worker = "done")
  BY DEF Init
<1>3. /\ selected \subseteq Groups /\ low \subseteq Lines /\ pins \subseteq Lines
      /\ keys \subseteq Groups \X Lines
  BY DEF Init
<1>4. main = "edge" /\ cycle = 0 /\ q = <<>> /\ f = 0 /\ acc = 0 /\ samples = <<>> /\ blocks = 0
  BY DEF Init
<1>5. q \in Seq(1..MAX_CYCLES) /\ samples \in Seq(Nat) /\ Len(samples) < Block
  BY <1>4, SMT
<1> QED BY <1>1, <1>2, <1>3, <1>4, <1>5, SMT DEF TypeInv, TypeOK, Loop, Flags

LEMMA StepTyped == TypeInv /\ [Next]_vars => TypeInv'
<1> SUFFICES ASSUME TypeInv, [Next]_vars PROVE TypeInv'
  OBVIOUS
<1> USE TestbenchAssumption DEF TypeInv, TypeOK, Loop
<1>1. CASE UNCHANGED vars
  BY <1>1 DEF vars, joypad, stream
<1>2. CASE Edge
  <2>1. selected' \subseteq Groups /\ low' \subseteq Lines /\ wrote' \in BOOLEAN
    BY <1>2, Zenon DEF Edge
  <2> QED BY <1>2, <2>1, SMT DEF Edge, stream
<1>3. CASE Inline
  <2>1. cycle + 1 \in Nat /\ Filter(cycle + 1)
    BY <1>3 DEF Inline
  <2>2. /\ acc' \in 0..(P + Q - 1)
        /\ samples' \in Seq(Nat) /\ blocks' \in Nat /\ Len(samples') < Block
    BY <2>1, Stepped
  <2> QED BY <1>3, <2>2 DEF Inline, joypad
<1>4. CASE Push
  <2>1. q' \in Seq(1..MAX_CYCLES)
    BY <1>4, SMT DEF Push
  <2> QED BY <1>4, <2>1, SMT DEF Push, Locked, joypad, stream
<1>5. CASE Notify
  BY <1>5, SMT DEF Notify, Woken, joypad, stream
<1>6. CASE Poll
  BY <1>6, SMT DEF Poll, Drive, Finish, Low, stream
<1>7. CASE Stop
  <2>1. keepRunning' \in BOOLEAN
    BY <1>7, Zenon DEF Stop
  <2>2. worker' = "take" => ~keepRunning'
    BY <1>7 DEF Stop
  <2> QED BY <1>7, <2>1, <2>2, SMT DEF Stop, joypad, stream
<1>8. CASE NotifyAll
  <2>1. missed' \in BOOLEAN
    BY <1>8, Zenon DEF NotifyAll
  <2> QED BY <1>8, <2>1, SMT DEF NotifyAll, Woken, joypad, stream
<1>9. CASE Join
  BY <1>9, SMT DEF Join, joypad, stream
<1>10. CASE Test
  BY <1>10, SMT DEF Test, worker_unchanged, joypad, stream
<1>11. CASE Lock
  BY <1>11, SMT DEF Lock, worker_unchanged, joypad, stream
<1>12. CASE Sleep
  BY <1>12, SMT DEF Sleep, worker_unchanged, joypad, stream
<1>13. CASE Spurious
  BY <1>13, SMT DEF Spurious, worker_unchanged, joypad, stream
<1>14. CASE Take
  <2>1. keepRunning => Head(q) \in 1..MAX_CYCLES /\ Tail(q) \in Seq(1..MAX_CYCLES)
    BY <1>14, SMT DEF Take
  <2>2. CASE keepRunning
    <3>1. worker' = "filter" /\ f' = Head(q) /\ q' = Tail(q)
      BY <1>14, <2>2 DEF Take
    <3>2. threaded' /\ threaded
      BY <1>14 DEF Take, worker_unchanged
    <3> QED BY <1>14, <2>1, <2>2, <3>1, <3>2, SMT DEF Take, worker_unchanged, joypad, stream
  <2>3. CASE ~keepRunning
    BY <1>14, <2>3, SMT DEF Take, worker_unchanged, joypad, stream
  <2> QED BY <2>2, <2>3
<1>15. CASE Play
  <2>1. /\ acc' \in 0..(P + Q - 1)
        /\ samples' \in Seq(Nat) /\ blocks' \in Nat /\ Len(samples') < Block
    BY <1>15, Stepped, f \in Nat DEF Play
  <2> QED BY <1>15, <2>1, SMT DEF Play, worker_unchanged, joypad
<1>16. CASE Ended
  BY <1>16 DEF Ended, vars, joypad, stream
<1> QED BY <1>1, <1>2, <1>3, <1>4, <1>5, <1>6, <1>7, <1>8, <1>9, <1>10, <1>11, <1>12, <1>13,
           <1>14, <1>15, <1>16 DEF Next, MainStep, WorkerStep

(* The types of the testbench's state, the accumulator within one sample and one
   step and less than a block of samples collected (main.cpp:904-910). *)
THEOREM TestbenchTyped == Spec => []TypeOK
<1>1. TypeInv => TypeOK
  BY DEF TypeInv
<1> QED BY <1>1, InitTyped, StepTyped, PTL DEF Spec

----------------------------------------------------------------------------

(* The worker looked at an empty queue before it slept, and each later frame is
   followed by a notification. *)
LEMMA StepNoSleep ==
  TypeInv /\ NoSleepOverFrames /\ [Next]_vars => NoSleepOverFrames'
<1> SUFFICES ASSUME TypeInv, NoSleepOverFrames, [Next]_vars PROVE NoSleepOverFrames'
  OBVIOUS
<1> USE DEF NoSleepOverFrames
<1>1. CASE UNCHANGED vars \/ Ended
  BY <1>1 DEF Ended, vars
<1>2. CASE Edge \/ Inline \/ Poll \/ Join \/ NotifyAll
  BY <1>2 DEF Edge, Inline, Poll, Join, NotifyAll, Woken
<1>3. CASE Push
  BY <1>3 DEF Push
<1>4. CASE Notify
  BY <1>4 DEF Notify, Woken
<1>5. CASE Stop
  BY <1>5 DEF Stop
<1>6. CASE Sleep
  BY <1>6 DEF Sleep, TypeInv
<1>7. CASE Test \/ Lock \/ Spurious \/ Take \/ Play
  BY <1>7 DEF Test, Lock, Spurious, Take, Play
<1> QED BY <1>1, <1>2, <1>3, <1>4, <1>5, <1>6, <1>7 DEF Next, MainStep, WorkerStep

(* However many frames go through the queue, the worker never sleeps on one for
   which no notification is on its way (main.cpp:577-582, 892-899). *)
THEOREM NeverSleepsOverFrames == Spec => []NoSleepOverFrames
<1>1. Init => NoSleepOverFrames
  BY DEF Init, NoSleepOverFrames
<1> QED BY <1>1, InitTyped, StepTyped, StepNoSleep, PTL DEF Spec

(* The wires follow the selection and the keys at the end of each pass. *)
WiresInv ==
  /\ ButtonsShown
  /\ main = "edge" => pins = Low(selected, keys)

LEMMA StepWires == WiresInv /\ [Next]_vars => WiresInv'
<1> SUFFICES ASSUME WiresInv, [Next]_vars PROVE WiresInv'
  OBVIOUS
<1> USE DEF WiresInv, ButtonsShown, Low
<1>1. CASE UNCHANGED vars \/ Ended
  BY <1>1 DEF Ended, vars, joypad
<1>2. CASE Edge
  BY <1>2 DEF Edge
<1>3. CASE Inline \/ Push \/ Notify \/ Stop \/ NotifyAll \/ Join
  BY <1>3 DEF Inline, Push, Notify, Stop, NotifyAll, Join, joypad
<1>4. CASE Poll
  BY <1>4 DEF Poll, Drive, Finish
<1>5. CASE Test \/ Lock \/ Sleep \/ Spurious \/ Take \/ Play
  BY <1>5 DEF Test, Lock, Sleep, Spurious, Take, Play, worker_unchanged, joypad
<1> QED BY <1>1, <1>2, <1>3, <1>4, <1>5 DEF Next, MainStep, WorkerStep

(* For any set of wires and any polling interval, the port shows the keys of the
   selected group and of no other (Joypad.v:22, main.cpp:754-774). *)
THEOREM ShowsButtons == Spec => []ButtonsShown
<1>1. Init => WiresInv
  BY DEF Init, WiresInv, ButtonsShown, Low
<1>2. WiresInv => ButtonsShown
  BY DEF WiresInv
<1> QED BY <1>1, <1>2, StepWires, PTL DEF Spec
----------------------------------------------------------------------------

InHand == IF worker = "filter" THEN 1 ELSE 0

(* Frames that have gone through the filters: those of the passes so far but the
   queued ones and the worker's. *)
Filtered == cycle + (IF main \in {"notify", "poll"} THEN 1 ELSE 0) - Len(q) - InHand

Count == blocks * Block + Len(samples)

(* The accumulator is the exact distance of the frames to the samples. *)
Exact(n) ==
  /\ acc + Count * P = n * Q
  /\ \A i \in 1..Len(samples) : samples[i] = Played!Frame(blocks * Block + i)

(* The queue holds the frames from the last filtered one to the last pass, none
   missing and none twice. *)
StreamInv ==
  /\ Exact(Filtered)
  /\ worker = "filter" => f = Filtered + 1
  /\ \A i \in 1..Len(q) : q[i] = Filtered + InHand + i
  /\ ~threaded => q = <<>>

LEMMA Quotient ==
  ASSUME NEW x \in Nat, NEW n \in Nat, NEW d \in Nat \ {0}, NEW r \in 0..(d - 1), x = d * n + r
  PROVE  x \div d = n
BY SMT

(* When the sum has reached one sample, the next frame is the sample's. *)
LEMMA FrameOf ==
  ASSUME NEW n \in Nat, NEW k \in Nat, NEW a \in P..(P + Q - 1), a + k * P = n * Q
  PROVE  Played!Frame(k + 1) = n + 1
<1> USE TestbenchAssumption
<1> DEFINE x == (k + 1) * P + Q - 1
<1>1. (k + 1) * P = k * P + P /\ n * Q = Q * n /\ k * P \in Nat /\ Q * n \in Nat
  BY SMT
<1>2. x = Q * n + (P + Q - 1 - a) /\ P + Q - 1 - a \in 0..(Q - 1) /\ x \in Nat
  BY <1>1, SMT
<1>3. x \div Q = n
  BY <1>2, Quotient
<1> QED BY <1>3 DEF Played!Frame

(* One more frame keeps the sum exact, and completes at most one block. *)
LEMMA FilterExact ==
  ASSUME acc \in 0..(P + Q - 1), samples \in Seq(Nat), blocks \in Nat, Len(samples) < Block,
         NEW n \in Nat, Exact(n), Filter(n + 1)
  PROVE  Exact(n + 1)' /\ [Played!Put]_<<blocks, block>>
<1> USE TestbenchAssumption
<1>1. /\ blocks * Block \in Nat /\ Count \in Nat /\ Count * P \in Nat /\ n * Q \in Nat
      /\ (n + 1) * Q = n * Q + Q /\ (Count + 1) * P = Count * P + P
      /\ (blocks + 1) * Block = blocks * Block + Block
  BY SMT DEF Count
<1>2. CASE ~Full
  <2>1. acc' = acc + Q /\ samples' = samples /\ blocks' = blocks /\ block' = block
    BY <1>2 DEF Filter, Sample
  <2>2. Count' = Count
    BY <2>1 DEF Count
  <2>3. acc' + Count' * P = (n + 1) * Q
    BY <1>1, <2>1, <2>2, SMT DEF Exact
  <2> QED BY <2>1, <2>3 DEF Exact
<1>3. CASE Full
  <2>1. acc' = acc + Q - P /\ acc \in P..(P + Q - 1)
    BY <1>3, SMT DEF Filter, Full
  <2>2. Played!Frame(Count + 1) = n + 1
    BY <1>1, <2>1, FrameOf DEF Exact
  <2>3. CASE Len(samples) # Block - 1
    <3>1. samples' = Append(samples, n + 1) /\ blocks' = blocks /\ block' = block
      BY <1>3, <2>3 DEF Filter, Sample
    <3>2. Len(samples') = Len(samples) + 1 /\ Count' = Count + 1
      BY <1>1, <3>1, SMT DEF Count
    <3>3. acc' + Count' * P = (n + 1) * Q
      BY <1>1, <2>1, <3>2, SMT DEF Exact
    <3>4. ASSUME NEW i \in 1..Len(samples')
          PROVE  samples'[i] = Played!Frame(blocks * Block + i)
      <4>1. CASE i = Len(samples) + 1
        BY <2>2, <3>1, <4>1, SMT DEF Count
      <4>2. CASE i \in 1..Len(samples)
        BY <3>1, <4>2, SMT DEF Exact
      <4> QED BY <3>2, <4>1, <4>2, SMT
    <3> QED BY <3>1, <3>3, <3>4 DEF Exact
  <2>4. CASE Len(samples) = Block - 1
    <3>1. blocks' = blocks + 1 /\ block' = Append(samples, n + 1) /\ samples' = <<>>
      BY <1>3, <2>4 DEF Filter, Sample
    <3>2. Len(samples') = 0 /\ Count' = Count + 1
      BY <1>1, <2>4, <3>1, SMT DEF Count
    <3>3. acc' + Count' * P = (n + 1) * Q
      BY <1>1, <2>1, <3>2, SMT DEF Exact
    <3>4. ASSUME NEW i \in 1..Block
          PROVE  Append(samples, n + 1)[i] = Played!Frame(blocks * Block + i)
      <4>1. CASE i = Block
        BY <2>2, <2>4, <4>1, SMT DEF Count
      <4>2. CASE i \in 1..Len(samples)
        BY <4>2, SMT DEF Exact
      <4> QED BY <2>4, <4>1, <4>2, SMT
    <3>5. Append(samples, n + 1) = [i \in 1..Block |-> Append(samples, n + 1)[i]]
      BY <2>4, SMT
    <3>6. Played!Put
      BY <3>1, <3>4, <3>5 DEF Played!Put
    <3> QED BY <3>2, <3>3, <3>6, SMT DEF Exact
  <2> QED BY <2>3, <2>4
<1> QED BY <1>2, <1>3

LEMMA Counted ==
  TypeInv => Filtered \in Int /\ InHand \in {0, 1} /\ Len(q) \in Nat /\ Count \in Nat
<1> SUFFICES ASSUME TypeInv
             PROVE  Filtered \in Int /\ InHand \in {0, 1} /\ Len(q) \in Nat /\ Count \in Nat
  OBVIOUS
<1>1. /\ cycle \in Nat /\ q \in Seq(1..MAX_CYCLES) /\ samples \in Seq(Nat)
      /\ blocks \in Nat /\ Block \in Nat
  BY TestbenchAssumption, SMT DEF TypeInv, TypeOK
<1>2. Len(q) \in Nat /\ Len(samples) \in Nat /\ blocks * Block \in Nat
  BY <1>1, SMT
<1>3. InHand \in {0, 1}
  BY DEF InHand
<1> QED BY <1>1, <1>2, <1>3, SMT DEF Filtered, Count

(* No frame has been filtered that was not there. *)
LEMMA FilteredNat == TypeInv /\ StreamInv => Filtered \in Nat
<1> SUFFICES ASSUME TypeInv, StreamInv PROVE Filtered \in Nat
  OBVIOUS
<1> USE TestbenchAssumption
<1>1. Filtered \in Int /\ Count \in Nat /\ acc \in Nat /\ Count * P \in Nat
  BY Counted, SMT DEF TypeInv, TypeOK, Count
<1>2. Filtered * Q = acc + Count * P
  BY DEF StreamInv, Exact
<1>3. Filtered * Q >= 0
  BY <1>1, <1>2, SMT
<1> HIDE DEF Filtered
<1> QED BY <1>1, <1>3, SMT

(* A step that filters nothing keeps the sum and the samples. *)
LEMMA StreamKept ==
  ASSUME StreamInv, UNCHANGED stream, Filtered' = Filtered
  PROVE  Exact(Filtered)' /\ [Played!Put]_<<blocks, block>>
<1> HIDE DEF Filtered
<1> QED BY DEF StreamInv, Exact, Count, stream

LEMMA StepStream ==
  TypeInv /\ StreamInv /\ [Next]_vars => StreamInv' /\ [Played!Put]_<<blocks, block>>
<1> SUFFICES ASSUME TypeInv, StreamInv, [Next]_vars
             PROVE  StreamInv' /\ [Played!Put]_<<blocks, block>>
  OBVIOUS
<1> USE TestbenchAssumption
<1>1. cycle \in Nat /\ Len(q) \in Nat /\ q \in Seq(1..MAX_CYCLES) /\ Filtered \in Nat
  BY FilteredNat, SMT DEF TypeInv, TypeOK
<1>2. CASE UNCHANGED vars \/ Ended \/ Edge \/ Stop \/ Join
  <2>1. UNCHANGED <<threaded, q, f, worker, stream, cycle>>
    BY <1>2 DEF vars, Ended, Edge, Stop, Join
  <2>2. Filtered' = Filtered /\ InHand' = InHand
    BY <1>2, <2>1 DEF Filtered, InHand, vars, Ended, Edge, Stop, Join
  <2> QED BY <2>1, <2>2, StreamKept DEF StreamInv
<1>3. CASE Notify \/ NotifyAll \/ Test \/ Lock \/ Sleep \/ Spurious
  <2>1. UNCHANGED <<threaded, q, f, stream, cycle>>
    BY <1>3 DEF Notify, NotifyAll, Test, Lock, Sleep, Spurious, worker_unchanged
  <2>2. worker' = "filter" <=> worker = "filter"
    BY <1>3 DEF Notify, NotifyAll, Test, Lock, Sleep, Spurious, Woken
  <2>3. main \in {"notify", "poll"} <=> main' \in {"notify", "poll"}
    BY <1>3 DEF Notify, NotifyAll, Test, Lock, Sleep, Spurious, worker_unchanged
  <2>4. Filtered' = Filtered /\ InHand' = InHand
    BY <2>1, <2>2, <2>3 DEF Filtered, InHand
  <2> QED BY <2>1, <2>2, <2>4, StreamKept DEF StreamInv
<1>4. CASE Inline
  <2>1. /\ UNCHANGED <<q, worker, threaded, cycle>> /\ main = "audio" /\ main' = "poll"
        /\ ~threaded /\ Filter(cycle + 1)
    BY <1>4 DEF Inline
  <2>2. q = <<>> /\ worker = "done" /\ Len(q) = 0
    BY <2>1 DEF StreamInv, TypeInv
  <2>3. Filtered = cycle /\ Filtered' = cycle + 1
    BY <1>1, <2>1, <2>2, SMT DEF Filtered, InHand
  <2>4. PICK n \in Nat : n = cycle
    BY <1>1
  <2>5. Exact(n) /\ Filter(n + 1)
    BY <2>1, <2>3, <2>4 DEF StreamInv
  <2>6. Exact(n + 1)' /\ [Played!Put]_<<blocks, block>>
    BY <2>5, FilterExact DEF TypeInv, TypeOK
  <2>7. Exact(Filtered)'
    BY <2>3, <2>4, <2>6 DEF Exact
  <2>8. q' = <<>> /\ worker' = "done" /\ Len(q') = 0
    BY <2>1, <2>2
  <2> QED BY <2>6, <2>7, <2>8, SMT DEF StreamInv
<1>5. CASE Push
  <2>1. q' = Append(q, cycle + 1) /\ main = "audio" /\ main' = "notify" /\ threaded'
        /\ UNCHANGED <<cycle, f, worker, stream>>
    BY <1>5 DEF Push
  <2>2. Filtered' = Filtered /\ InHand' = InHand
    BY <1>1, <2>1, SMT DEF Filtered, InHand
  <2>3. cycle + 1 = Filtered + InHand + Len(q')
    BY <1>1, <2>1, Counted, SMT DEF Filtered, InHand
  <2>4. \A i \in 1..Len(q') : q'[i] = Filtered + InHand + i
    BY <1>1, <2>1, <2>3, Counted, SMT DEF StreamInv
  <2> QED BY <2>1, <2>2, <2>4, StreamKept DEF StreamInv
<1>6. CASE Poll
  <2>1. /\ UNCHANGED <<threaded, q, f, worker, stream>> /\ cycle' = cycle + 1
        /\ main = "poll" /\ main' \notin {"notify", "poll"}
    BY <1>6 DEF Poll, Finish
  <2>2. Filtered' = Filtered /\ InHand' = InHand
    BY <1>1, <2>1, SMT DEF Filtered, InHand
  <2> QED BY <2>1, <2>2, StreamKept DEF StreamInv
<1>7. CASE Take
  <2>1. CASE ~keepRunning
    <3>1. UNCHANGED <<threaded, q, f, stream, cycle, main>> /\ worker = "take" /\ worker' = "done"
      BY <1>7, <2>1 DEF Take, worker_unchanged
    <3>2. Filtered' = Filtered /\ InHand' = InHand
      BY <3>1 DEF Filtered, InHand
    <3> QED BY <3>1, <3>2, StreamKept DEF StreamInv
  <2>2. CASE keepRunning
    <3>1. /\ UNCHANGED <<threaded, stream, cycle, main>> /\ worker = "take" /\ worker' = "filter"
          /\ f' = Head(q) /\ q' = Tail(q)
      BY <1>7, <2>2 DEF Take, worker_unchanged
    <3>2. q # <<>> /\ threaded
      BY <2>2, <3>1 DEF TypeInv
    <3>3. /\ Len(q') = Len(q) - 1 /\ f' = q[1] /\ 1 \in 1..Len(q)
          /\ \A i \in 1..Len(q') : q'[i] = q[i + 1] /\ i + 1 \in 1..Len(q)
      BY <1>1, <3>1, <3>2, SMT
    <3>4. InHand = 0 /\ InHand' = 1
      BY <3>1 DEF InHand
    <3>5. Filtered' = Filtered
      <4>1. cycle' = cycle /\ main' = main /\ Len(q') = Len(q) - 1
        BY <3>1, <3>3
      <4> QED BY <1>1, <3>4, <4>1, SMT DEF Filtered
    <3>6. f' = Filtered + 1 /\ \A i \in 1..Len(q') : q'[i] = Filtered + 1 + i
      BY <1>1, <3>3, <3>4, SMT DEF StreamInv
    <3> QED BY <3>1, <3>2, <3>4, <3>5, <3>6, StreamKept DEF StreamInv
  <2> QED BY <2>1, <2>2
<1>8. CASE Play
  <2>1. /\ UNCHANGED <<threaded, q, cycle, main>> /\ worker = "filter" /\ worker' = "test"
        /\ f = Filtered + 1 /\ Filter(f) /\ threaded
    BY <1>8 DEF Play, worker_unchanged, StreamInv, TypeInv
  <2>2. Filtered' = Filtered + 1 /\ InHand = 1 /\ InHand' = 0
    BY <1>1, <2>1, SMT DEF Filtered, InHand
  <2>3. PICK n \in Nat : n = Filtered
    BY <1>1
  <2>4. Exact(n) /\ Filter(n + 1)
    BY <2>1, <2>3 DEF StreamInv
  <2>5. Exact(n + 1)' /\ [Played!Put]_<<blocks, block>>
    BY <2>4, FilterExact DEF TypeInv, TypeOK
  <2>6. Exact(Filtered)'
    BY <2>2, <2>3, <2>5 DEF Exact
  <2>7. \A i \in 1..Len(q') : q'[i] = Filtered' + InHand' + i
    BY <1>1, <2>1, <2>2, SMT DEF StreamInv
  <2> QED BY <2>1, <2>5, <2>6, <2>7 DEF StreamInv
<1> QED BY <1>2, <1>3, <1>4, <1>5, <1>6, <1>7, <1>8 DEF Next, MainStep, WorkerStep

(* For any ratio of the rates, block size and length of run, the device gets every
   sample once, in order, made from the right frame, in whole blocks, with the
   worker or without (main.cpp:577-594, 878-913). *)
THEOREM StreamsAudio == Spec => ImplementsAudioStream
<1>1. Init => StreamInv
  BY TestbenchAssumption, SMT DEF Init, StreamInv, Exact, Count, Filtered, InHand
<1>2. Init => Played!Init
  BY DEF Init, Played!Init
<1> QED
  BY <1>1, <1>2, InitTyped, StepTyped, StepStream, PTL DEF Spec, ImplementsAudioStream, Played!Spec
=============================================================================
