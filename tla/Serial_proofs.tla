--------------------------- MODULE Serial_proofs ----------------------------
(***************************************************************************)
(* The port implements Exchange for every width and every choice of taps,  *)
(* as long as the other side's clock is low when a transfer starts.  Shifts *)
(* and count agree because every falling edge follows a rising one; what   *)
(* must be shown is that no transfer starts between the two, nor ends with *)
(* the port's own clock about to be high.  The printer of the testbench,   *)
(* which sees only the clock and data lines, stays in step for the same    *)
(* reason.  The last part is about two ports on a cable: they swap their   *)
(* bytes if the consoles drift by no more than half a period of the clock. *)
(***************************************************************************)
EXTENDS SerialPrinter, SerialLink, SequenceTheorems, TLAPS

(* The divider's clock line is a level. *)
LEMMA ClockLevel ==
  ASSUME NEW d \in Nat, NEW t \in Nat \ {0}
  PROVE  (d \div t) % 2 \in {0, 1}
<1>1. d \div t \in Int
  BY SMT
<1> QED BY <1>1, SMT

(* A multiple leaves no remainder. *)
LEMMA NoRemainder ==
  ASSUME NEW k \in Nat, NEW b \in Nat \ {0}
  PROVE  (b * k) % b = 0
OBVIOUS

(* The clock falls only where the divider passes a multiple of the tap. *)
LEMMA FallsAtMultiple ==
  ASSUME NEW d \in Nat, NEW t \in Nat \ {0}, NEW s \in Nat \ {0},
         s % t = 0, d < 2 * s,
         (((d + 1) % (2 * s)) \div t) % 2 # (d \div t) % 2
  PROVE  ((d + 1) % (2 * s)) % t = 0
<1>1. CASE d + 1 = 2 * s
  <2>1. (d + 1) % (2 * s) = 0
    BY <1>1, SMT
  <2> QED BY <2>1, SMT
<1>2. CASE d + 1 < 2 * s
  <2>1. (d + 1) % (2 * s) = d + 1
    BY <1>2, SMT
  <2> DEFINE q == d \div t
             r == d % t
  <2>2. q \in Nat /\ r \in 0..(t - 1) /\ d = t * q + r
    BY SMT
  <2>3. (d + 1) \div t # q
    BY <2>1
  <2>4. r + 1 = t
    <3>1. SUFFICES ASSUME r + 1 < t PROVE FALSE
      BY <2>2, SMT
    <3>2. d + 1 = t * q + (r + 1) /\ r + 1 \in 0..(t - 1)
      BY <2>2, <3>1, SMT
    <3>3. (d + 1) \div t = q
      BY <3>2, <2>2, SMT
    <3> QED BY <3>3, <2>3
  <2>5. d + 1 = t * (q + 1)
    BY <2>2, <2>4, SMT
  <2> HIDE DEF q, r
  <2>6. q + 1 \in Nat
    BY <2>2
  <2>7. (t * (q + 1)) % t = 0
    BY <2>6, NoRemainder
  <2> QED BY <2>1, <2>5, <2>7, Zenon
<1> QED BY <1>1, <1>2, SMT

(* and stays low for at least one more cycle, *)
LEMMA StaysLow ==
  ASSUME NEW d \in Nat, NEW t \in Nat \ {0, 1}, NEW s \in Nat \ {0},
         d < 2 * s, d % t = 0, (d \div t) % 2 = 0
  PROVE  (((d + 1) % (2 * s)) \div t) % 2 = 0
<1>1. CASE d + 1 = 2 * s
  <2>1. (d + 1) % (2 * s) = 0
    BY <1>1, SMT
  <2>2. 0 \div t = 0
    BY SMT
  <2> QED BY <2>1, <2>2, SMT
<1>2. CASE d + 1 < 2 * s
  <2>1. (d + 1) % (2 * s) = d + 1
    BY <1>2, SMT
  <2> DEFINE q == d \div t
  <2>2. q \in Nat /\ d = t * q
    BY SMT
  <2>3. d + 1 = t * q + 1 /\ 1 \in 0..(t - 1)
    BY <2>2, SMT
  <2>4. (d + 1) \div t = q
    BY <2>3, <2>2, SMT
  <2> QED BY <2>1, <2>4
<1> QED BY <1>1, <1>2, SMT

(* and a divider at zero is low. *)
LEMMA ZeroLow ==
  ASSUME NEW t \in Nat \ {0}
  PROVE  (0 \div t) % 2 = 0 /\ 0 % t = 0
<1>1. 0 \div t = 0
  BY SMT
<1> QED BY <1>1, SMT

(* Where the divider stands when the clock falls and between transfers. *)
ClockInv ==
  /\ (transfer /\ internal /\ sck = 1 /\ sck_o = 0) => divider % Tap = 0
  /\ (~transfer /\ internal) => sck_o = 0

(* The taps are taps of the divider. *)
LEMMA Taps ==
  ASSUME fast \in BOOLEAN
  PROVE  /\ Tap \in Nat \ {0, 1}
         /\ SlowTap \in Nat \ {0} /\ SlowTap % Tap = 0
<1>1. FastTap \in Nat \ {0, 1} /\ SlowTap \in Nat \ {0, 1} /\ SlowTap % FastTap = 0
  BY SerialAssumption
<1>2. SlowTap % SlowTap = 0
  BY <1>1, SMT
<1> QED BY <1>1, <1>2 DEF Tap

(* Types of one step. *)
LEMMA TypedStep == TypeOK /\ [Next]_vars => TypeOK'
<1> SUFFICES ASSUME TypeOK, [Next]_vars PROVE TypeOK'
  OBVIOUS
<1>1. Width \in Nat \ {0} /\ SlowTap \in Nat \ {0}
  BY SerialAssumption
<1>2. ASSUME NEW sck_i \in Level PROVE Clock(sck_i) \in Level
  <2>1. Tap \in Nat \ {0, 1} /\ divider \in Nat
    BY Taps DEF TypeOK
  <2>2. sck_o \in Level
    BY <2>1, ClockLevel DEF sck_o, Level
  <2> QED BY <2>2 DEF Clock
<1>3. ASSUME NEW bit \in Bits PROVE Shifted(bit) \in [1..Width -> Bits]
  BY <1>1 DEF Shifted, TypeOK
<1>4. 0 \in 0..(2 * SlowTap - 1) /\ 0 \in 0..(Width - 1)
  BY <1>1
<1>5. ASSUME NEW sck_i \in Level, NEW sdi \in Bits, Busy(sck_i, sdi) PROVE TypeOK'
  <2>1. (divider + 1) % (2 * SlowTap) \in 0..(2 * SlowTap - 1)
    BY <1>1 DEF TypeOK
  <2>2. (count + 1) % Width \in 0..(Width - 1)
    BY <1>1 DEF TypeOK
  <2>3. SB_reg[1] \in Bits
    BY <1>1 DEF TypeOK
  <2>4. SB_reg' \in [1..Width -> Bits]
    BY <1>3, <1>5 DEF Busy, TypeOK
  <2>5. divider' \in 0..(2 * SlowTap - 1) /\ count' \in 0..(Width - 1)
    BY <1>5, <2>1, <2>2 DEF Busy, TypeOK
  <2>6. sck' \in Level /\ sdo' \in Bits
    BY <1>5, <1>2, <2>3 DEF Busy, TypeOK
  <2>7. transfer' \in BOOLEAN /\ fast' \in BOOLEAN /\ internal' \in BOOLEAN
    BY <1>5, Zenon DEF Busy, TypeOK, Finished
  <2> QED BY <2>4, <2>5, <2>6, <2>7 DEF TypeOK
<1>6. ASSUME NEW sck_i \in Level, Quiet(sck_i) PROVE TypeOK'
  BY <1>2, <1>4, <1>6 DEF Quiet, Rest, TypeOK
<1>7. ASSUME NEW sck_i \in Level, NEW v \in [1..Width -> Bits], WriteSB(v, sck_i) PROVE TypeOK'
  BY <1>2, <1>4, <1>7 DEF WriteSB, Rest, TypeOK
<1>8. ASSUME NEW sck_i \in Level, NEW t \in BOOLEAN, NEW f \in BOOLEAN, NEW i \in BOOLEAN,
             WriteSC(t, f, i, sck_i)
      PROVE  TypeOK'
  <2>1. SB_reg[1] \in Bits
    BY <1>1 DEF TypeOK
  <2> QED BY <1>2, <1>4, <1>8, <2>1 DEF WriteSC, Rest, TypeOK
<1>9. CASE UNCHANGED vars
  BY <1>9 DEF vars, TypeOK
<1> QED BY <1>5, <1>6, <1>7, <1>8, <1>9 DEF Next, Cycle

(* The port of a step that shifts, counts or rests has the clock where
   ClockInv says. *)
LEMMA ClockStep == TypeOK /\ ClockInv /\ [Next]_vars => ClockInv'
<1> SUFFICES ASSUME TypeOK, ClockInv, [Next]_vars PROVE ClockInv'
  OBVIOUS
<1>1. /\ Tap \in Nat \ {0, 1} /\ SlowTap \in Nat \ {0} /\ SlowTap % Tap = 0
      /\ divider \in Nat /\ divider < 2 * SlowTap
  BY Taps, SerialAssumption DEF TypeOK
<1>2. ASSUME NEW sck_i \in Level, NEW sdi \in Bits, Busy(sck_i, sdi) PROVE ClockInv'
  <2> DEFINE Then == (((divider + 1) % (2 * SlowTap)) \div Tap) % 2
  <2>1. /\ Tap' = Tap /\ (internal' <=> internal)
        /\ divider' = (divider + 1) % (2 * SlowTap)
        /\ internal => sck' = sck_o /\ sck_o' = Then
    BY <1>2, Zenon DEF Busy, Tap, sck_o, Clock
  <2>2. sck_o \in {0, 1} /\ (internal => sck_o = (divider \div Tap) % 2)
    BY <1>1, ClockLevel DEF sck_o
  <2>3. ASSUME transfer', internal', sck' = 1, sck_o' = 0
        PROVE  (divider % Tap)' = 0
    <3>1. Then # (divider \div Tap) % 2
      BY <2>1, <2>2, <2>3
    <3>2. ((divider + 1) % (2 * SlowTap)) % Tap = 0
      BY <1>1, <3>1, FallsAtMultiple
    <3> QED BY <2>1, <3>2
  <2>4. ASSUME ~transfer', internal' PROVE sck_o' = 0
    <3>1. transfer /\ Finished(sck_i)
      BY <1>2, <2>4 DEF Busy
    <3>2. internal /\ sck = 1 /\ sck_o = 0
      BY <2>1, <2>4, <3>1 DEF Finished, Negedge, Clock
    <3>3. divider % Tap = 0 /\ (divider \div Tap) % 2 = 0
      BY <2>2, <3>1, <3>2 DEF ClockInv
    <3>4. Then = 0
      BY <1>1, <3>3, StaysLow
    <3> QED BY <2>1, <3>2, <3>4
  <2> QED BY <2>3, <2>4 DEF ClockInv
<1>3. ASSUME divider' = 0, fast' \in BOOLEAN PROVE ClockInv'
  <2>1. Tap' \in Nat \ {0}
    BY <1>3, SerialAssumption DEF Tap
  <2>2. (0 \div Tap') % 2 = 0 /\ 0 % Tap' = 0
    BY <2>1, ZeroLow
  <2> QED BY <1>3, <2>2 DEF ClockInv, sck_o
<1>4. fast' \in BOOLEAN
  BY TypedStep DEF TypeOK
<1>5. ASSUME NEW sck_i \in Level, Rest(sck_i) PROVE ClockInv'
  BY <1>3, <1>4, <1>5 DEF Rest
<1>6. CASE UNCHANGED vars
  BY <1>6 DEF vars, ClockInv, sck_o, Tap
<1> QED BY <1>2, <1>5, <1>6 DEF Next, Cycle, Quiet, WriteSB, WriteSC

(* Types and clock hold initially. *)
LEMMA InitInv == Init => TypeOK /\ ClockInv
<1> SUFFICES ASSUME Init PROVE TypeOK /\ ClockInv
  OBVIOUS
<1>1. Width \in Nat \ {0} /\ SlowTap \in Nat \ {0}
  BY SerialAssumption
<1>2. TypeOK
  <2>1. SB_reg \in [1..Width -> Bits]
    BY <1>1 DEF Init, Bits
  <2>2. divider \in 0..(2 * SlowTap - 1) /\ count \in 0..(Width - 1) /\ sck \in Level /\ sdo \in Bits
    BY <1>1 DEF Init, Bits, Level
  <2> QED BY <2>1, <2>2 DEF Init, TypeOK
<1>3. ClockInv
  BY DEF Init, ClockInv
<1> QED BY <1>2, <1>3

(* The registers of the port keep to their widths. *)
THEOREM SerialTyped == Spec => []TypeOK
<1>1. Init => TypeOK
  BY InitInv
<1>2. TypeOK /\ [Next]_vars => TypeOK'
  BY TypedStep
<1> QED BY <1>1, <1>2, PTL DEF Spec

(* Each step of the port shifts one bit, or does nothing that Exchange sees,
   or loads, starts or ends. *)
LEMMA PortStep ==
  ASSUME IdleLow, TypeOK, ClockInv, [Next]_vars
  PROVE  PortExchange!Next \/ UNCHANGED PortExchange!vars
<1> DEFINE Got == IF transfer THEN count + sck ELSE 0
<1>1. /\ Width \in Nat \ {0} /\ count \in 0..(Width - 1) /\ sck \in {0, 1}
      /\ transfer \in BOOLEAN
  BY SerialAssumption DEF TypeOK, Level
<1>2. TypeOK'
  BY TypedStep
<1>3. Tap \in Nat \ {0, 1} /\ divider \in Nat
  BY Taps DEF TypeOK
<1>4. ASSUME NEW sck_i \in Level PROVE Clock(sck_i) \in {0, 1}
  BY <1>3, ClockLevel DEF Clock, sck_o, Level
<1>5. ASSUME NEW sck_i \in Level, NEW sdi \in Bits, Busy(sck_i, sdi)
      PROVE  PortExchange!Next \/ UNCHANGED PortExchange!vars
  <2>1. transfer /\ sck' = Clock(sck_i)
    BY <1>5 DEF Busy
  <2>2. CASE Posedge(sck_i)
    <3>1. Clock(sck_i) = 1 /\ sck = 0 /\ ~Negedge(sck_i)
      BY <2>2 DEF Posedge, Negedge
    <3>2. SB_reg' = Shifted(sdi) /\ count' = count /\ transfer'
      BY <1>5, <2>2, <3>1 DEF Busy, Finished
    <3>3. Got < Width /\ Got' = Got + 1
      BY <1>1, <2>1, <3>1, <3>2
    <3>4. PortExchange!Shift
      BY <2>1, <3>2, <3>3 DEF PortExchange!Shift, Shifted, Bits
    <3> QED BY <3>4 DEF PortExchange!Next
  <2>3. CASE Negedge(sck_i) /\ count = Width - 1
    <3>1. Clock(sck_i) = 0 /\ sck = 1 /\ ~Posedge(sck_i)
      BY <2>3 DEF Posedge, Negedge
    <3>2. SB_reg' = SB_reg /\ ~transfer' /\ transfer' \in BOOLEAN
      BY <1>2, <1>5, <2>3, <3>1 DEF Busy, Finished, TypeOK
    <3>3. Got = Width /\ Got' = 0
      BY <1>1, <2>1, <2>3, <3>1, <3>2
    <3>4. PortExchange!Finish
      BY <2>1, <3>2, <3>3 DEF PortExchange!Finish
    <3> QED BY <3>4 DEF PortExchange!Next
  <2>4. CASE Negedge(sck_i) /\ count # Width - 1
    <3>1. Clock(sck_i) = 0 /\ sck = 1 /\ ~Posedge(sck_i)
      BY <2>4 DEF Posedge, Negedge
    <3>2. SB_reg' = SB_reg /\ transfer' /\ count' = (count + 1) % Width
      BY <1>5, <2>4, <3>1 DEF Busy, Finished
    <3>3. count' = count + 1
      BY <1>1, <2>4, <3>2
    <3>4. Got' = Got
      BY <1>1, <2>1, <3>1, <3>2, <3>3
    <3> QED BY <2>1, <3>2, <3>4 DEF PortExchange!vars
  <2>5. CASE ~Posedge(sck_i) /\ ~Negedge(sck_i)
    <3>1. Clock(sck_i) = sck
      BY <1>1, <1>4, <2>5 DEF Posedge, Negedge
    <3>2. SB_reg' = SB_reg /\ transfer' /\ count' = count
      BY <1>5, <2>5 DEF Busy, Finished
    <3>3. Got' = Got
      BY <2>1, <3>1, <3>2
    <3> QED BY <2>1, <3>2, <3>3 DEF PortExchange!vars
  <2> QED BY <2>2, <2>3, <2>4, <2>5
<1>6. ASSUME NEW sck_i \in Level, Quiet(sck_i)
      PROVE  UNCHANGED PortExchange!vars
  BY <1>6 DEF Quiet, Rest, PortExchange!vars
<1>7. ASSUME NEW sck_i \in Level, NEW v \in [1..Width -> Bits], WriteSB(v, sck_i)
      PROVE  PortExchange!Load
  BY <1>7 DEF WriteSB, Rest, PortExchange!Load, Bits
<1>8. ASSUME NEW sck_i \in Level, NEW t \in BOOLEAN, NEW f \in BOOLEAN, NEW i \in BOOLEAN,
             WriteSC(t, f, i, sck_i)
      PROVE  PortExchange!Begin \/ UNCHANGED PortExchange!vars
  <2>1. CASE t
    <3>1. Clock(sck_i) = 0
      BY <1>8, <2>1 DEF WriteSC, Rest, Clock, ClockInv
    <3>2. Got' = 0
      BY <1>8, <2>1, <3>1 DEF WriteSC, Rest
    <3> QED BY <1>8, <2>1, <3>2 DEF WriteSC, Rest, PortExchange!Begin
  <2>2. CASE ~t
    <3>1. ~transfer /\ ~transfer' /\ (transfer' <=> transfer) /\ SB_reg' = SB_reg
      BY <1>8, <2>2 DEF WriteSC, Rest
    <3>2. transfer' = transfer
      BY <1>1, <1>2, <3>1 DEF TypeOK
    <3>3. Got' = Got
      BY <3>1
    <3> QED BY <3>1, <3>2, <3>3 DEF PortExchange!vars
  <2> QED BY <2>1, <2>2
<1>9. CASE UNCHANGED vars
  BY <1>9 DEF vars, PortExchange!vars
<1> QED BY <1>5, <1>6, <1>7, <1>8, <1>9 DEF Next, Cycle, PortExchange!Next

(* With the other side's clock low whenever a transfer starts, the port
   implements Exchange: a transfer is Width shifts, however it is clocked. *)
THEOREM RefinesExchange == IdleLow => (Spec => ImplementsExchange)
<1> SUFFICES ASSUME IdleLow PROVE Spec => ImplementsExchange
  OBVIOUS
<1>1. Init => TypeOK /\ ClockInv
  BY InitInv
<1>2. TypeOK /\ ClockInv /\ [Next]_vars => (TypeOK /\ ClockInv)'
  BY TypedStep, ClockStep
<1>3. Init => PortExchange!Init
  BY DEF Init, PortExchange!Init
<1>4. TypeOK /\ ClockInv /\ [Next]_vars => [PortExchange!Next]_(PortExchange!vars)
  BY PortStep
<1> QED BY <1>1, <1>2, <1>3, <1>4, PTL DEF Spec, ImplementsExchange, PortExchange!Spec

(***************************************************************************)
(* The printer.                                                            *)
(***************************************************************************)

(* The serial clock has risen for the bit that is being counted, *)
Risen == sck = 1 \/ sck_o = 1

(* the bits the printer has seen of the transfer under way. *)
Seen == IF Risen THEN count + 1 ELSE count

(* The first n bits of a byte. *)
Prefix(byte, n) == [i \in 1..n |-> byte[i]]

(* Between two bits: the printer has what it has seen of the byte; what it has
   not seen is in SB, behind the bit on the line. *)
InStep ==
  /\ owed \in [1..Width -> Bits]
  /\ sdata = Prefix(owed, Seen)
  /\ sdo = owed[count + 1]
  /\ \A i \in 1..(Width - (count + sck)) : SB_reg[i] = owed[i + (count + sck)]

Blank == sdata = <<>> /\ owed = <<>>

(* The printer's clock is the port's, and it holds what it has seen of a
   transfer on the port's own clock, or nothing. *)
PrinterInv ==
  /\ prev_sck = sck_o
  /\ IF transfer /\ internal /\ Seen < Width THEN InStep ELSE Blank

(* One bit more of a byte. *)
LEMMA PrefixGrows ==
  ASSUME NEW byte, NEW n \in Nat, NEW bit, bit = byte[n + 1]
  PROVE  /\ Len(Prefix(byte, n)) = n
         /\ Append(Prefix(byte, n), bit) = Prefix(byte, n + 1)
<1> DEFINE S == {byte[i] : i \in 1..n} \cup {bit}
<1>1. Prefix(byte, n) \in Seq(S) /\ Len(Prefix(byte, n)) = n
  <2>1. Prefix(byte, n) \in [1..n -> S]
    BY DEF Prefix
  <2> HIDE DEF S
  <2>2. Prefix(byte, n) \in Seq(S)
    BY <2>1
  <2>3. DOMAIN Prefix(byte, n) = 1..n
    BY DEF Prefix
  <2> QED BY <2>2, <2>3, LenProperties
<1> DEFINE T == Append(Prefix(byte, n), bit)
<1>2. /\ T \in Seq(S) /\ Len(T) = n + 1 /\ T[n + 1] = bit
      /\ \A i \in 1..n : T[i] = Prefix(byte, n)[i]
  <2>1. bit \in S
    OBVIOUS
  <2> HIDE DEF S
  <2> QED BY <1>1, <2>1, AppendProperties
<1>3. DOMAIN T = 1..(n + 1)
  BY <1>2, LenProperties
<1>4. T = [i \in 1..(n + 1) |-> T[i]]
  BY <1>2, <1>3
<1>5. ASSUME NEW i \in 1..(n + 1) PROVE T[i] = byte[i]
  BY <1>2 DEF Prefix
<1> QED BY <1>1, <1>4, <1>5 DEF Prefix

(* The whole of a byte, and nothing of it. *)
LEMMA PrefixEnds ==
  ASSUME NEW byte \in [1..Width -> Bits]
  PROVE  Prefix(byte, Width) = byte /\ Prefix(byte, 0) = <<>>
<1>1. Prefix(byte, 0) = <<>>
  BY DEF Prefix
<1> QED BY <1>1 DEF Prefix

(* What the printer does with a pass of the loop. *)
Starts == ~transfer /\ transfer' /\ internal'

LEMMA Sampled ==
  ASSUME Sample
  PROVE  /\ prev_sck' = sck_o'
         /\ Prints => sdata' = <<>>
         /\ sck_rising /\ ~Prints => sdata' = Append(sdata, sdo')
         /\ ~sck_rising => sdata' = sdata
         /\ Starts /\ ~Prints => owed' = SB_reg
         /\ ~Starts /\ Prints => owed' = <<>>
         /\ ~Starts /\ ~Prints => owed' = owed
<1>1. Prints => sck_rising
  BY DEF Prints
<1>2. prev_sck' = sck_o'
  BY DEF Sample
<1>3. sdata' = CASE Prints -> <<>>
                 [] sck_rising /\ ~Prints -> Append(sdata, sdo')
                 [] OTHER -> sdata
  BY DEF Sample
<1>4. owed' = CASE Starts -> SB_reg
                [] Prints -> <<>>
                [] OTHER -> owed
  BY DEF Sample, Starts
<1>5. Prints => sdata' = <<>>
  BY <1>1, <1>3, Zenon
<1>6. sck_rising /\ ~Prints => sdata' = Append(sdata, sdo')
  BY <1>1, <1>3, Zenon
<1>7. ~sck_rising => sdata' = sdata
  BY <1>1, <1>3, Zenon
<1>8. Starts /\ ~Prints => owed' = SB_reg
  BY <1>4, Zenon
<1>9. ~Starts /\ Prints => owed' = <<>>
  BY <1>4, Zenon
<1>10. ~Starts /\ ~Prints => owed' = owed
  BY <1>4, Zenon
<1> QED BY <1>2, <1>5, <1>6, <1>7, <1>8, <1>9, <1>10

(* In a transfer on the port's own clock each edge of it comes at its place:
   a bit is on the line before the clock rises, and off it after. *)
LEMMA OwnClock ==
  ASSUME IdleLow, TypeOK, ClockInv, PrinterInv, transfer, internal,
         NEW sck_i \in Level, NEW sdi \in Bits, Busy(sck_i, sdi), Sample
  PROVE  PrinterInv' /\ (Prints => Append(sdata, sdo') = owed)
<1>1. /\ Width \in Nat \ {0} /\ count \in 0..(Width - 1) /\ sck \in {0, 1}
      /\ SB_reg \in [1..Width -> Bits]
      /\ Tap \in Nat \ {0, 1} /\ SlowTap \in Nat \ {0} /\ SlowTap % Tap = 0
      /\ divider \in Nat /\ divider < 2 * SlowTap
  BY Taps, SerialAssumption DEF TypeOK, Level
<1>2. /\ internal' /\ ~Starts /\ Tap' = Tap
      /\ sck' = sck_o /\ Clock(sck_i) = sck_o
      /\ divider' = (divider + 1) % (2 * SlowTap)
  BY Zenon DEF Busy, Clock, Starts, Tap
<1>3. sck_o \in {0, 1} /\ sck_o' \in {0, 1}
  <2>1. sck_o \in {0, 1}
    BY <1>1, ClockLevel DEF sck_o
  <2>2. divider' \in Nat
    BY <1>1, <1>2
  <2>3. (divider' \div Tap) % 2 \in {0, 1}
    BY <1>1, <2>2, ClockLevel
  <2>4. sck_o' = (divider' \div Tap) % 2
    BY <1>2 DEF sck_o
  <2> QED BY <2>1, <2>3, <2>4
<1>4. prev_sck = sck_o /\ prev_sck' = sck_o'
  BY Sampled DEF PrinterInv
<1>5. ASSUME ~Posedge(sck_i), ~Negedge(sck_i)
      PROVE  SB_reg' = SB_reg /\ sdo' = sdo /\ count' = count /\ transfer'
  BY <1>5 DEF Busy, Finished
<1>6. CASE sck = 0 /\ sck_o = 0
  <2>1. ~Posedge(sck_i) /\ ~Negedge(sck_i)
    BY <1>2, <1>6 DEF Posedge, Negedge
  <2>2. SB_reg' = SB_reg /\ sdo' = sdo /\ count' = count /\ transfer' /\ sck' = 0
    BY <1>2, <1>5, <1>6, <2>1
  <2>3. Seen = count /\ InStep
    BY <1>1, <1>6 DEF Seen, Risen, PrinterInv
  <2>4. /\ sdata = Prefix(owed, count) /\ sdo = owed[count + 1]
        /\ owed \in [1..Width -> Bits]
        /\ \A i \in 1..(Width - count) : SB_reg[i] = owed[i + count]
    BY <1>1, <1>6, <2>3 DEF InStep
  <2>5. Len(sdata) = count /\ Append(sdata, sdo') = Prefix(owed, count + 1)
    BY <1>1, <2>2, <2>4, PrefixGrows
  <2>6. CASE sck_o' = 0
    <3>1. ~sck_rising /\ ~Prints
      BY <2>6 DEF sck_rising, Prints
    <3>2. sdata' = sdata /\ owed' = owed
      BY <1>2, <3>1, Sampled
    <3>3. Seen' = count
      BY <2>2, <2>6 DEF Seen, Risen
    <3>4. InStep'
      BY <1>1, <2>2, <2>4, <3>2, <3>3 DEF InStep
    <3> QED BY <1>1, <1>2, <1>4, <2>2, <3>1, <3>3, <3>4 DEF PrinterInv
  <2>7. CASE sck_o' = 1
    <3>1. sck_rising /\ Seen' = count + 1
      BY <1>4, <1>6, <2>2, <2>7 DEF sck_rising, Seen, Risen
    <3>2. CASE count = Width - 1
      <4>1. Prints
        BY <2>5, <3>1, <3>2 DEF Prints
      <4>2. Blank'
        BY <1>2, <4>1, Sampled DEF Blank
      <4>3. Append(sdata, sdo') = owed
        BY <1>1, <2>4, <2>5, <3>2, PrefixEnds
      <4>4. ~(Seen' < Width)
        BY <1>1, <3>1, <3>2
      <4> QED BY <1>4, <4>2, <4>3, <4>4 DEF PrinterInv
    <3>3. CASE count # Width - 1
      <4>1. ~Prints
        BY <1>1, <2>5, <3>3 DEF Prints
      <4>2. sdata' = Append(sdata, sdo') /\ owed' = owed
        BY <1>2, <3>1, <4>1, Sampled
      <4>3. InStep'
        BY <1>1, <2>2, <2>4, <2>5, <3>1, <4>2 DEF InStep
      <4> QED BY <1>1, <1>2, <1>4, <2>2, <3>1, <3>3, <4>1, <4>3 DEF PrinterInv
    <3> QED BY <3>2, <3>3
  <2> QED BY <1>3, <2>6, <2>7
<1>7. ASSUME sck = 1 \/ sck_o = 1
      PROVE  ~sck_rising /\ ~Prints /\ sdata' = sdata /\ owed' = owed
  <2>1. ~sck_rising
    <3>1. CASE sck_o = 1
      BY <1>4, <3>1 DEF sck_rising
    <3>2. CASE sck = 1 /\ sck_o = 0
      <4>1. divider % Tap = 0 /\ (divider \div Tap) % 2 = 0
        BY <3>2 DEF ClockInv, sck_o
      <4>2. (((divider + 1) % (2 * SlowTap)) \div Tap) % 2 = 0
        BY <1>1, <4>1, StaysLow
      <4>3. sck_o' = 0
        BY <1>2, <4>2 DEF sck_o
      <4> QED BY <4>3 DEF sck_rising
    <3> QED BY <1>3, <1>7, <3>1, <3>2
  <2>2. ~Prints
    BY <2>1 DEF Prints
  <2> QED BY <1>2, <2>1, <2>2, Sampled
<1>8. CASE sck_o = 1
  <2>1. Seen = count + 1 /\ ~Negedge(sck_i) /\ sck' = 1
    BY <1>2, <1>8 DEF Seen, Risen, Negedge
  <2>2. count' = count /\ transfer' /\ sdo' = sdo
    BY <2>1 DEF Busy, Finished
  <2>3. Seen' = count + 1
    BY <2>1, <2>2 DEF Seen, Risen
  <2>4. CASE count + 1 < Width
    <3>1. InStep
      BY <2>1, <2>4 DEF PrinterInv
    <3>2. \A i \in 1..(Width - (count + 1)) : SB_reg'[i] = owed[i + (count + 1)]
      <4>1. CASE sck = 0
        <5>1. SB_reg' = Shifted(sdi)
          BY <1>2, <1>8, <4>1 DEF Busy, Posedge
        <5>2. ASSUME NEW i \in 1..(Width - (count + 1))
              PROVE  SB_reg'[i] = owed[i + (count + 1)]
          <6>1. i \in 1..Width /\ i # Width /\ i + 1 \in 1..(Width - (count + sck))
            BY <1>1, <4>1
          <6>2. SB_reg'[i] = SB_reg[i + 1]
            BY <5>1, <6>1 DEF Shifted
          <6>3. SB_reg[i + 1] = owed[(i + 1) + (count + sck)]
            BY <3>1, <6>1 DEF InStep
          <6>4. (i + 1) + (count + sck) = i + (count + 1)
            BY <1>1, <4>1
          <6> QED BY <6>2, <6>3, <6>4
        <5> QED BY <5>2
      <4>2. CASE sck = 1
        <5>1. SB_reg' = SB_reg
          BY <1>5, <2>1, <4>2 DEF Posedge
        <5> QED BY <3>1, <4>2, <5>1 DEF InStep
      <4> QED BY <1>1, <4>1, <4>2
    <3>3. InStep'
      BY <1>7, <1>8, <2>1, <2>2, <2>3, <3>1, <3>2 DEF InStep
    <3> QED BY <1>2, <1>4, <1>7, <1>8, <2>2, <2>3, <2>4, <3>3 DEF PrinterInv
  <2>5. CASE ~(count + 1 < Width)
    <3>1. Blank'
      BY <1>7, <1>8, <2>1, <2>5 DEF PrinterInv, Blank
    <3> QED BY <1>4, <1>7, <1>8, <2>3, <2>5, <3>1 DEF PrinterInv
  <2> QED BY <2>4, <2>5
<1>9. CASE sck = 1 /\ sck_o = 0
  <2>1. Seen = count + 1 /\ Negedge(sck_i) /\ ~Posedge(sck_i) /\ sck' = 0
    BY <1>2, <1>9 DEF Seen, Risen, Negedge, Posedge
  <2>2. SB_reg' = SB_reg /\ sdo' = SB_reg[1] /\ count' = (count + 1) % Width
    BY <2>1 DEF Busy
  <2>3. sck_o' = 0
    BY <1>3, <1>4, <1>7, <1>9 DEF sck_rising
  <2>4. CASE count = Width - 1
    <3>1. ~transfer'
      BY <2>1, <2>4 DEF Busy, Finished
    <3>2. Blank
      BY <1>1, <2>1, <2>4 DEF PrinterInv
    <3>3. Blank'
      BY <1>7, <1>9, <3>2 DEF Blank
    <3> QED BY <1>4, <1>7, <1>9, <3>1, <3>3 DEF PrinterInv
  <2>5. CASE count # Width - 1
    <3>1. transfer' /\ count' = count + 1 /\ count + 1 < Width
      <4>1. (count + 1) % Width = count + 1
        BY <1>1, <2>5
      <4>2. transfer'
        BY <2>5 DEF Busy, Finished
      <4>3. count + 1 < Width
        BY <1>1, <2>5
      <4> QED BY <2>2, <4>1, <4>2, <4>3
    <3>2. Seen' = count + 1
      BY <2>1, <2>3, <3>1 DEF Seen, Risen
    <3>3. InStep
      BY <2>1, <3>1 DEF PrinterInv
    <3>4. 1 \in 1..(Width - (count + sck)) /\ count + sck = count + 1
      BY <1>1, <1>9, <3>1
    <3>5. sdo' = owed[1 + (count + 1)]
      BY <2>2, <3>3, <3>4 DEF InStep
    <3>6. 1 + (count + 1) = count' + 1 /\ count' + sck' = count + sck
      BY <1>1, <1>9, <2>1, <3>1
    <3>7. InStep'
      BY <1>7, <1>9, <2>1, <2>2, <3>1, <3>2, <3>3, <3>5, <3>6 DEF InStep
    <3> QED BY <1>2, <1>4, <1>7, <1>9, <3>1, <3>2, <3>7 DEF PrinterInv
  <2> QED BY <2>4, <2>5
<1> QED BY <1>1, <1>3, <1>6, <1>8, <1>9

(* A transfer that the other side clocks moves neither the printer's clock nor
   what it holds. *)
LEMMA OthersClock ==
  ASSUME TypeOK, PrinterInv, transfer, ~internal,
         NEW sck_i \in Level, NEW sdi \in Bits, Busy(sck_i, sdi), Sample
  PROVE  PrinterInv' /\ ~Prints
<1>1. ~internal' /\ ~Starts
  BY DEF Busy, Starts
<1>2. sck_o = 0 /\ sck_o' = 0
  BY <1>1 DEF sck_o
<1>3. ~sck_rising /\ ~Prints
  BY <1>2 DEF sck_rising, Prints
<1>4. sdata' = sdata /\ owed' = owed /\ prev_sck' = sck_o'
  BY <1>1, <1>3, Sampled
<1> QED BY <1>1, <1>3, <1>4 DEF PrinterInv, Blank

(* Between transfers the clock does not rise; the printer takes note of a
   transfer that starts. *)
LEMMA Resting ==
  ASSUME TypeOK, TypeOK', ClockInv, PrinterInv, NEW sck_i \in Level, Rest(sck_i), Sample
  PROVE  /\ ~Prints /\ sdata' = <<>> /\ prev_sck' = sck_o'
         /\ ~Starts => owed' = <<>>
         /\ Starts => owed' = SB_reg
<1>1. sck_o' = 0
  <2>1. Tap' \in Nat \ {0} /\ divider' = 0
    BY SerialAssumption DEF Tap, Rest
  <2>2. (0 \div Tap') % 2 = 0
    BY <2>1, ZeroLow
  <2> QED BY <2>1, <2>2 DEF sck_o
<1>2. ~sck_rising /\ ~Prints
  BY <1>1 DEF sck_rising, Prints
<1>3. Blank
  BY DEF Rest, PrinterInv
<1> QED BY <1>2, <1>3, Sampled DEF Blank

(* A transfer starts with the clock low, its byte in SB and the first bit on
   the line. *)
LEMMA StartStep ==
  ASSUME IdleLow, TypeOK, TypeOK', ClockInv, PrinterInv, NEW sck_i \in Level,
         NEW t \in BOOLEAN, NEW f \in BOOLEAN, NEW i \in BOOLEAN,
         WriteSC(t, f, i, sck_i), Sample
  PROVE  PrinterInv' /\ ~Prints
<1>1. Rest(sck_i) /\ ~transfer /\ divider' = 0
  BY DEF WriteSC, Rest
<1>2. /\ ~Prints /\ sdata' = <<>> /\ prev_sck' = sck_o'
      /\ ~Starts => owed' = <<>>
      /\ Starts => owed' = SB_reg
  BY <1>1, Resting
<1>3. (transfer' <=> t) /\ (internal' <=> i)
  BY DEF WriteSC
<1>4. CASE t /\ i
  <2>1. Starts /\ owed' = SB_reg
    BY <1>1, <1>2, <1>3, <1>4 DEF Starts
  <2>2. Clock(sck_i) = 0
    BY <1>1, <1>4 DEF WriteSC, Clock, ClockInv
  <2>3. sck' = 0 /\ count' = 0 /\ sdo' = SB_reg[1] /\ SB_reg' = SB_reg
    BY <1>1, <1>4, <2>2 DEF WriteSC, Rest
  <2>4. sck_o' = 0
    <3>1. Tap' \in Nat \ {0}
      BY SerialAssumption DEF Tap
    <3>2. (0 \div Tap') % 2 = 0
      BY <3>1, ZeroLow
    <3> QED BY <1>1, <3>2 DEF sck_o
  <2>5. Seen' = 0
    BY <2>3, <2>4 DEF Seen, Risen
  <2>6. SB_reg \in [1..Width -> Bits] /\ Width \in Nat \ {0}
    BY SerialAssumption DEF TypeOK
  <2>7. sdata' = Prefix(owed', 0)
    BY <1>2, <2>1, <2>6, PrefixEnds
  <2>8. InStep'
    BY <2>1, <2>3, <2>5, <2>6, <2>7 DEF InStep
  <2> QED BY <1>2, <1>3, <1>4, <2>5, <2>6, <2>8 DEF PrinterInv
<1>5. CASE ~(t /\ i)
  <2>1. ~Starts /\ ~(transfer' /\ internal')
    BY <1>3, <1>5 DEF Starts
  <2> QED BY <1>2, <2>1 DEF PrinterInv, Blank
<1> QED BY <1>4, <1>5

(* A pass of the loop prints the byte owed or nothing, and keeps the printer
   in step. *)
LEMMA PrinterStep ==
  ASSUME IdleLow, TypeOK, ClockInv, PrinterInv, [Next /\ Sample]_pvars
  PROVE  PrinterInv' /\ (Next /\ Sample /\ Prints => Append(sdata, sdo') = owed)
<1>1. CASE Next /\ Sample
  <2>1. TypeOK'
    BY <1>1, TypedStep
  <2>2. PICK sck_i \in Level, sdi \in Bits : Cycle(sck_i, sdi)
    BY <1>1 DEF Next
  <2>3. CASE Busy(sck_i, sdi)
    <3>1. transfer
      BY <2>3 DEF Busy
    <3>2. CASE internal
      BY <1>1, <2>3, <3>1, <3>2, OwnClock
    <3>3. CASE ~internal
      BY <1>1, <2>3, <3>1, <3>3, OthersClock
    <3> QED BY <3>2, <3>3
  <2>4. ASSUME Rest(sck_i), transfer' = transfer PROVE PrinterInv' /\ ~Prints
    <3>1. ~transfer /\ ~transfer' /\ ~Starts
      BY <2>4 DEF Rest, Starts
    <3> QED BY <1>1, <2>1, <2>4, <3>1, Resting DEF PrinterInv, Blank
  <2>5. CASE Quiet(sck_i)
    BY <2>4, <2>5 DEF Quiet
  <2>6. ASSUME NEW v \in [1..Width -> Bits], WriteSB(v, sck_i) PROVE PrinterInv' /\ ~Prints
    BY <2>4, <2>6 DEF WriteSB
  <2>7. ASSUME NEW t \in BOOLEAN, NEW f \in BOOLEAN, NEW i \in BOOLEAN, WriteSC(t, f, i, sck_i)
        PROVE  PrinterInv' /\ ~Prints
    BY <1>1, <2>1, <2>7, StartStep
  <2> QED BY <2>2, <2>3, <2>5, <2>6, <2>7 DEF Cycle
<1>2. CASE UNCHANGED pvars /\ ~(Next /\ Sample)
  BY <1>2 DEF pvars, vars, PrinterInv, Blank, InStep, Seen, Risen, sck_o, Tap
<1> QED BY <1>1, <1>2

(* The printer is blank before the first transfer. *)
LEMMA PrinterInit == PInit => Init /\ PrinterInv
<1> SUFFICES ASSUME PInit PROVE Init /\ PrinterInv
  OBVIOUS
<1>1. ~transfer /\ ~internal /\ sck_o = 0
  BY DEF PInit, Init, sck_o
<1> QED BY <1>1 DEF PInit, PrinterInv, Blank

(* The printer prints the byte that each transfer on the port's own clock
   began with, for every width and tap, if the other side's clock is low when
   a transfer starts.  Otherwise the port itself drops the last bit. *)
THEOREM PrintsTheByte == IdleLow => (PSpec => PrintsWhatIsSent)
<1> SUFFICES ASSUME IdleLow PROVE PSpec => PrintsWhatIsSent
  OBVIOUS
<1>1. PInit => TypeOK /\ ClockInv /\ PrinterInv
  BY PrinterInit, InitInv
<1>2. TypeOK /\ ClockInv /\ PrinterInv /\ [Next /\ Sample]_pvars
        => (TypeOK /\ ClockInv /\ PrinterInv)'
  <2>1. [Next /\ Sample]_pvars => [Next]_vars
    BY DEF pvars
  <2> QED BY <2>1, TypedStep, ClockStep, PrinterStep
<1>3. TypeOK /\ ClockInv /\ PrinterInv /\ [Next /\ Sample]_pvars
        => [ /\ Prints => Append(sdata, sdo') = owed
             /\ ~transfer' => sdata' = <<>> /\ owed' = <<>> ]_pvars
  <2> SUFFICES ASSUME TypeOK, ClockInv, PrinterInv, Next /\ Sample
               PROVE  /\ Prints => Append(sdata, sdo') = owed
                      /\ ~transfer' => sdata' = <<>> /\ owed' = <<>>
    OBVIOUS
  <2>1. PrinterInv' /\ (Prints => Append(sdata, sdo') = owed)
    BY PrinterStep
  <2> QED BY <2>1 DEF PrinterInv, Blank
<1> QED BY <1>1, <1>2, <1>3, PTL DEF PSpec, PrintsWhatIsSent

----------------------------------------------------------------------------
(***************************************************************************)
(* Two ports on a cable.  The invariant counts the edges each side has     *)
(* seen of those that the clock has made: B is at most one behind, and     *)
(* only for as many cycles of A as the consoles may drift apart, which is  *)
(* less than the clock stays at a level.  So each side's bit is on its     *)
(* wire when the other samples it.                                         *)
(***************************************************************************)
(* Neither console runs longer alone than the fast clock stays at a level. *)
DriftsLittle == Drift <= FastTap

Wire    == sck_o
Since   == divider % Tap          \* cycles of A since the clock's last edge
Bytes   == [1..Width -> {0, 1}]

(* The last edge of an exchange is on the wire, or there is no exchange. *)
Over == ~transfer \/ (Wire = 0 /\ count + sck = Width)

(* A register that has shifted n bits in: the rest of its own byte, and then theirs. *)
Holds(sb, mine, theirs, n) ==
  \A i \in 1..Width : sb[i] = IF i <= Width - n THEN mine[i + n] ELSE theirs[i - (Width - n)]

LinkTypes ==
  /\ SB_reg \in Bytes /\ bSB \in Bytes /\ sentA \in Bytes /\ sentB \in Bytes
  /\ transfer \in BOOLEAN /\ fast \in BOOLEAN /\ internal \in BOOLEAN
  /\ bTransfer \in BOOLEAN /\ bInternal = FALSE
  /\ divider \in 0..(2 * SlowTap - 1) /\ sck \in {0, 1} /\ count \in 0..(Width - 1)
  /\ bSck \in {0, 1} /\ bCount \in 0..(Width - 1) /\ sdo \in {0, 1} /\ bSdo \in {0, 1}
  /\ lead \in Int /\ lead <= Drift

(* A sees an edge in the next cycle, and B before the level changes again. *)
WireInv ==
  /\ ~transfer => sck = 0 /\ Wire = 0
  /\ transfer => /\ internal
                 /\ sck # Wire => Since = 0
                 /\ bSck # Wire => Since < lead

AHolds == transfer => Holds(SB_reg, sentA, sentB, count + sck) /\ sdo = sentA[count + 1]

(* B is in the same exchange, with as many bits as edges, or waits for its last
   edge, or is done and perhaps armed again. *)
BHolds ==
  IF Over THEN IF bSck = 1 THEN bTransfer /\ bCount = Width - 1 /\ bSB = sentA
                           ELSE bTransfer => bCount = 0 /\ bSdo = bSB[1]
          ELSE /\ bTransfer
               /\ Wire = 1 => count = bCount
               /\ Wire = 0 => count + sck = bCount + bSck
               /\ Holds(bSB, sentB, sentA, bCount + bSck) /\ bSdo = sentB[bCount + 1]

LinkInv == LinkTypes /\ WireInv /\ AHolds /\ BHolds

(* The divider is one further in its half-period, on the same level, or at the
   start of one. *)
StepsOnce(d, t, e) ==
  \/ /\ (d % t) + 1 < t /\ e % t = (d % t) + 1
     /\ (e \div t) % 2 = (d \div t) % 2
  \/ (d % t) + 1 = t /\ e % t = 0

LEMMA DividerSteps ==
  ASSUME NEW d \in Nat, NEW t \in Nat \ {0, 1}, NEW s \in Nat \ {0}, s % t = 0, d < 2 * s,
         NEW e, e = (d + 1) % (2 * s)
  PROVE  StepsOnce(d, t, e)
<1> DEFINE q == d \div t
           r == d % t
<1>1. q \in Nat /\ r \in 0..(t - 1) /\ d = t * q + r
  BY SMT
<1>2. CASE r + 1 < t
  <2>1. d + 1 = t * q + (r + 1) /\ r + 1 \in 0..(t - 1)
    BY <1>1, <1>2, SMT
  <2>2. (d + 1) \div t = q /\ (d + 1) % t = r + 1
    BY <1>1, <2>1, SMT
  <2>3. d + 1 # 2 * s
    <3>1. PICK m \in Nat : s = t * m
      <4>1. s = t * (s \div t) /\ s \div t \in Nat
        BY SMT
      <4> QED BY <4>1
    <3>2. 2 * s = t * (2 * m) /\ 2 * m \in Nat
      BY <3>1, SMT
    <3>3. (t * (2 * m)) % t = 0
      BY <3>2, NoRemainder
    <3>4. SUFFICES ASSUME d + 1 = 2 * s PROVE FALSE
      OBVIOUS
    <3>5. (d + 1) % t = 0
      BY <3>2, <3>3, <3>4
    <3> QED BY <1>1, <2>2, <3>5
  <2>4. e = d + 1
    BY <2>3, SMT
  <2> QED BY <1>2, <2>2, <2>4 DEF StepsOnce
<1>3. CASE r + 1 = t
  <2>1. d + 1 = t * (q + 1) /\ q + 1 \in Nat
    BY <1>1, <1>3, SMT
  <2>2. (t * (q + 1)) % t = 0
    BY <2>1, NoRemainder
  <2>3. CASE d + 1 = 2 * s
    <3>1. e = 0
      BY <2>3, SMT
    <3>2. 0 % t = 0
      BY SMT
    <3> QED BY <1>3, <3>1, <3>2 DEF StepsOnce
  <2>4. CASE d + 1 < 2 * s
    <3>1. e = d + 1
      BY <2>4, SMT
    <3> QED BY <1>3, <2>1, <2>2, <3>1 DEF StepsOnce
  <2> QED BY <2>3, <2>4
<1> HIDE DEF q, r
<1>4. r + 1 < t \/ r + 1 = t
  BY <1>1
<1> QED BY <1>2, <1>3, <1>4 DEF q, r, StepsOnce

LEMMA HeldBit ==
  ASSUME NEW sb, NEW mine, NEW theirs, NEW n, Holds(sb, mine, theirs, n), NEW i \in 1..Width
  PROVE  sb[i] = IF i <= Width - n THEN mine[i + n] ELSE theirs[i - (Width - n)]
BY DEF Holds

(* One bit more: the register lets its oldest bit go. *)
LEMMA HoldsMore ==
  ASSUME NEW sb \in Bytes, NEW mine \in Bytes, NEW theirs \in Bytes, NEW n \in 0..(Width - 1),
         Holds(sb, mine, theirs, n)
  PROVE  Holds([i \in 1..Width |-> IF i = Width THEN theirs[n + 1] ELSE sb[i + 1]],
               mine, theirs, n + 1)
<1> DEFINE new == [i \in 1..Width |-> IF i = Width THEN theirs[n + 1] ELSE sb[i + 1]]
<1>1. Width \in Nat \ {0}
  BY SerialAssumption
<1>2. ASSUME NEW i \in 1..Width
      PROVE  new[i] = IF i <= Width - (n + 1) THEN mine[i + (n + 1)]
                        ELSE theirs[i - (Width - (n + 1))]
  <2>1. CASE i = Width
    <3>1. ~(i <= Width - (n + 1)) /\ i - (Width - (n + 1)) = n + 1
      BY <1>1, <2>1
    <3> QED BY <2>1, <3>1
  <2>2. CASE i # Width
    <3>1. i + 1 \in 1..Width /\ new[i] = sb[i + 1]
      BY <1>1, <2>2
    <3>2. sb[i + 1] = IF i + 1 <= Width - n THEN mine[(i + 1) + n] ELSE theirs[(i + 1) - (Width - n)]
      BY <3>1, HeldBit
    <3>3. i \in Nat /\ n \in Nat
      OBVIOUS
    <3>4. /\ i + 1 <= Width - n <=> i <= Width - (n + 1)
          /\ (i + 1) + n = i + (n + 1)
          /\ (i + 1) - (Width - n) = i - (Width - (n + 1))
      BY <1>1, <3>3
    <3> HIDE DEF new
    <3> QED BY <3>1, <3>2, <3>4
  <2> QED BY <2>1, <2>2
<1> QED BY <1>2 DEF Holds

(* At first it is all its own, at last all theirs, and in between its head is
   the next bit. *)
LEMMA HoldsEnds ==
  ASSUME NEW sb \in Bytes, NEW mine \in Bytes, NEW theirs \in Bytes
  PROVE  /\ Holds(sb, sb, theirs, 0)
         /\ Holds(sb, mine, theirs, Width) => sb = theirs
         /\ \A n \in 0..(Width - 1) : Holds(sb, mine, theirs, n) => sb[1] = mine[n + 1]
<1>1. Width \in Nat \ {0}
  BY SerialAssumption
<1>2. Holds(sb, sb, theirs, 0)
  BY <1>1 DEF Holds
<1>3. ASSUME Holds(sb, mine, theirs, Width) PROVE sb = theirs
  <2>1. ASSUME NEW i \in 1..Width PROVE sb[i] = theirs[i]
    <3>1. ~(i <= Width - Width) /\ i - (Width - Width) = i
      BY <1>1
    <3> QED BY <1>3, <3>1, HeldBit
  <2>2. sb = [i \in 1..Width |-> sb[i]] /\ theirs = [i \in 1..Width |-> theirs[i]]
    BY DEF Bytes
  <2> QED BY <2>1, <2>2, Zenon
<1>4. ASSUME NEW n \in 0..(Width - 1), Holds(sb, mine, theirs, n) PROVE sb[1] = mine[n + 1]
  <2>1. 1 \in 1..Width /\ 1 <= Width - n /\ 1 + n = n + 1
    BY <1>1
  <2> QED BY <1>4, <2>1 DEF Holds
<1> QED BY <1>2, <1>3, <1>4

(* The tap and the clock of A. *)
LEMMA WireIs ==
  ASSUME LinkTypes
  PROVE  /\ Tap \in Nat \ {0, 1} /\ SlowTap \in Nat \ {0} /\ SlowTap % Tap = 0
         /\ FastTap \in Nat /\ FastTap <= Tap
         /\ internal => Wire = (divider \div Tap) % 2
         /\ ~internal => Wire = 0
         /\ Wire \in {0, 1}
         /\ Since \in Nat
<1>1. /\ FastTap \in Nat \ {0, 1} /\ SlowTap \in Nat \ {0, 1} /\ SlowTap % FastTap = 0
  BY SerialAssumption
<1>2. SlowTap % SlowTap = 0 /\ FastTap <= SlowTap
  BY <1>1, SMT
<1>3. Tap \in Nat \ {0, 1} /\ SlowTap % Tap = 0 /\ FastTap <= Tap
  BY <1>1, <1>2 DEF Tap
<1>4. /\ internal => Wire = (divider \div Tap) % 2
      /\ ~internal => Wire = 0
  BY DEF Wire, sck_o, Tap
<1>5. divider \in Nat
  BY <1>1 DEF LinkTypes
<1>6. Wire \in {0, 1}
  BY <1>3, <1>4, <1>5, ClockLevel
<1>7. Since \in Nat
  BY <1>3, <1>5, SMT DEF Since
<1> QED BY <1>1, <1>3, <1>4, <1>6, <1>7

(* B gives no clock, and sees A's. *)
LEMMA Cable ==
  ASSUME LinkTypes
  PROVE  B!sck_o = 0 /\ B!Clock(sck_o) = Wire
         /\ (internal => Clock(B!sck_o) = Wire)
         /\ (~internal => Clock(B!sck_o) = 0)
<1>1. bInternal = FALSE
  BY DEF LinkTypes
<1>2. B!sck_o = 0 /\ B!Clock(sck_o) = Wire
  BY <1>1 DEF Wire, B!sck_o, B!Clock
<1> QED BY <1>2 DEF Wire, Clock

(* A cycle of A's transfer: with no edge to see, with a rising one, with a
   falling one. *)
LEMMA AShiftsMoves ==
  ASSUME LinkInv, ACycle, AShifts
  PROVE  /\ transfer /\ internal /\ internal' = internal /\ fast' = fast
         /\ sck' = Wire /\ divider' = (divider + 1) % (2 * SlowTap)
         /\ sck = Wire => UNCHANGED <<SB_reg, sdo, count>> /\ transfer'
         /\ sck # Wire /\ Wire = 1 =>
              /\ SB_reg' = [i \in 1..Width |-> IF i = Width THEN bSdo ELSE SB_reg[i + 1]]
              /\ UNCHANGED <<sdo, count>> /\ transfer'
         /\ sck # Wire /\ Wire = 0 =>
              /\ SB_reg' = SB_reg /\ sdo' = SB_reg[1] /\ count' = (count + 1) % Width
              /\ transfer' <=> count # Width - 1
<1>1. transfer /\ internal /\ sck \in {0, 1} /\ Wire \in {0, 1}
  <2>1. LinkTypes /\ WireInv
    BY DEF LinkInv
  <2>2. transfer
    BY DEF AShifts, Busy
  <2>3. internal
    BY <2>1, <2>2 DEF WireInv
  <2>4. sck \in {0, 1}
    BY <2>1 DEF LinkTypes
  <2> QED BY <2>1, <2>2, <2>3, <2>4, WireIs
<1>2. Clock(B!sck_o) = Wire
  BY <1>1, Cable DEF LinkInv
<1>3. /\ Posedge(B!sck_o) <=> (Wire = 1 /\ sck = 0)
      /\ Negedge(B!sck_o) <=> (Wire = 0 /\ sck = 1)
  BY <1>2 DEF Posedge, Negedge
<1>4. /\ sck' = Wire /\ divider' = (divider + 1) % (2 * SlowTap)
      /\ SB_reg' = IF Wire = 1 /\ sck = 0 THEN Shifted(bSdo) ELSE SB_reg
      /\ sdo' = IF Wire = 0 /\ sck = 1 THEN SB_reg[1] ELSE sdo
      /\ count' = IF Wire = 0 /\ sck = 1 THEN (count + 1) % Width ELSE count
      /\ fast' = fast /\ internal' = internal
  BY <1>2, <1>3 DEF AShifts, Busy
<1>5. transfer' <=> ~(Wire = 0 /\ sck = 1 /\ count = Width - 1)
  BY <1>1, <1>3 DEF AShifts, Busy, Finished
<1> QED BY <1>1, <1>4, <1>5 DEF Shifted

LEMMA BShiftsMoves ==
  ASSUME LinkInv, BCycle, BShifts
  PROVE  /\ bTransfer /\ bInternal' = bInternal /\ bSck' = Wire
         /\ bSck = Wire => UNCHANGED <<bSB, bSdo, bCount>> /\ bTransfer'
         /\ bSck # Wire /\ Wire = 1 =>
              /\ bSB' = [i \in 1..Width |-> IF i = Width THEN sdo ELSE bSB[i + 1]]
              /\ UNCHANGED <<bSdo, bCount>> /\ bTransfer'
         /\ bSck # Wire /\ Wire = 0 =>
              /\ bSB' = bSB /\ bSdo' = bSB[1] /\ bCount' = (bCount + 1) % Width
              /\ bTransfer' <=> bCount # Width - 1
<1>1. bTransfer /\ bSck \in {0, 1} /\ Wire \in {0, 1}
  <2>1. LinkTypes
    BY DEF LinkInv
  <2>2. bTransfer
    BY DEF BShifts, B!Busy
  <2>3. bSck \in {0, 1}
    BY <2>1 DEF LinkTypes
  <2> QED BY <2>1, <2>2, <2>3, WireIs
<1>2. B!Clock(sck_o) = Wire
  BY Cable DEF LinkInv
<1>3. /\ B!Posedge(sck_o) <=> (Wire = 1 /\ bSck = 0)
      /\ B!Negedge(sck_o) <=> (Wire = 0 /\ bSck = 1)
  BY <1>2 DEF B!Posedge, B!Negedge
<1>4. /\ bSck' = Wire
      /\ bSB' = IF Wire = 1 /\ bSck = 0 THEN B!Shifted(sdo) ELSE bSB
      /\ bSdo' = IF Wire = 0 /\ bSck = 1 THEN bSB[1] ELSE bSdo
      /\ bCount' = IF Wire = 0 /\ bSck = 1 THEN (bCount + 1) % Width ELSE bCount
      /\ bInternal' = bInternal
  BY <1>2, <1>3 DEF BShifts, B!Busy
<1>5. bTransfer' <=> ~(Wire = 0 /\ bSck = 1 /\ bCount = Width - 1)
  BY <1>1, <1>3 DEF BShifts, B!Busy, B!Finished
<1> QED BY <1>1, <1>4, <1>5 DEF B!Shifted

(* The next cycle of A's clock is on the same level, or starts a half-period. *)
LEMMA ClockMoves ==
  ASSUME LinkInv, ACycle, AShifts
  PROVE  /\ Wire' \in {0, 1} /\ Since' \in Nat /\ Since \in Nat /\ Tap \in Nat \ {0, 1}
         /\ \/ Since + 1 < Tap /\ Since' = Since + 1 /\ Wire' = Wire
            \/ Since + 1 = Tap /\ Since' = 0
<1>1. LinkTypes
  BY DEF LinkInv
<1>2. /\ Tap \in Nat \ {0, 1} /\ SlowTap \in Nat \ {0} /\ SlowTap % Tap = 0
      /\ Since \in Nat
  BY <1>1, WireIs
<1>3. /\ divider \in Nat /\ divider < 2 * SlowTap
      /\ (divider + 1) % (2 * SlowTap) \in Nat
  <2>1. divider \in 0..(2 * SlowTap - 1) /\ SlowTap \in Nat \ {0}
    BY <1>1, <1>2 DEF LinkTypes
  <2> QED BY <2>1
<1>4. /\ internal /\ internal' = internal /\ fast' = fast
      /\ divider' = (divider + 1) % (2 * SlowTap)
  BY AShiftsMoves
<1>5. Tap' = Tap
  BY <1>4 DEF Tap
<1>6. /\ Wire = (divider \div Tap) % 2
      /\ Wire' = (divider' \div Tap) % 2
      /\ Since = divider % Tap /\ Since' = divider' % Tap
  <2>1. Wire = (divider \div Tap) % 2
    BY <1>1, <1>4, WireIs
  <2>2. Wire' = (divider' \div Tap') % 2
    BY <1>4 DEF Wire, sck_o, Tap
  <2>3. Since = divider % Tap /\ Since' = divider' % Tap'
    BY DEF Since
  <2> QED BY <1>5, <2>1, <2>2, <2>3
<1> DEFINE e == (divider + 1) % (2 * SlowTap)
<1>7. StepsOnce(divider, Tap, e)
  <2>1. e = (divider + 1) % (2 * SlowTap)
    OBVIOUS
  <2>2. divider \in Nat /\ divider < 2 * SlowTap /\ SlowTap % Tap = 0
    BY <1>2, <1>3
  <2> HIDE DEF e
  <2>3. Tap \in Nat \ {0, 1} /\ SlowTap \in Nat \ {0}
    BY <1>2
  <2> QED BY <2>1, <2>2, <2>3, DividerSteps
<1>8. Wire' = (e \div Tap) % 2 /\ Since' = e % Tap
  BY <1>4, <1>6
<1>9. (e \div Tap) % 2 \in {0, 1} /\ e % Tap \in Nat
  <2>1. e \in Nat
    BY <1>3
  <2> HIDE DEF e
  <2>2. (e \div Tap) % 2 \in {0, 1}
    BY <1>2, <2>1, ClockLevel
  <2>3. e % Tap \in Nat
    BY <1>2, <2>1, SMT
  <2> QED BY <2>2, <2>3
<1>10. \/ Since + 1 < Tap /\ Since' = Since + 1 /\ Wire' = Wire
       \/ Since + 1 = Tap /\ Since' = 0
  <2> HIDE DEF e
  <2> QED BY <1>6, <1>7, <1>8 DEF StepsOnce
<1> HIDE DEF e
<1> QED BY <1>2, <1>8, <1>9, <1>10

(* B has seen every edge before the clock moves again: the bound on the drift. *)
LEMMA EdgesAreSeen ==
  ASSUME LinkInv, DriftsLittle, ACycle, AShifts
  PROVE  /\ Since + 1 = Tap => bSck = Wire
         /\ bSck # Wire' => Since' < lead'
         /\ lead' \in Int /\ lead' <= Drift
<1>1. /\ Since \in Nat /\ Since' \in Nat
      /\ \/ Since + 1 < Tap /\ Since' = Since + 1 /\ Wire' = Wire
         \/ Since + 1 = Tap /\ Since' = 0
  BY ClockMoves
<1>2. lead \in Int /\ bSck \in {0, 1} /\ (bSck # Wire => Since < lead)
  <2>1. LinkTypes /\ WireInv
    BY DEF LinkInv
  <2>2. transfer
    BY AShiftsMoves
  <2> QED BY <2>1, <2>2 DEF LinkTypes, WireInv
<1>3. Drift \in Nat \ {0} /\ Drift <= Tap /\ Tap \in Nat
  <2>1. Tap \in Nat /\ FastTap \in Nat /\ FastTap <= Tap
    BY WireIs DEF LinkInv
  <2> QED BY <2>1, LinkAssumption DEF DriftsLittle
<1>4. lead < Drift /\ lead' = IF lead < 0 THEN 1 ELSE lead + 1
  BY DEF ACycle
<1>5. lead' \in Int /\ lead' <= Drift /\ lead' >= 1 /\ (lead > 0 => lead' = lead + 1)
  BY <1>2, <1>3, <1>4
<1>6. Since + 1 = Tap => bSck = Wire
  <2>1. lead < Drift /\ lead \in Int /\ Since \in Nat
    BY <1>1, <1>2, <1>4
  <2>2. Since < lead => Since + 1 < Tap
    BY <1>3, <2>1
  <2> QED BY <1>2, <1>3, <2>1, <2>2
<1>7. ASSUME bSck # Wire' PROVE Since' < lead'
  <2>1. CASE Wire' = Wire /\ Since' = Since + 1
    <3>1. Since < lead
      BY <1>2, <1>7, <2>1
    <3>2. lead' = lead + 1
      BY <1>1, <1>2, <1>5, <3>1
    <3> QED BY <1>1, <1>2, <2>1, <3>1, <3>2
  <2>2. CASE Since' = 0
    BY <1>5, <2>2
  <2> QED BY <1>1, <2>1, <2>2
<1> QED BY <1>5, <1>6, <1>7

LEMMA AShiftsKeep ==
  ASSUME LinkInv, DriftsLittle, ACycle, AShifts
  PROVE  LinkInv' /\ (~transfer' => SB_reg' = sentB)
<1>1. LinkTypes /\ WireInv /\ AHolds /\ BHolds
  BY DEF LinkInv
<1>2. /\ Width \in Nat \ {0}
      /\ SB_reg \in Bytes /\ bSB \in Bytes /\ sentA \in Bytes /\ sentB \in Bytes
      /\ sck \in {0, 1} /\ bSck \in {0, 1} /\ count \in 0..(Width - 1) /\ bCount \in 0..(Width - 1)
      /\ sdo \in {0, 1} /\ bSdo \in {0, 1}
  BY <1>1, SerialAssumption DEF LinkTypes
<1>3. /\ transfer /\ internal /\ internal' = internal /\ fast' = fast
      /\ sck' = Wire /\ divider' = (divider + 1) % (2 * SlowTap)
  BY AShiftsMoves
<1>4. sck = Wire => UNCHANGED <<SB_reg, sdo, count>> /\ transfer'
  BY AShiftsMoves
<1>5. sck # Wire /\ Wire = 1 =>
        /\ SB_reg' = [i \in 1..Width |-> IF i = Width THEN bSdo ELSE SB_reg[i + 1]]
        /\ UNCHANGED <<sdo, count>> /\ transfer'
  BY AShiftsMoves
<1>6. sck # Wire /\ Wire = 0 =>
        /\ SB_reg' = SB_reg /\ sdo' = SB_reg[1] /\ count' = (count + 1) % Width
        /\ transfer' <=> count # Width - 1
  BY AShiftsMoves
<1>7. UNCHANGED <<bSB, bTransfer, bFast, bInternal, bDivider, bSck, bSdo, bCount, sentA, sentB>>
  BY <1>3 DEF ACycle, bvars
<1>8. /\ Wire \in {0, 1} /\ Wire' \in {0, 1} /\ Since \in Nat /\ Tap \in Nat \ {0, 1}
      /\ \/ Since + 1 < Tap /\ Since' = Since + 1 /\ Wire' = Wire
         \/ Since + 1 = Tap /\ Since' = 0
  BY <1>1, ClockMoves, WireIs
<1>9. /\ Since + 1 = Tap => bSck = Wire
      /\ bSck # Wire' => Since' < lead'
      /\ lead' \in Int /\ lead' <= Drift
  BY EdgesAreSeen
<1>10. sck # Wire => Wire' = Wire
  <2>1. sck # Wire => Since = 0
    BY <1>1, <1>3 DEF WireInv
  <2>2. Since = 0 => Since + 1 < Tap
    BY <1>8
  <2> QED BY <1>8, <2>1, <2>2
<1>11. /\ Holds(SB_reg, sentA, sentB, count + sck)
       /\ sdo = sentA[count + 1]
  BY <1>1, <1>3 DEF AHolds
<1>12. LinkTypes'
  <2>1. SB_reg' \in Bytes /\ sdo' \in {0, 1} /\ count' \in 0..(Width - 1) /\ transfer' \in BOOLEAN
    <3>1. CASE sck = Wire
      BY <1>2, <1>4, <3>1
    <3>2. CASE sck # Wire /\ Wire = 1
      BY <1>2, <1>5, <3>2 DEF Bytes
    <3>3. CASE sck # Wire /\ Wire = 0
      <4>1. SB_reg[1] \in {0, 1}
        BY <1>2 DEF Bytes
      <4>2. (count + 1) % Width \in 0..(Width - 1)
        BY <1>2
      <4>3. transfer' \in BOOLEAN
        BY DEF AShifts, Busy
      <4> QED BY <1>2, <1>6, <3>3, <4>1, <4>2, <4>3
    <3> QED BY <1>8, <3>1, <3>2, <3>3
  <2>2. divider' \in 0..(2 * SlowTap - 1)
    <3>1. divider \in Nat /\ SlowTap \in Nat \ {0}
      <4>1. SlowTap \in Nat \ {0}
        BY <1>1, WireIs
      <4>2. divider \in 0..(2 * SlowTap - 1)
        BY <1>1 DEF LinkTypes
      <4> QED BY <4>1, <4>2
    <3>2. (divider + 1) % (2 * SlowTap) \in 0..(2 * SlowTap - 1)
      BY <3>1
    <3> QED BY <1>3, <3>2
  <2> QED BY <1>1, <1>3, <1>7, <1>8, <1>9, <2>1, <2>2 DEF LinkTypes
<1>13. WireInv'
  <2>1. ~transfer' => sck' = 0 /\ Wire' = 0
    BY <1>3, <1>4, <1>5, <1>6, <1>8, <1>10
  <2>2. sck' # Wire' => Since' = 0
    BY <1>3, <1>8
  <2>3. bSck' # Wire' => Since' < lead'
    BY <1>7, <1>9
  <2> QED BY <1>3, <2>1, <2>2, <2>3 DEF WireInv
<1>14. CASE sck = Wire
  <2>1. count' = count /\ SB_reg' = SB_reg /\ sdo' = sdo /\ sck' = sck /\ transfer'
    BY <1>3, <1>4, <1>14
  <2>2. AHolds'
    BY <1>7, <1>11, <2>1 DEF AHolds
  <2>3. ~Over
    BY <1>2, <1>3, <1>14 DEF Over
  <2>4. /\ bTransfer
        /\ Wire = 1 => count = bCount
        /\ Wire = 0 => count + sck = bCount + bSck
        /\ Holds(bSB, sentB, sentA, bCount + bSck) /\ bSdo = sentB[bCount + 1]
    BY <1>1, <2>3 DEF BHolds
  <2>5. Over' <=> Wire' = 0 /\ count + sck = Width
    BY <2>1 DEF Over
  <2>6. Holds(bSB, sentB, sentA, bCount + bSck)' /\ bSdo' = sentB'[bCount' + 1] /\ bTransfer'
    BY <1>7, <2>4
  <2>7. Wire' = 1 => count' = bCount'
    BY <1>2, <1>7, <1>8, <1>9, <1>14, <2>1, <2>4
  <2>8. Wire' = 0 => count' + sck' = bCount' + bSck'
    <3>1. Wire' = 0 => count + sck = bCount + bSck
      BY <1>2, <1>8, <1>9, <1>14, <2>4
    <3> QED BY <1>7, <2>1, <3>1
  <2>9. BHolds'
    <3>1. CASE ~Over'
      BY <2>6, <2>7, <2>8, <3>1 DEF BHolds
    <3>2. CASE Over'
      <4>1. Wire' = 0 /\ count + sck = Width
        BY <2>5, <3>2
      <4>2. count + sck = bCount + bSck
        BY <1>7, <2>1, <2>8, <4>1
      <4>3. sck = 1 /\ Wire = 1
        BY <1>2, <1>14, <4>1
      <4>4. bSck = 1 /\ bCount = Width - 1
        BY <1>2, <1>8, <1>9, <4>1, <4>2, <4>3
      <4>5. bCount + bSck = Width
        BY <4>1, <4>2
      <4>6. bSB = sentA
        BY <1>2, <2>4, <4>5, HoldsEnds
      <4> QED BY <1>7, <2>4, <3>2, <4>4, <4>6 DEF BHolds
    <3> QED BY <3>1, <3>2
  <2> QED BY <1>12, <1>13, <2>1, <2>2, <2>9 DEF LinkInv
<1>15. CASE sck # Wire /\ Wire = 1
  <2>1. /\ SB_reg' = [i \in 1..Width |-> IF i = Width THEN bSdo ELSE SB_reg[i + 1]]
        /\ sdo' = sdo /\ count' = count /\ transfer' /\ sck' = 1 /\ sck = 0 /\ Wire' = 1
    BY <1>2, <1>3, <1>5, <1>10, <1>15
  <2>2. ~Over /\ ~Over'
    BY <1>3, <1>15, <2>1 DEF Over
  <2>3. /\ bTransfer /\ count = bCount
        /\ Holds(bSB, sentB, sentA, bCount + bSck) /\ bSdo = sentB[bCount + 1]
    BY <1>1, <1>15, <2>2 DEF BHolds
  <2>4. Holds(SB_reg', sentA, sentB, count + 1)
    <3>1. count + sck = count
      BY <1>2, <2>1
    <3>2. bSdo = sentB[count + 1]
      BY <2>3
    <3>3. Holds([i \in 1..Width |-> IF i = Width THEN sentB[count + 1] ELSE SB_reg[i + 1]],
                sentA, sentB, count + 1)
      BY <1>2, <1>11, <3>1, HoldsMore
    <3> QED BY <2>1, <3>2, <3>3
  <2>5. AHolds'
    BY <1>7, <1>11, <2>1, <2>4 DEF AHolds
  <2>6. BHolds'
    BY <1>7, <2>1, <2>2, <2>3 DEF BHolds
  <2> QED BY <1>12, <1>13, <2>1, <2>5, <2>6 DEF LinkInv
<1>16. CASE sck # Wire /\ Wire = 0 /\ count = Width - 1
  <2>1. SB_reg' = SB_reg /\ ~transfer' /\ sck = 1
    BY <1>2, <1>6, <1>16
  <2>2. Over /\ Over'
    BY <1>2, <1>3, <1>16, <2>1 DEF Over
  <2>3. AHolds'
    BY <2>1 DEF AHolds
  <2>4. BHolds'
    BY <1>1, <1>7, <2>2 DEF BHolds
  <2>5. count + sck = Width
    BY <1>2, <1>16, <2>1
  <2>6. SB_reg = sentB
    BY <1>2, <1>11, <2>5, HoldsEnds
  <2> QED BY <1>12, <1>13, <2>1, <2>3, <2>4, <2>6 DEF LinkInv
<1>17. CASE sck # Wire /\ Wire = 0 /\ count # Width - 1
  <2>1. count' = count + 1
    <3>1. count + 1 \in 0..(Width - 1)
      BY <1>2, <1>17
    <3>2. (count + 1) % Width = count + 1
      BY <1>2, <3>1
    <3> QED BY <1>6, <1>17, <3>2
  <2>2. SB_reg' = SB_reg /\ sdo' = SB_reg[1] /\ transfer' /\ sck = 1 /\ sck' = 0 /\ Wire' = 0
    BY <1>2, <1>3, <1>6, <1>10, <1>17
  <2>3. count' + sck' = count + sck /\ count + sck = count + 1 /\ count + 1 \in 0..(Width - 1)
    BY <1>2, <1>17, <2>1, <2>2
  <2>4. ~Over /\ ~Over'
    BY <1>2, <1>3, <1>17, <2>2, <2>3 DEF Over
  <2>5. SB_reg[1] = sentA[(count + 1) + 1]
    BY <1>2, <1>11, <2>3, HoldsEnds
  <2>6. AHolds'
    BY <1>7, <1>11, <2>1, <2>2, <2>3, <2>5 DEF AHolds
  <2>7. BHolds'
    <3>1. /\ bTransfer /\ count + sck = bCount + bSck
          /\ Holds(bSB, sentB, sentA, bCount + bSck) /\ bSdo = sentB[bCount + 1]
      BY <1>1, <1>17, <2>4 DEF BHolds
    <3> QED BY <1>7, <2>2, <2>3, <2>4, <3>1 DEF BHolds
  <2> QED BY <1>12, <1>13, <2>2, <2>6, <2>7 DEF LinkInv
<1> QED BY <1>8, <1>14, <1>15, <1>16, <1>17

(* A cycle of A between transfers: the clock line stays down. *)
LEMMA ARests ==
  ASSUME LinkInv, AWaits \/ ALoads \/ AStarts
  PROVE  /\ ~transfer /\ Wire = 0 /\ sck' = 0 /\ Wire' = 0 /\ divider' = 0
         /\ SB_reg' \in Bytes /\ fast' \in BOOLEAN /\ internal' \in BOOLEAN /\ sdo' \in {0, 1}
         /\ count' \in 0..(Width - 1) /\ transfer' \in BOOLEAN
         /\ transfer' => /\ AStarts /\ bTransfer /\ bCount = 0 /\ bSck = 0
                         /\ internal' /\ count' = 0 /\ sdo' = SB_reg[1] /\ SB_reg' = SB_reg
<1>1. LinkTypes /\ WireInv
  BY DEF LinkInv
<1>2. Rest(B!sck_o)
  BY DEF AWaits, ALoads, AStarts, Quiet, WriteSB, WriteSC
<1>3. ~transfer /\ sck' = Clock(B!sck_o) /\ divider' = 0
  BY <1>2 DEF Rest
<1>4. Wire = 0
  BY <1>1, <1>3 DEF WireInv
<1>5. sck' = 0
  <2>1. internal \in BOOLEAN
    BY <1>1 DEF LinkTypes
  <2> QED BY <1>1, <1>3, <1>4, <2>1, Cable
<1>6. Wire' = 0
  <2>1. Tap' \in Nat \ {0}
    BY SerialAssumption DEF Tap
  <2>2. Wire' = IF internal' THEN (divider' \div Tap') % 2 ELSE 0
    BY DEF Wire, sck_o, Tap
  <2>3. (0 \div Tap') % 2 = 0
    BY <2>1, ZeroLow
  <2> QED BY <1>3, <2>2, <2>3
<1>7. /\ SB_reg \in Bytes /\ fast \in BOOLEAN /\ internal \in BOOLEAN /\ sdo \in {0, 1}
      /\ count \in 0..(Width - 1) /\ transfer \in BOOLEAN
  BY <1>1 DEF LinkTypes
<1>8. 1 \in 1..Width /\ 0 \in 0..(Width - 1)
  BY SerialAssumption
<1>9. CASE AWaits
  <2>1. UNCHANGED <<SB_reg, transfer, fast, internal, sdo, count>>
    BY <1>9 DEF AWaits, Quiet
  <2> QED BY <1>3, <1>4, <1>5, <1>6, <1>7, <2>1
<1>10. CASE ALoads
  <2>1. UNCHANGED <<transfer, fast, internal, sdo, count>> /\ SB_reg' \in Bytes
    BY <1>10 DEF ALoads, WriteSB, Bytes
  <2> QED BY <1>3, <1>4, <1>5, <1>6, <1>7, <2>1
<1>11. CASE AStarts
  <2>1. /\ bTransfer /\ bCount = 0 /\ bSck = 0
        /\ transfer' /\ fast' \in BOOLEAN /\ internal' /\ count' = 0 /\ sdo' = SB_reg[1]
        /\ SB_reg' = SB_reg
    BY <1>11 DEF AStarts, Armed, WriteSC
  <2>2. SB_reg[1] \in {0, 1}
    BY <1>7, <1>8 DEF Bytes
  <2>3. internal' \in BOOLEAN /\ transfer' \in BOOLEAN
    BY <1>11 DEF AStarts, WriteSC
  <2> QED BY <1>3, <1>4, <1>5, <1>6, <1>7, <1>8, <1>11, <2>1, <2>2, <2>3
<1> QED BY <1>9, <1>10, <1>11

LEMMA ARestsKeep ==
  ASSUME LinkInv, ACycle, AWaits \/ ALoads \/ AStarts
  PROVE  LinkInv'
<1>1. LinkTypes /\ WireInv /\ AHolds /\ BHolds
  BY DEF LinkInv
<1>2. /\ ~transfer /\ Wire = 0 /\ sck' = 0 /\ Wire' = 0 /\ divider' = 0
      /\ SB_reg' \in Bytes /\ fast' \in BOOLEAN /\ internal' \in BOOLEAN /\ sdo' \in {0, 1}
      /\ count' \in 0..(Width - 1) /\ transfer' \in BOOLEAN
  BY ARests
<1>3. transfer' => /\ bTransfer /\ bCount = 0 /\ bSck = 0
                   /\ internal' /\ count' = 0 /\ sdo' = SB_reg[1] /\ SB_reg' = SB_reg
  BY ARests
<1>4. UNCHANGED <<bSB, bTransfer, bFast, bInternal, bDivider, bSck, bSdo, bCount>>
  BY DEF ACycle, bvars
<1>5. /\ sentA' = IF transfer' THEN SB_reg ELSE sentA
      /\ sentB' = IF transfer' THEN bSB ELSE sentB
  BY <1>2 DEF ACycle
<1>6. /\ SB_reg \in Bytes /\ bSB \in Bytes /\ sentA \in Bytes /\ sentB \in Bytes
      /\ lead \in Int /\ lead <= Drift
  BY <1>1 DEF LinkTypes
<1>7. lead' \in Int /\ lead' <= Drift
  <2>1. lead < Drift /\ lead' = IF lead < 0 THEN 1 ELSE lead + 1
    BY DEF ACycle
  <2>2. Drift \in Nat \ {0}
    BY LinkAssumption
  <2> QED BY <1>6, <2>1, <2>2
<1>8. LinkTypes'
  <2>1. divider' \in 0..(2 * SlowTap - 1)
    <3>1. 0 \in 0..(2 * SlowTap - 1)
      BY SerialAssumption
    <3> QED BY <1>2, <3>1
  <2>2. sentA' \in Bytes /\ sentB' \in Bytes
    BY <1>5, <1>6
  <2>3. Bytes' = Bytes
    BY DEF Bytes
  <2> QED BY <1>1, <1>2, <1>4, <1>7, <2>1, <2>2 DEF LinkTypes
<1>9. WireInv'
  <2>1. transfer' => internal' /\ bSck' = 0
    BY <1>3, <1>4
  <2> QED BY <1>2, <2>1 DEF WireInv
<1>10. Over
  BY <1>2 DEF Over
<1>11. CASE ~transfer'
  <2>1. AHolds'
    BY <1>11 DEF AHolds
  <2>2. Over' /\ sentA' = sentA
    BY <1>5, <1>11 DEF Over
  <2>3. BHolds'
    BY <1>1, <1>4, <1>10, <2>2 DEF BHolds
  <2> QED BY <1>8, <1>9, <2>1, <2>3 DEF LinkInv
<1>12. CASE transfer'
  <2>1. /\ bTransfer /\ bCount = 0 /\ bSck = 0
        /\ internal' /\ count' = 0 /\ sdo' = SB_reg[1] /\ SB_reg' = SB_reg
        /\ sentA' = SB_reg /\ sentB' = bSB
    BY <1>3, <1>5, <1>12
  <2>2. Holds(SB_reg, SB_reg, bSB, 0) /\ Holds(bSB, bSB, SB_reg, 0)
    BY <1>6, HoldsEnds
  <2>3. 0 + 0 = 0 /\ 0 + 1 = 1 /\ Width # 0
    BY SerialAssumption
  <2>4. AHolds'
    BY <1>2, <2>1, <2>2, <2>3 DEF AHolds
  <2>5. ~Over'
    BY <1>2, <1>12, <2>1, <2>3 DEF Over
  <2>6. bSdo = bSB[1]
    BY <1>1, <1>10, <2>1 DEF BHolds
  <2>7. BHolds'
    BY <1>2, <1>4, <2>1, <2>2, <2>3, <2>5, <2>6 DEF BHolds
  <2> QED BY <1>8, <1>9, <2>4, <2>7 DEF LinkInv
<1> QED BY <1>2, <1>11, <1>12

(* A cycle of B leaves A, its clock and the bytes sent as they are. *)
LEMMA BLeaves ==
  ASSUME LinkInv, BCycle
  PROVE  /\ UNCHANGED <<SB_reg, transfer, fast, internal, divider, sck, sdo, count, sentA, sentB>>
         /\ Wire' = Wire /\ Since' = Since /\ (Over' <=> Over)
         /\ lead' \in Int /\ lead' <= Drift
<1>1. UNCHANGED <<SB_reg, transfer, fast, internal, divider, sck, sdo, count, sentA, sentB>>
  BY DEF BCycle, vars
<1>2. Tap' = Tap
  BY <1>1 DEF Tap
<1>3. Since' = Since
  BY <1>1, <1>2 DEF Since
<1>4. Wire' = Wire
  BY <1>1 DEF Wire, sck_o, Tap
<1>5. Over' <=> Over
  BY <1>1, <1>4 DEF Over
<1>6. lead' \in Int /\ lead' <= Drift
  <2>1. lead \in Int /\ lead <= Drift
    BY DEF LinkInv, LinkTypes
  <2>2. lead' = IF lead > 0 THEN -1 ELSE lead - 1
    BY DEF BCycle
  <2>3. Drift \in Nat \ {0}
    BY LinkAssumption
  <2> QED BY <2>1, <2>2, <2>3
<1> QED BY <1>1, <1>3, <1>4, <1>5, <1>6

LEMMA BShiftsKeep ==
  ASSUME LinkInv, BCycle, BShifts
  PROVE  LinkInv' /\ (~bTransfer' => bSB' = sentA)
<1>1. LinkTypes /\ WireInv /\ AHolds /\ BHolds
  BY DEF LinkInv
<1>2. /\ Width \in Nat \ {0}
      /\ SB_reg \in Bytes /\ bSB \in Bytes /\ sentA \in Bytes /\ sentB \in Bytes
      /\ sck \in {0, 1} /\ bSck \in {0, 1} /\ count \in 0..(Width - 1) /\ bCount \in 0..(Width - 1)
      /\ sdo \in {0, 1} /\ bSdo \in {0, 1}
  BY <1>1, SerialAssumption DEF LinkTypes
<1>3. bTransfer /\ bInternal' = bInternal /\ bSck' = Wire
  BY BShiftsMoves
<1>4. bSck = Wire => UNCHANGED <<bSB, bSdo, bCount>> /\ bTransfer'
  BY BShiftsMoves
<1>5. bSck # Wire /\ Wire = 1 =>
        /\ bSB' = [i \in 1..Width |-> IF i = Width THEN sdo ELSE bSB[i + 1]]
        /\ UNCHANGED <<bSdo, bCount>> /\ bTransfer'
  BY BShiftsMoves
<1>6. bSck # Wire /\ Wire = 0 =>
        /\ bSB' = bSB /\ bSdo' = bSB[1] /\ bCount' = (bCount + 1) % Width
        /\ bTransfer' <=> bCount # Width - 1
  BY BShiftsMoves
<1>7. /\ UNCHANGED <<SB_reg, transfer, fast, internal, divider, sck, sdo, count, sentA, sentB>>
      /\ Wire' = Wire /\ Since' = Since /\ (Over' <=> Over)
      /\ lead' \in Int /\ lead' <= Drift
  BY BLeaves
<1>8. Wire \in {0, 1}
  BY <1>1, WireIs
<1>9. LinkTypes'
  <2>1. bSB' \in Bytes /\ bSdo' \in {0, 1} /\ bCount' \in 0..(Width - 1) /\ bTransfer' \in BOOLEAN
    <3>1. CASE bSck = Wire
      BY <1>2, <1>4, <3>1
    <3>2. CASE bSck # Wire /\ Wire = 1
      BY <1>2, <1>5, <3>2 DEF Bytes
    <3>3. CASE bSck # Wire /\ Wire = 0
      <4>1. bSB[1] \in {0, 1}
        BY <1>2 DEF Bytes
      <4>2. (bCount + 1) % Width \in 0..(Width - 1)
        BY <1>2
      <4>3. bTransfer' \in BOOLEAN
        BY DEF BShifts, B!Busy
      <4> QED BY <1>2, <1>6, <3>3, <4>1, <4>2, <4>3
    <3> QED BY <1>8, <3>1, <3>2, <3>3
  <2> QED BY <1>1, <1>3, <1>7, <1>8, <2>1 DEF LinkTypes
<1>10. WireInv'
  BY <1>1, <1>3, <1>7 DEF WireInv
<1>11. AHolds'
  BY <1>1, <1>7 DEF AHolds
<1>12. CASE bSck = Wire
  <2>1. bSB' = bSB /\ bSdo' = bSdo /\ bCount' = bCount /\ bSck' = bSck /\ bTransfer' /\ bTransfer
    BY <1>3, <1>4, <1>12
  <2>2. BHolds'
    BY <1>1, <1>7, <2>1 DEF BHolds
  <2> QED BY <1>9, <1>10, <1>11, <2>1, <2>2 DEF LinkInv
<1>13. CASE bSck # Wire /\ Wire = 1
  <2>1. /\ bSB' = [i \in 1..Width |-> IF i = Width THEN sdo ELSE bSB[i + 1]]
        /\ bSdo' = bSdo /\ bCount' = bCount /\ bTransfer' /\ bSck' = 1 /\ bSck = 0 /\ Wire' = 1
    BY <1>2, <1>3, <1>5, <1>7, <1>13
  <2>2. transfer
    BY <1>1, <1>13 DEF WireInv
  <2>3. ~Over /\ ~Over'
    BY <1>7, <1>13, <2>2 DEF Over
  <2>4. /\ count = bCount
        /\ Holds(bSB, sentB, sentA, bCount + bSck) /\ bSdo = sentB[bCount + 1]
    BY <1>1, <1>13, <2>3 DEF BHolds
  <2>5. Holds(bSB', sentB, sentA, bCount + 1)
    <3>1. bCount + bSck = bCount
      BY <1>2, <2>1
    <3>2. sdo = sentA[bCount + 1]
      BY <1>1, <2>2, <2>4 DEF AHolds
    <3>3. Holds([i \in 1..Width |-> IF i = Width THEN sentA[bCount + 1] ELSE bSB[i + 1]],
                sentB, sentA, bCount + 1)
      BY <1>2, <2>4, <3>1, HoldsMore
    <3> QED BY <2>1, <3>2, <3>3
  <2>6. BHolds'
    BY <1>7, <2>1, <2>3, <2>4, <2>5 DEF BHolds
  <2> QED BY <1>9, <1>10, <1>11, <2>1, <2>6 DEF LinkInv
<1>14. CASE bSck # Wire /\ Wire = 0
  <2>1. bSck = 1 /\ bSck' = 0 /\ bSB' = bSB /\ bSdo' = bSB[1] /\ Wire' = 0
    BY <1>2, <1>3, <1>6, <1>7, <1>14
  <2>2. CASE Over
    <3>1. bCount = Width - 1 /\ bSB = sentA
      BY <1>1, <2>1, <2>2 DEF BHolds
    <3>2. ~bTransfer'
      BY <1>6, <1>14, <3>1
    <3>3. BHolds'
      BY <1>7, <2>1, <2>2, <3>2 DEF BHolds
    <3> QED BY <1>9, <1>10, <1>11, <2>1, <3>1, <3>3 DEF LinkInv
  <2>3. CASE ~Over
    <3>1. /\ count + sck = bCount + bSck
          /\ Holds(bSB, sentB, sentA, bCount + bSck) /\ bSdo = sentB[bCount + 1]
      BY <1>1, <1>14, <2>3 DEF BHolds
    <3>2. count + sck # Width
      BY <1>14, <2>3 DEF Over
    <3>3. bCount + bSck = bCount + 1 /\ bCount + 1 \in 0..(Width - 1) /\ bCount # Width - 1
      <4>1. bCount + bSck = bCount + 1 /\ bCount + 1 # Width
        BY <1>2, <2>1, <3>1, <3>2
      <4> QED BY <1>2, <4>1
    <3>4. bCount' = bCount + 1
      <4>1. (bCount + 1) % Width = bCount + 1
        BY <1>2, <3>3
      <4> QED BY <1>6, <1>14, <4>1
    <3>5. bTransfer'
      BY <1>6, <1>14, <3>3
    <3>6. bSB[1] = sentB[(bCount + 1) + 1]
      BY <1>2, <3>1, <3>3, HoldsEnds
    <3>7. bCount' + bSck' = bCount + bSck
      <4>1. (bCount + 1) + 0 = bCount + 1
        BY <1>2
      <4> QED BY <2>1, <3>3, <3>4, <4>1
    <3>8. BHolds'
      BY <1>7, <2>1, <2>3, <3>1, <3>4, <3>5, <3>6, <3>7 DEF BHolds
    <3> QED BY <1>9, <1>10, <1>11, <3>5, <3>8 DEF LinkInv
  <2> QED BY <2>2, <2>3
<1> QED BY <1>8, <1>12, <1>13, <1>14

LEMMA BRestsKeep ==
  ASSUME LinkInv, BCycle, BWaits \/ BLoads \/ BArms
  PROVE  LinkInv' /\ ~bTransfer
<1>1. LinkTypes /\ WireInv /\ AHolds /\ BHolds
  BY DEF LinkInv
<1>2. /\ UNCHANGED <<SB_reg, transfer, fast, internal, divider, sck, sdo, count, sentA, sentB>>
      /\ Wire' = Wire /\ Since' = Since /\ (Over' <=> Over)
      /\ lead' \in Int /\ lead' <= Drift
  BY BLeaves
<1>3. B!Rest(sck_o)
  BY DEF BWaits, BLoads, BArms, B!Quiet, B!WriteSB, B!WriteSC
<1>4. ~bTransfer /\ bSck' = Wire
  <2>1. ~bTransfer /\ bSck' = B!Clock(sck_o)
    BY <1>3 DEF B!Rest
  <2> QED BY <1>1, <2>1, Cable
<1>5. Over /\ bSck # 1
  BY <1>1, <1>4 DEF BHolds
<1>6. Wire = 0
  BY <1>1, <1>5 DEF Over, WireInv
<1>7. /\ bSB \in Bytes /\ bInternal = FALSE /\ bSdo \in {0, 1}
      /\ bCount \in 0..(Width - 1) /\ bTransfer \in BOOLEAN
  BY <1>1 DEF LinkTypes
<1>8. /\ bSB' \in Bytes /\ ~bInternal' /\ bInternal' \in BOOLEAN /\ bSdo' \in {0, 1}
      /\ bCount' \in 0..(Width - 1) /\ bTransfer' \in BOOLEAN
      /\ bTransfer' => bCount' = 0 /\ bSdo' = bSB'[1]
  <2>1. CASE BWaits
    <3>1. UNCHANGED <<bSB, bTransfer, bInternal, bSdo, bCount>>
      BY <2>1 DEF BWaits, B!Quiet
    <3> QED BY <1>4, <1>7, <3>1
  <2>2. CASE BLoads
    <3>1. UNCHANGED <<bTransfer, bInternal, bSdo, bCount>> /\ bSB' \in Bytes
      BY <2>2 DEF BLoads, B!WriteSB, Bytes
    <3> QED BY <1>4, <1>7, <3>1
  <2>3. CASE BArms
    <3>1. /\ bTransfer' \in BOOLEAN /\ ~bInternal' /\ bInternal' \in BOOLEAN
          /\ bCount' = 0 /\ bSdo' = bSB[1] /\ bSB' = bSB
      BY <2>3 DEF BArms, B!WriteSC
    <3>2. 1 \in 1..Width /\ 0 \in 0..(Width - 1)
      BY SerialAssumption
    <3>3. bSB[1] \in {0, 1}
      BY <1>7, <3>2 DEF Bytes
    <3> QED BY <1>7, <3>1, <3>2, <3>3
  <2> QED BY <2>1, <2>2, <2>3
<1>9. LinkTypes'
  <2>1. bInternal' = FALSE
    BY <1>8
  <2> QED BY <1>1, <1>2, <1>4, <1>6, <1>8, <2>1 DEF LinkTypes
<1>10. WireInv'
  BY <1>1, <1>2, <1>4 DEF WireInv
<1>11. AHolds'
  BY <1>1, <1>2 DEF AHolds
<1>12. BHolds'
  <2>1. Over' /\ bSck' = 0
    BY <1>2, <1>4, <1>5, <1>6
  <2> QED BY <1>8, <2>1 DEF BHolds
<1> QED BY <1>4, <1>9, <1>10, <1>11, <1>12 DEF LinkInv

LEMMA LinkBegins ==
  ASSUME LInit
  PROVE  LinkInv
<1>1. /\ SB_reg = [i \in 1..Width |-> 0] /\ ~transfer /\ transfer \in BOOLEAN
      /\ fast \in BOOLEAN /\ internal \in BOOLEAN /\ ~internal
      /\ divider = 0 /\ sck = 0 /\ sdo = 0 /\ count = 0
  BY DEF LInit, Init
<1>2. /\ bSB = [i \in 1..Width |-> 0] /\ ~bTransfer /\ bTransfer \in BOOLEAN /\ bInternal = FALSE
      /\ bSck = 0 /\ bSdo = 0 /\ bCount = 0
  BY DEF LInit, B!Init
<1>3. lead = 0 /\ sentA = SB_reg /\ sentB = bSB
  BY DEF LInit
<1>4. SB_reg \in Bytes /\ bSB \in Bytes
  BY <1>1, <1>2 DEF Bytes
<1>5. /\ 0 \in 0..(2 * SlowTap - 1) /\ 0 \in 0..(Width - 1)
      /\ 0 \in Int /\ 0 <= Drift
  BY SerialAssumption, LinkAssumption
<1>6. Wire = 0
  BY <1>1 DEF Wire, sck_o
<1>7. LinkTypes
  BY <1>1, <1>2, <1>3, <1>4, <1>5 DEF LinkTypes
<1>8. WireInv /\ AHolds /\ Over
  BY <1>1, <1>6 DEF WireInv, AHolds, Over
<1>9. BHolds
  BY <1>2, <1>8 DEF BHolds
<1> QED BY <1>7, <1>8, <1>9 DEF LinkInv

(* A cycle of either console keeps the invariant, and one that ends a transfer
   leaves the other side's byte. *)
LEMMA LinkKeeps ==
  ASSUME LinkInv, DriftsLittle, LNext
  PROVE  /\ LinkInv'
         /\ transfer /\ ~transfer' => SB_reg' = sentB
         /\ bTransfer /\ ~bTransfer' => bSB' = sentA
<1>1. CASE ACycle
  <2>1. bTransfer' = bTransfer
    BY <1>1 DEF ACycle, bvars
  <2>2. CASE AShifts
    BY <1>1, <2>1, <2>2, AShiftsKeep
  <2>3. CASE AWaits \/ ALoads \/ AStarts
    <3>1. LinkInv'
      BY <1>1, <2>3, ARestsKeep
    <3>2. ~transfer
      BY <2>3, ARests
    <3> QED BY <2>1, <3>1, <3>2
  <2> QED BY <1>1, <2>2, <2>3 DEF ACycle
<1>2. CASE BCycle
  <2>1. transfer' = transfer
    BY <1>2 DEF BCycle, vars
  <2>2. CASE BShifts
    BY <1>2, <2>1, <2>2, BShiftsKeep
  <2>3. CASE BWaits \/ BLoads \/ BArms
    BY <1>2, <2>1, <2>3, BRestsKeep
  <2> QED BY <1>2, <2>2, <2>3 DEF BCycle
<1> QED BY <1>1, <1>2 DEF LNext

LEMMA LinkStays ==
  ASSUME LinkInv, UNCHANGED lvars
  PROVE  LinkInv'
<1>1. /\ UNCHANGED <<SB_reg, transfer, fast, internal, divider, sck, sdo, count>>
      /\ UNCHANGED <<bSB, bTransfer, bInternal, bSck, bSdo, bCount>>
      /\ UNCHANGED <<lead, sentA, sentB>>
  BY DEF lvars, vars, bvars
<1>2. Tap' = Tap
  BY <1>1 DEF Tap
<1>3. Since' = Since
  BY <1>1, <1>2 DEF Since
<1>4. Wire' = Wire
  BY <1>1 DEF Wire, sck_o, Tap
<1>5. Over' <=> Over
  BY <1>1, <1>4 DEF Over
<1>6. LinkTypes'
  BY <1>1 DEF LinkInv, LinkTypes
<1>7. WireInv'
  BY <1>1, <1>3, <1>4 DEF LinkInv, WireInv
<1>8. AHolds'
  BY <1>1 DEF LinkInv, AHolds
<1>9. BHolds'
  BY <1>1, <1>4, <1>5 DEF LinkInv, BHolds
<1> QED BY <1>6, <1>7, <1>8, <1>9 DEF LinkInv

(* Each port ends its transfer with the byte that the other one held at the
   start, for every width, every pair of clocks and every schedule of the two
   consoles within the drift (Serial.v:106-119). *)
THEOREM LinkSwaps == DriftsLittle => (LSpec => Swapped)
<1> SUFFICES ASSUME DriftsLittle
             PROVE  LSpec => Swapped
  OBVIOUS
<1>1. LInit => LinkInv
  BY LinkBegins
<1>2. LinkInv /\ [LNext]_lvars => LinkInv'
  BY LinkKeeps, LinkStays
<1>3. LinkInv /\ [LNext]_lvars =>
        [ /\ (transfer /\ ~transfer') => SB_reg' = sentB
          /\ (bTransfer /\ ~bTransfer') => bSB' = sentA ]_lvars
  BY LinkKeeps
<1> QED BY <1>1, <1>2, <1>3, PTL DEF LSpec, Swapped
=============================================================================
