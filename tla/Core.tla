-------------------------------- MODULE Core --------------------------------
(***************************************************************************)
(* Core.v: the dot clock that turns the control unit's machine cycles into *)
(* time.  One step is one dot (one clock edge with en = 1).  The core      *)
(* counts dots into machine cycles (cpu_phase), latches interrupt requests *)
(* (IF), remembers that one rose (sig_wake), holds the processor while it  *)
(* stops, sleeps or waits for the HDMA engine, and carries out writes to   *)
(* its own registers IF, IE, KEY1 and HDMA5.                               *)
(*                                                                         *)
(* The environment chooses, every dot, the five request lines (intr_req)   *)
(* and whether the LCD is in mode 0; the program is any sequence of        *)
(* opcodes of Program that writes to any register of Targets.              *)
(***************************************************************************)
EXTENDS ControlUnit

CONSTANTS
  Targets,       \* registers an instruction may write: "IF", "IE", "KEY1", "HDMA5", "mem"
  StackTargets,  \* what the pushes of an interrupt may hit: SP is any address
  Lengths,       \* values of HDMA5[6:0] the program writes
  Blocks,        \* 2^7 in the code: HDMA5[6:0] counts modulo this
  BlockLen       \* 16 in the code: bytes in a block, HDMA_count counts modulo this

Registers == {"IF", "IE", "KEY1", "HDMA5", "mem"}

ASSUME CoreAssumption ==
  /\ Targets \subseteq Registers /\ Targets # {}
  /\ StackTargets \subseteq Registers /\ StackTargets # {}
  /\ Blocks \in Nat \ {0}
  /\ BlockLen \in Nat \ {0}
  /\ Lengths \subseteq 0..(Blocks - 1) /\ Lengths # {}

VARIABLES
  phase,               \* cpu_phase
  speed, armed,        \* KEY1[7], KEY1[0]
  IE_reg, IF_reg,
  intr_req,            \* intr_req_reg: the request lines one dot ago
  wake,                \* sig_wake
  bus,                 \* the write of the current machine cycle: alu_out and where it goes
  active, remaining,   \* HDMA5[7], HDMA5[6:0]
  mode, hstate, count  \* HDMA_mode, HDMA_state, HDMA_count

clockVars == <<phase, intr_req, wake>>
hdmaVars  == <<active, remaining, mode, hstate, count>>
vars == <<controlVars, clockVars, hdmaVars, speed, armed, IE_reg, IF_reg, bus>>

(***************************************************************************)
(* Writes.  A byte is a record of the fields the registers decode.         *)
(***************************************************************************)
WriteCycle ==
  {b \in [to : Registers \cup {"none"}, irqs : SUBSET Irq, bit7 : BOOLEAN,
          low : 0..(Blocks - 1) \cup {0, 1}] : b.to = "HDMA5" => b.low \in Lengths}

NoWrite == [to |-> "none", irqs |-> {}, bit7 |-> FALSE, low |-> 0]

(* What a write to register r may carry; the fields it does not decode are 0. *)
WritesTo == [r \in Registers |->
  {b \in WriteCycle : /\ b.to = r
                      /\ r \notin {"IF", "IE"} => b.irqs = {}
                      /\ r \notin {"KEY1", "HDMA5"} => ~b.bit7 /\ b.low = 0
                      /\ r = "KEY1" => b.low \in {0, 1}}]

(* The byte and address of the next machine cycle: stable until its end. *)
NextBus ==
  bus' \in IF Writing'
           THEN UNION {WritesTo[r] : r \in IF service' THEN StackTargets ELSE Targets}
           ELSE {NoWrite}

(***************************************************************************)
(* The combinational block: what this dot is.                              *)
(***************************************************************************)
Pending == IE_reg \cap IF_reg
Sig(cc) == Outputs(cc, armed, Pending, wake)

(* A faulty variant: one dot too many at double speed. *)
LastDotLate == (~speed /\ phase = 3) \/ (speed /\ phase = 2)

LastDot == (~speed /\ phase = 3) \/ (speed /\ phase = 1)

Raised(line) == line \in Sig(FALSE).on
Stopped == Raised("stop") /\ ~armed
Halted  == ~Stopped /\ Raised("halt")
HdmaOn  == active /\ ~Stopped /\ ~Halted

(* The HDMA engine has the bus and the processor stands still. *)
Frozen(lcd0) ==
  HdmaOn /\ (hstate = "SEND" \/ (hstate = "RECV" /\ (mode = "general" \/ lcd0)))

(* cpu_en, and cpu_en & enable_controller *)
CpuEn(lcd0)  == phase = 0 /\ ~Frozen(lcd0) /\ (Stopped => wake)
Enable(lcd0) == CpuEn(lcd0) /\ (Halted => wake)

(***************************************************************************)
(* What every dot does: sample the request lines and count the phase.      *)
(***************************************************************************)
(* A faulty variant: the wake-up is not remembered across the machine cycle. *)
SampleForgetful(req) ==
  LET rising == req \ intr_req
  IN  /\ intr_req' = req
      /\ wake' = (rising # {})
      /\ phase' = IF LastDot THEN 0 ELSE (phase + 1) % 4

Sample(req) ==
  LET rising == req \ intr_req
  IN  /\ intr_req' = req
      /\ wake' = (rising # {} \/ (phase # 0 /\ wake))
      /\ phase' = IF LastDot THEN 0 ELSE (phase + 1) % 4

(* A faulty variant: a flag falls with its request line. *)
LatchedLevel(req) == ((IF_reg \cap req) \cup (req \ intr_req)) \ ack

Latched(req) == (IF_reg \cup (req \ intr_req)) \ ack

(* While the processor runs, the write of its machine cycle is carried out
   on every dot of the cycle. *)
Wr(r) == Writing /\ bus.to = r

RegisterWrites(req) ==
  /\ IF_reg' = IF Wr("IF") THEN bus.irqs ELSE Latched(req)
  /\ IE_reg' = IF Wr("IE") THEN bus.irqs ELSE IE_reg
  /\ speed' = IF Wr("KEY1") THEN bus.bit7
              ELSE IF Raised("stop") /\ armed THEN ~speed ELSE speed
  /\ armed' = IF Wr("KEY1") THEN bus.low % 2 = 1 ELSE armed

(* While it is frozen only the request lines are heard. *)
RegisterHold(req) ==
  /\ IF_reg' = Latched(req)
  /\ speed' = IF Raised("stop") /\ armed THEN ~speed ELSE speed
  /\ UNCHANGED <<IE_reg, armed>>

(* HDMA_WAIT lasts until the LCD leaves mode 0; it does not stop the processor. *)
HdmaIdle(lcd0) == IF HdmaOn /\ hstate = "WAIT" /\ ~lcd0 THEN "RECV" ELSE hstate

(* Faulty variants: the state, and the byte count, of the last transfer left
   as they were. *)
HdmaCommandStaleState(lcd0) ==
  IF Wr("HDMA5") /\ ~active
  THEN /\ active' = TRUE
       /\ remaining' = bus.low
       /\ mode' = IF bus.bit7 THEN "hblank" ELSE "general"
       /\ hstate' = HdmaIdle(lcd0)
       /\ count' = 0
  ELSE /\ active' = (active /\ ~Wr("HDMA5"))
       /\ hstate' = HdmaIdle(lcd0)
       /\ UNCHANGED <<remaining, mode, count>>
HdmaCommandStaleCount(lcd0) ==
  IF Wr("HDMA5") /\ ~active
  THEN /\ active' = TRUE
       /\ remaining' = bus.low
       /\ mode' = IF bus.bit7 THEN "hblank" ELSE "general"
       /\ hstate' = "RECV"
       /\ UNCHANGED count
  ELSE /\ active' = (active /\ ~Wr("HDMA5"))
       /\ hstate' = HdmaIdle(lcd0)
       /\ UNCHANGED <<remaining, mode, count>>

(* A write to HDMA5 counts once, on the dot that ends its machine cycle. *)
HdmaCommand(lcd0) ==
  IF Wr("HDMA5")
  THEN IF active
       THEN /\ active' = FALSE
            /\ hstate' = HdmaIdle(lcd0)
            /\ UNCHANGED <<remaining, mode, count>>
       ELSE /\ active' = TRUE
            /\ remaining' = bus.low
            /\ mode' = IF bus.bit7 THEN "hblank" ELSE "general"
            /\ hstate' = "RECV"
            /\ count' = 0
  ELSE /\ hstate' = HdmaIdle(lcd0)
       /\ UNCHANGED <<active, remaining, mode, count>>

(***************************************************************************)
(* The steps.                                                              *)
(***************************************************************************)
(* The dot that ends a machine cycle. *)
Commit(req, lcd0, cc) ==
  /\ Enable(lcd0)
  /\ Sample(req)
  /\ RegisterWrites(req)
  /\ HdmaCommand(lcd0)
  /\ ControlClock(Sig(cc), Pending)
  /\ NextBus

(* Any other dot of a running, sleeping or stopped processor. *)
Hold(req, lcd0) ==
  /\ ~Frozen(lcd0) /\ ~Enable(lcd0)
  /\ Sample(req)
  /\ RegisterWrites(req)
  /\ hstate' = HdmaIdle(lcd0)
  /\ UNCHANGED <<controlVars, bus, active, remaining, mode, count>>

(* The HDMA engine reads a byte. *)
HdmaRead(req, lcd0) ==
  /\ Frozen(lcd0) /\ hstate = "RECV"
  /\ Sample(req)
  /\ RegisterHold(req)
  /\ hstate' = "SEND"
  /\ UNCHANGED <<controlVars, bus, active, remaining, mode, count>>

(* Faulty variants: the block counter not wrapped; the end of the transfer
   not noticed. *)
HdmaWriteUnwrapped(req, lcd0) ==
  /\ Frozen(lcd0) /\ hstate = "SEND"
  /\ Sample(req)
  /\ RegisterHold(req)
  /\ count' = (count + 1) % BlockLen
  /\ remaining' = IF count = BlockLen - 1 THEN remaining - 1 ELSE remaining
  /\ active' = ~(count = BlockLen - 1 /\ remaining = 0)
  /\ hstate' = IF count = BlockLen - 1 /\ mode = "hblank" THEN "WAIT" ELSE "RECV"
  /\ UNCHANGED <<controlVars, bus, mode>>
HdmaWriteEndless(req, lcd0) ==
  /\ Frozen(lcd0) /\ hstate = "SEND"
  /\ Sample(req)
  /\ RegisterHold(req)
  /\ count' = (count + 1) % BlockLen
  /\ remaining' = IF count = BlockLen - 1 THEN (remaining - 1) % Blocks ELSE remaining
  /\ hstate' = IF count = BlockLen - 1 /\ mode = "hblank" THEN "WAIT" ELSE "RECV"
  /\ UNCHANGED <<controlVars, bus, mode, active>>

(* The HDMA engine writes the byte; the last one of a block counts it. *)
HdmaWrite(req, lcd0) ==
  /\ Frozen(lcd0) /\ hstate = "SEND"
  /\ Sample(req)
  /\ RegisterHold(req)
  /\ count' = (count + 1) % BlockLen
  /\ IF count = BlockLen - 1
     THEN /\ remaining' = (remaining - 1) % Blocks
          /\ active' = (remaining # 0)
          /\ hstate' = IF mode = "hblank" THEN "WAIT" ELSE "RECV"
     ELSE /\ hstate' = "RECV"
          /\ UNCHANGED <<remaining, active>>
  /\ UNCHANGED <<controlVars, bus, mode>>

Init ==
  /\ ControlInit
  /\ phase = 0
  /\ speed = FALSE /\ armed = FALSE
  /\ IE_reg = {} /\ IF_reg = {}
  /\ intr_req \in SUBSET Irq
  /\ wake = FALSE
  /\ bus = NoWrite
  /\ active = FALSE /\ remaining = Blocks - 1
  /\ mode = "general" /\ hstate = "WAIT" /\ count = 0

CommitStep == \E req \in SUBSET Irq, lcd0, cc \in BOOLEAN : Commit(req, lcd0, cc)

Dot == \E req \in SUBSET Irq, lcd0 \in BOOLEAN :
         \/ \E cc \in BOOLEAN : Commit(req, lcd0, cc)
         \/ Hold(req, lcd0)
         \/ HdmaRead(req, lcd0)
         \/ HdmaWrite(req, lcd0)

Next == Dot

(* The oscillator never stops: SoC.v divides it but never gates the core. *)
Fairness == WF_vars(Next)

Spec == Init /\ [][Next]_vars /\ Fairness

TypeOK ==
  /\ ControlTypeOK
  /\ phase \in 0..3
  /\ speed \in BOOLEAN /\ armed \in BOOLEAN
  /\ IE_reg \in SUBSET Irq /\ IF_reg \in SUBSET Irq
  /\ intr_req \in SUBSET Irq
  /\ wake \in BOOLEAN
  /\ bus \in WriteCycle
  /\ active \in BOOLEAN /\ remaining \in 0..(Blocks - 1)
  /\ mode \in {"general", "hblank"} /\ hstate \in {"WAIT", "RECV", "SEND"}
  /\ count \in 0..(BlockLen - 1)

(***************************************************************************)
(* Interrupts.                                                             *)
(***************************************************************************)
(* An interrupt is being served only while interrupts are enabled: di, whose
   own fetch is exempt from the check, leaves no window in which a service
   starts with IME about to fall (ControlUnit.v:1651-1652 and 1530). *)
ServiceNeedsIME == service => IME

(* From the moment a service starts until it is acknowledged there is an
   enabled request, the source whose vector was chosen is still requesting,
   and whatever is going to be acknowledged is at least as urgent
   (ControlUnit.v:298-317 looks at IE & IF three times, cycles apart). *)
ServiceHasRequest ==
  service => /\ Pending # {}
             /\ vec # NoIrq => vec \in Pending /\ NextInterrupt(Pending) <= vec

(* When a handler is entered, the source it belongs to is either the one
   acknowledged or still flagged, so that it will be served (again); and an
   acknowledgement always names a real line. *)
HandlerKeepsFlag ==
  [][(service /\ ~service') => /\ vec \in ack' \cup IF_reg'
                               /\ ack' \subseteq Irq]_vars

(* The vectors are labelled with the source they serve (ControlUnit.v:96-100):
   the source acknowledged is the one whose handler is entered. *)
HandlerIsAcknowledged == [][(service /\ ~service') => ack' = {vec}]_vars

(***************************************************************************)
(* Sleep.                                                                  *)
(***************************************************************************)
(* A wake-up seen while the processor sleeps or is stopped is not forgotten
   before the machine cycle that acts on it (Core.v:280-289 and 342-346). *)
WakeUpKept ==
  [][((Stopped \/ Halted) /\ wake /\ ~wake') => CommitStep]_vars

(* "awaking from an interrupt can still happen with IME = 0"
   (ControlUnit.v:822): a processor in halt with a request both flagged and
   enabled leaves its sleep. *)
SleeperWakes == (Halted /\ Pending # {}) ~> ~(Halted /\ Pending # {})

(* "... just moves on to next instruction" (ControlUnit.v:823): the opcode
   fetched when halt ends is executed from its first machine cycle. *)
AwakeMovesOn ==
  [][(Halted /\ IR = HaltOp /\ IR' # IR) => state' = 0]_vars

(***************************************************************************)
(* HDMA.                                                                   *)
(***************************************************************************)
(* "This state should not be entered for general purpose dma" (Core.v:296). *)
WaitIsForHblank == (active /\ hstate = "WAIT") => mode = "hblank"

(* The engine implements Transfer: the bytes left follow from the blocks left
   and the byte count, which is never out of step with them. *)
HdmaTransfer == INSTANCE Transfer WITH
  left  <- IF active THEN (remaining + 1) * BlockLen - count ELSE 0,
  kind  <- mode,
  shown <- remaining,
  cpu   <- controlVars

ImplementsTransfer == HdmaTransfer!Spec

(* Machine cycles of a processor that is awake keep ending, whatever the engine
   does and however the LCD mode moves: it is never starved (Core.v:290-340). *)
CpuProgress == []<>(Halted \/ Stopped) \/ []<><<CommitStep>>_vars
=============================================================================
