------------------------------ MODULE Sequencer ------------------------------
(***************************************************************************)
(* The microprogram of ControlUnit.v: what the casez table of the control  *)
(* unit asks the rest of the processor to do in each machine cycle of each *)
(* instruction.  A machine cycle is a record of control signals, an        *)
(* instruction the tuple of its machine cycles (state S0 is element 1).    *)
(*                                                                         *)
(* Kept: every signal that decides what happens next or where a word goes. *)
(* Left out: the arithmetic of an 8-bit result (alu_op, flag masks, the    *)
(* constants on ctr), which no definition here depends on.                 *)
(***************************************************************************)
EXTENDS Integers, Sequences

Opcode == 0..255
State  == 0..5                                   \* S0 .. S5, one-hot in the code

(* The fields of an opcode the casez patterns and the table look at. *)
Block(ir) == ir \div 64                          \* IR[7:6]
Mid(ir)   == (ir \div 8) % 8                     \* IR[5:3]
Low(ir)   == ir % 8                              \* IR[2:0]
Index(ir) == (ir \div 16) % 4                    \* IR[5:4]

HlMem == 6                                       \* the register field that means [hl]

Pair    == {"BC", "DE", "HL", "SP", "PC", "WZ", "W_", "FF"}       \* rd_idu
Address == {"BC", "DE", "HL", "SP", "PC", "WZ", "PCH:0", "FF:Z", "FF:C", "0:Z"}
Byte    == {"B", "C", "D", "E", "H", "L", "F", "A", "PCH", "PCL", "SPH", "SPL",
            "W", "Z", "CTR"}

Reg8(i)   == <<"B", "C", "D", "E", "H", "L", "F", "A">>[i + 1]
Reg16(ir) == <<"BC", "DE", "HL", "SP">>[Index(ir) + 1]
RegMem(ir) == <<"BC", "DE", "HL", "HL">>[Index(ir) + 1]
MemOp(ir)  == <<"ZER", "ZER", "INC", "DEC">>[Index(ir) + 1]
MSB(ir)  == <<"B", "D", "H", "SPH">>[Index(ir) + 1]
LSB(ir)  == <<"C", "E", "L", "SPL">>[Index(ir) + 1]
MSBs(ir) == <<"B", "D", "H", "A">>[Index(ir) + 1]
LSBs(ir) == <<"C", "E", "L", "F">>[Index(ir) + 1]

(***************************************************************************)
(* The control signals of one machine cycle.  on holds the one-bit ones    *)
(* that are raised.                                                        *)
(***************************************************************************)
Line == {"fetch",          \* the byte read becomes IR
         "fetch_prefix",   \* the byte read becomes IR_prefix
         "read", "write",  \* of data
         "set_IME", "unset_IME",
         "ack_IF",         \* of next_interrupt
         "service",        \* service_interrupt_n
         "halt", "stop"}

Signals == [
  on     : SUBSET Line,
  next   : State,          \* state after this cycle
  inext  : State,          \* intr_state after this cycle
  addr   : Address,        \* {addrh, addrl}
  idu    : {"ZER", "INC", "DEC", "ADJ"},
  rd_idu : Pair,           \* where the incremented address goes ("FF": nowhere)
  rd     : Byte,           \* where the byte read or computed goes ("CTR": nowhere)
  r1     : Byte ]          \* the byte written

(* The defaults every cycle starts from, and all there is for a state the
   table does not list (`default:;`). *)
Idle == [on |-> {}, next |-> 0, inext |-> 0, addr |-> "PC", idu |-> "INC",
         rd_idu |-> "FF", rd |-> "CTR", r1 |-> "CTR"]

(* The kinds of machine cycle the instructions are made of. *)
Fetch           == [Idle EXCEPT !.on = {"fetch"}, !.rd_idu = "PC"]
FetchAt(a)      == [Fetch EXCEPT !.addr = a]
FetchTo(r)      == [Fetch EXCEPT !.rd = r]
Imm(r, n)       == [Idle EXCEPT !.on = {"read"}, !.next = n, !.rd = r, !.rd_idu = "PC"]
Load(a, r, n)   == [Idle EXCEPT !.on = {"read"}, !.next = n, !.addr = a, !.rd = r]
Store(a, r, n)  == [Idle EXCEPT !.on = {"write"}, !.next = n, !.addr = a, !.r1 = r]
Move(a, op, p, n) == [Idle EXCEPT !.next = n, !.addr = a, !.idu = op, !.rd_idu = p]
Pop(r, n)       == [Load("SP", r, n) EXCEPT !.rd_idu = "SP"]
PushHigh(r, n)  == [Store("SP", r, n) EXCEPT !.idu = "DEC", !.rd_idu = "SP"]
PushLow(r, n)   == Store("SP", r, n)
Inner(n)        == [Idle EXCEPT !.next = n]
AnyState(s)     == <<s, s, s, s, s, s>>          \* an instruction without case(state)
(* A relative address: low byte through the ALU into Z, high through the IDU. *)
Relative(n)     == [Move("PCH:0", "ADJ", "W_", n) EXCEPT !.rd = "Z"]
Also(s, lines)  == [s EXCEPT !.on = @ \cup lines]

(***************************************************************************)
(* Block 00.                                                               *)
(***************************************************************************)
Nop          == AnyState(Fetch)
LdR16Imm(ir) == <<Imm(LSB(ir), 1), Imm(MSB(ir), 2), Fetch>>
LdMemA(ir)   == <<[Store(RegMem(ir), "A", 1) EXCEPT !.idu = MemOp(ir), !.rd_idu = RegMem(ir)],
                  Fetch>>
IncR16(ir)   == <<Move(Reg16(ir), "INC", Reg16(ir), 1), Fetch>>
DecR16(ir)   == <<Move(Reg16(ir), "DEC", Reg16(ir), 1), Fetch>>
(* inc r8: state S1 and S2 only serve [hl], whatever the register is. *)
IncR8(ir)    == <<IF Mid(ir) = HlMem THEN Load("HL", "Z", 1) ELSE FetchTo(Reg8(Mid(ir))),
                  Store("HL", "Z", 2), Fetch>>
DecR8(ir)    == <<IF Mid(ir) = HlMem THEN Load("HL", "Z", 1) ELSE FetchTo(Reg8(Mid(ir))),
                  Store("HL", "Z", 2), Fetch>>
LdR8Imm(ir)  == <<IF Mid(ir) = HlMem THEN Imm("Z", 1) ELSE Imm(Reg8(Mid(ir)), 2),
                  Store("HL", "Z", 2), Fetch>>
Accumulate(ir) == AnyState(IF Mid(ir) \in {6, 7} THEN Fetch ELSE FetchTo("A"))
LdImmSP      == <<Imm("Z", 1), Imm("W", 2),
                  [Store("WZ", "SPL", 3) EXCEPT !.rd_idu = "WZ"],
                  Store("WZ", "SPH", 4), Fetch>>
AddHl        == <<[Inner(1) EXCEPT !.rd = "L"], FetchTo("H")>>
LdAMem(ir)   == <<[Load(RegMem(ir), "A", 1) EXCEPT !.idu = MemOp(ir), !.rd_idu = RegMem(ir)],
                  Fetch>>
(* stop fetches the next opcode by itself only when a speed switch is armed. *)
Stop(armed)  == <<Also(IF armed THEN Fetch ELSE Idle, {"stop"})>>
Jr           == <<Imm("Z", 1), Relative(2), FetchAt("WZ")>>
JrCond(cc)   == <<Imm("Z", IF cc THEN 2 ELSE 1), Fetch, Relative(3), FetchAt("WZ")>>

(***************************************************************************)
(* Blocks 01 and 10.  pending: some source is both requested and enabled.  *)
(* State S1 is the sleep of halt, the [hl],[hl] slot of ld r8,r8, but the  *)
(* table gives it to every opcode of block 01.                             *)
(***************************************************************************)
HaltOp == 118                                    \* IR[5:0] = 110_110
LdR8R8(ir, pending) ==
  LET first == IF ir = HaltOp THEN Inner(1)
               ELSE IF Mid(ir) = HlMem THEN Store("HL", Reg8(Low(ir)), 2)
               ELSE IF Low(ir) = HlMem THEN Load("HL", Reg8(Mid(ir)), 2)
               ELSE FetchTo(Reg8(Mid(ir)))
      sleep == IF pending THEN Also(Idle, {"halt", "fetch"}) ELSE Also(Inner(1), {"halt"})
  IN  <<first, sleep, Fetch>>
(* The compare instruction (Mid = 7) drops its result. *)
Result(ir) == FetchTo(IF Mid(ir) = 7 THEN "CTR" ELSE "A")
ArithR8(ir) == <<IF Low(ir) = HlMem THEN Load("HL", "Z", 1) ELSE Result(ir), Result(ir)>>

(***************************************************************************)
(* Block 11.  cc: the condition of IR[4:3] holds.                          *)
(***************************************************************************)
RetCond(cc) == <<Inner(IF cc THEN 1 ELSE 4), Pop("Z", 2), Pop("W", 3),
                 Move("WZ", "ZER", "PC", 4), Fetch>>
(* ret and reti: IR[4] re-enables interrupts one cycle before the fetch. *)
Ret(ir)     == <<Pop("Z", 1), Pop("W", 2),
                 Also(Move("WZ", "ZER", "PC", 3), IF Index(ir) = 1 THEN {"set_IME"} ELSE {}),
                 Fetch>>
PopR16(ir)  == <<Pop(LSBs(ir), 1), Pop(MSBs(ir), 2), Fetch>>
JpHl        == <<FetchAt("HL")>>
JpCond(cc)  == <<Imm("Z", 1), Imm("W", IF cc THEN 2 ELSE 3),
                 Move("WZ", "ZER", "PC", 3), Fetch>>
Jp          == <<Imm("Z", 1), Imm("W", 2), Move("WZ", "ZER", "PC", 3), Fetch>>
(* call cc: when not taken the second operand byte is read and dropped, and
   the next opcode is fetched at WZ = PC + 1. *)
CallCond(cc) ==
  <<Imm("Z", 1),
    IF cc THEN Imm("W", 2) ELSE Also(Move("PC", "INC", "WZ", 5), {"read"}),
    Move("SP", "DEC", "SP", 3), PushHigh("PCH", 4), PushLow("PCL", 5), FetchAt("WZ")>>
Call        == <<Imm("Z", 1), Imm("W", 2), Move("SP", "DEC", "SP", 3),
                 PushHigh("PCH", 4), PushLow("PCL", 5), FetchAt("WZ")>>
PushR16(ir) == <<Move("SP", "DEC", "SP", 1), PushHigh(MSBs(ir), 2), PushLow(LSBs(ir), 3),
                 Fetch>>
ArithImm(ir) == <<Imm("Z", 1), Result(ir)>>
LdhImmA     == <<Imm("Z", 1), Store("FF:Z", "A", 2), Fetch>>
LdhAImm     == <<Imm("Z", 1), Load("FF:Z", "A", 2), Fetch>>
LdhCA       == <<Store("FF:C", "A", 1), Fetch>>
LdhAC       == <<Load("FF:C", "A", 1), Fetch>>
LdImmA      == <<Imm("Z", 1), Imm("W", 2), Store("WZ", "A", 3), Fetch>>
LdAImm      == <<Imm("Z", 1), Imm("W", 2), Load("WZ", "A", 3), Fetch>>
AddSp       == <<Imm("Z", 1), [Inner(2) EXCEPT !.rd = "SPL"], Move("SP", "ADJ", "SP", 3),
                 Fetch>>
LdHlSp      == <<Imm("Z", 1), [Move("SP", "ADJ", "WZ", 2) EXCEPT !.rd = "L"], FetchTo("H")>>
LdSpHl      == <<Move("HL", "ZER", "SP", 1), Fetch>>
Di          == <<Also(Fetch, {"unset_IME"})>>
Ei          == <<Also(Fetch, {"set_IME"})>>
Rst         == <<[Move("SP", "DEC", "SP", 1) EXCEPT !.rd = "Z"],
                 PushHigh("PCH", 2), PushLow("PCL", 3), FetchAt("0:Z")>>
(* The CB page.  irp is IR_prefix; BIT (irp[7:6] = 1) writes nothing back. *)
Prefixed(irp) ==
  <<Also(Move("PC", "INC", "PC", 1), {"fetch_prefix"}),
    IF Low(irp) = HlMem THEN Load("HL", "Z", 2)
                        ELSE FetchTo(IF Block(irp) = 1 THEN "CTR" ELSE Reg8(Low(irp))),
    IF Block(irp) = 1 THEN Fetch ELSE Store("HL", "Z", 3),
    Fetch>>

(***************************************************************************)
(* The casez statement: the machine cycles of the instruction in IR. Eleven *)
(* opcodes match no pattern and get no cycle at all: the default signals   *)
(* fetch nothing, so such an opcode stays in IR for ever.                  *)
(***************************************************************************)
Block0(ir, cc, armed) ==
  LET odd == Mid(ir) % 2 = 1
  IN CASE ir = 0 -> Nop
       [] ir = 8 -> LdImmSP
       [] ir = 16 -> Stop(armed)
       [] ir = 24 -> Jr
       [] Low(ir) = 0 /\ Mid(ir) \in 4..7 -> JrCond(cc)
       [] Low(ir) = 1 /\ ~odd -> LdR16Imm(ir)
       [] Low(ir) = 1 /\ odd  -> AddHl
       [] Low(ir) = 2 /\ ~odd -> LdMemA(ir)
       [] Low(ir) = 2 /\ odd  -> LdAMem(ir)
       [] Low(ir) = 3 /\ ~odd -> IncR16(ir)
       [] Low(ir) = 3 /\ odd  -> DecR16(ir)
       [] Low(ir) = 4 -> IncR8(ir)
       [] Low(ir) = 5 -> DecR8(ir)
       [] Low(ir) = 6 -> LdR8Imm(ir)
       [] OTHER -> Accumulate(ir)

(* Block 11: what depends on the condition, and what does not. *)
Conditional(ir) == Mid(ir) < 4 /\ Low(ir) \in {0, 2, 4}

Branch(ir, cc) ==
  CASE Low(ir) = 0 -> RetCond(cc)
    [] Low(ir) = 2 -> JpCond(cc)
    [] OTHER       -> CallCond(cc)

Block3(ir, irp) ==
  CASE Low(ir) = 0 /\ Mid(ir) = 4 -> LdhImmA
    [] Low(ir) = 0 /\ Mid(ir) = 5 -> AddSp
    [] Low(ir) = 0 /\ Mid(ir) = 6 -> LdhAImm
    [] Low(ir) = 0 /\ Mid(ir) = 7 -> LdHlSp
    [] Low(ir) = 1 /\ Mid(ir) \in {1, 3} -> Ret(ir)
    [] Low(ir) = 1 /\ Mid(ir) % 2 = 0 -> PopR16(ir)
    [] Low(ir) = 1 /\ Mid(ir) = 5 -> JpHl
    [] Low(ir) = 1 /\ Mid(ir) = 7 -> LdSpHl
    [] Low(ir) = 2 /\ Mid(ir) = 4 -> LdhCA
    [] Low(ir) = 2 /\ Mid(ir) = 5 -> LdImmA
    [] Low(ir) = 2 /\ Mid(ir) = 6 -> LdhAC
    [] Low(ir) = 2 /\ Mid(ir) = 7 -> LdAImm
    [] Low(ir) = 3 /\ Mid(ir) = 0 -> Jp
    [] Low(ir) = 3 /\ Mid(ir) = 1 -> Prefixed(irp)
    [] Low(ir) = 3 /\ Mid(ir) = 6 -> Di
    [] Low(ir) = 3 /\ Mid(ir) = 7 -> Ei
    [] Low(ir) = 5 /\ Mid(ir) = 1 -> Call
    [] Low(ir) = 5 /\ Mid(ir) % 2 = 0 -> PushR16(ir)
    [] Low(ir) = 6 -> ArithImm(ir)
    [] Low(ir) = 7 -> Rst
    [] OTHER -> << >>

Cycles(ir, irp, cc, armed, pending) ==
  CASE Block(ir) = 0 -> Block0(ir, cc, armed)
    [] Block(ir) = 1 -> LdR8R8(ir, pending)
    [] Block(ir) = 2 -> ArithR8(ir)
    [] OTHER -> IF Conditional(ir) THEN Branch(ir, cc) ELSE Block3(ir, irp)

(* The signals of IR in a state; a state without an entry gets the defaults. *)
Instruction(ir, irp, st, cc, armed, pending) ==
  LET cycles == Cycles(ir, irp, cc, armed, pending)
  IN  IF st + 1 \in DOMAIN cycles THEN cycles[st + 1] ELSE Idle

(***************************************************************************)
(* The interrupt service sequence: push PC, load the vector, fetch there.  *)
(***************************************************************************)
Busy(s, n) == [Also(s, {"service"}) EXCEPT !.inext = n]

Serve(st) ==
  <<Busy(Move("SP", "DEC", "SP", 0), 1),
    Busy(PushHigh("PCH", 0), 2),
    Busy(PushLow("PCL", 0), 3),
    Busy([Idle EXCEPT !.rd = "PCL"], 4),
    Busy([Idle EXCEPT !.rd = "PCH"], 5),
    Also(Fetch, {"ack_IF", "unset_IME"})>>[st + 1]

DiOp == 243

Serving(sig) == [Also(sig, {"service"}) EXCEPT !.idu = "ZER"]
Waking(sig)  == [Also(sig, {"fetch"}) EXCEPT !.rd_idu = "PC"]
AtBoundary(sig) == sig.on \cap {"fetch", "halt", "stop"} # {}

(* Faulty variants of Arbitrate: without the exemption of di; and with the
   wake-up looked at before the request. *)
ArbitrateDi(sig, ir, ime, pending, wake) ==
  IF ~AtBoundary(sig) THEN sig
  ELSE IF ime /\ pending THEN Serving(sig)
  ELSE IF wake THEN Waking(sig) ELSE sig
ArbitrateWakeFirst(sig, ir, ime, pending, wake) ==
  IF ~AtBoundary(sig) THEN sig
  ELSE IF wake THEN Waking(sig)
  ELSE IF ime /\ pending /\ ir # DiOp THEN Serving(sig) ELSE sig

(* The last word on a cycle that fetches, sleeps or stops: start serving an
   interrupt, keeping the address, or let a wake-up fetch the next opcode. *)
Arbitrate(sig, ir, ime, pending, wake) ==
  IF ~AtBoundary(sig) THEN sig
  ELSE IF ime /\ pending /\ ir # DiOp THEN Serving(sig)
  ELSE IF wake THEN Waking(sig) ELSE sig

=============================================================================
