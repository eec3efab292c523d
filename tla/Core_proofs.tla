----------------------------- MODULE Core_proofs -----------------------------
(***************************************************************************)
(* The theorems about Core and its observers: types, interrupts, waiting   *)
(* and waking, the HDMA engine as an implementation of Transfer, the       *)
(* length of a machine cycle and the latency of an interrupt.  They hold   *)
(* for every number of interrupt sources up to five, every size of a       *)
(* transfer and every behaviour of the request lines and of the LCD.       *)
(*                                                                         *)
(* The first part is about the microprogram alone: what it may and may not *)
(* ask for, for every opcode, operand and condition.  The rest builds on   *)
(* three results of it: CyclesTame, WritesFixed and InstructionTurns.      *)
(***************************************************************************)
EXTENDS CoreTiming, TLAPS

PlainLines == Line \ {"service", "ack_IF", "unset_IME", "halt", "stop"}
Plain == {s \in Signals : /\ s.on \subseteq PlainLines
                          /\ "write" \in s.on => s.on \subseteq {"write"}
                          /\ s.inext = 0
                          /\ s.rd # "PCL"}

(* The names and states the table uses belong to the types of a signal record. *)
LEMMA Names ==
  /\ {"BC", "DE", "HL", "SP", "PC", "WZ"} \subseteq Address \cap Pair
  /\ {"PCH:0", "FF:Z", "FF:C", "0:Z"} \subseteq Address
  /\ {"W_", "FF"} \subseteq Pair
  /\ {"B", "C", "D", "E", "H", "L", "F", "A", "SPH", "SPL", "W", "Z", "CTR"} \subseteq Byte \ {"PCL"}
  /\ {"PCH", "PCL"} \subseteq Byte
  /\ 0 \in State /\ 1 \in State /\ 2 \in State /\ 3 \in State /\ 4 \in State /\ 5 \in State
BY DEF Address, Pair, Byte, State

(* The default signals are plain. *)
LEMMA IdlePlain == Idle \in Plain
BY Names DEF Idle, Plain, PlainLines, Signals, Line

(* Choosing where the incremented address goes keeps a cycle plain. *)
LEMMA Redirect ==
  ASSUME NEW s \in Plain, NEW p \in Pair, NEW op \in {"ZER", "INC", "DEC", "ADJ"}
  PROVE  [s EXCEPT !.idu = op, !.rd_idu = p] \in Plain
BY DEF Plain, Signals

(* Choosing where the byte goes keeps a cycle plain, unless it is the vector. *)
LEMMA Divert ==
  ASSUME NEW s \in Plain, NEW r \in Byte \ {"PCL"}
  PROVE  [s EXCEPT !.rd = r] \in Plain
BY DEF Plain, Signals

(* The same without changing the increment. *)
LEMMA RedirectOnly ==
  ASSUME NEW s \in Plain, NEW p \in Pair
  PROVE  [s EXCEPT !.rd_idu = p] \in Plain
BY DEF Plain, Signals

(* A fetch is plain, whatever its address and its result. *)
LEMMA FetchPlain ==
  ASSUME NEW a \in Address, NEW r \in Byte \ {"PCL"}
  PROVE  /\ Fetch \in Plain
         /\ FetchAt(a) \in Plain
         /\ FetchTo(r) \in Plain
<1>1. Fetch \in Plain
  BY IdlePlain, Names DEF Fetch, Plain, Signals, PlainLines, Line
<1>2. FetchAt(a) \in Plain
  BY <1>1 DEF FetchAt, Plain, Signals
<1>3. FetchTo(r) \in Plain
  BY <1>1 DEF FetchTo, Plain, Signals
<1> QED BY <1>1, <1>2, <1>3

(* So is a cycle that reads an operand or a word from memory, *)
LEMMA ReadPlain ==
  ASSUME NEW n \in State, NEW r \in Byte \ {"PCL"}, NEW a \in Address
  PROVE  /\ Imm(r, n) \in Plain
         /\ Load(a, r, n) \in Plain
         /\ Pop(r, n) \in Plain
<1>1. Imm(r, n) \in Plain
  BY IdlePlain, Names DEF Imm, Plain, Signals, PlainLines, Line
<1>2. \A b \in Address : Load(b, r, n) \in Plain
  BY IdlePlain DEF Load, Plain, Signals, PlainLines, Line
<1>3. Load("SP", r, n) \in Plain
  BY <1>2, Names
<1>4. Pop(r, n) \in Plain
  BY <1>3, Names DEF Pop, Plain, Signals
<1> QED BY <1>1, <1>2, <1>4

(* one that writes a byte to memory, *)
LEMMA StorePlain ==
  ASSUME NEW n \in State, NEW r \in Byte, NEW a \in Address
  PROVE  /\ Store(a, r, n) \in Plain
         /\ PushHigh(r, n) \in Plain
         /\ PushLow(r, n) \in Plain
<1>1. \A b \in Address : Store(b, r, n) \in Plain
  BY IdlePlain DEF Store, Plain, Signals, PlainLines, Line
<1>2. Store("SP", r, n) \in Plain
  BY <1>1, Names
<1>3. PushHigh(r, n) \in Plain
  BY <1>2, Names DEF PushHigh, Plain, Signals
<1> QED BY <1>1, <1>2, <1>3 DEF PushLow

(* and one that only moves an address. *)
LEMMA MovePlain ==
  ASSUME NEW n \in State, NEW a \in Address, NEW p \in Pair,
         NEW op \in {"ZER", "INC", "DEC", "ADJ"}
  PROVE  /\ Move(a, op, p, n) \in Plain
         /\ Inner(n) \in Plain
         /\ Relative(n) \in Plain
<1>1. \A b \in Address, q \in Pair, o \in {"ZER", "INC", "DEC", "ADJ"} : Move(b, o, q, n) \in Plain
  BY IdlePlain DEF Move, Plain, Signals
<1>2. Inner(n) \in Plain
  BY IdlePlain DEF Inner, Plain, Signals
<1>3. Move("PCH:0", "ADJ", "W_", n) \in Plain
  BY <1>1, Names
<1>4. Relative(n) \in Plain
  BY <1>3, Names DEF Relative, Plain, Signals
<1> QED BY <1>1, <1>2, <1>4

(* The fields of an opcode are small numbers. *)
LEMMA Fields ==
  ASSUME NEW ir \in Opcode
  PROVE  /\ Mid(ir) \in 0..7 /\ Low(ir) \in 0..7 /\ Block(ir) \in 0..3 /\ Index(ir) \in 0..3
BY DEF Opcode, Mid, Low, Block, Index

(* An 8-bit register field names a register that is not half of PC. *)
LEMMA Names8 ==
  ASSUME NEW i \in 0..7
  PROVE  Reg8(i) \in Byte \ {"PCL"}
<1>1. i = 0 \/ i = 1 \/ i = 2 \/ i = 3 \/ i = 4 \/ i = 5 \/ i = 6 \/ i = 7
  OBVIOUS
<1> QED BY <1>1, Names DEF Reg8

(* A 16-bit register field names a pair, and its halves are not halves of PC. *)
LEMMA Names16 ==
  ASSUME NEW ir \in Opcode
  PROVE  /\ {LSB(ir), MSB(ir), LSBs(ir), MSBs(ir)} \subseteq Byte \ {"PCL"}
         /\ {Reg16(ir), RegMem(ir)} \subseteq Pair \cap Address
         /\ MemOp(ir) \in {"ZER", "INC", "DEC", "ADJ"}
<1>1. Index(ir) = 0 \/ Index(ir) = 1 \/ Index(ir) = 2 \/ Index(ir) = 3
  BY Fields
<1>2. {LSB(ir), MSB(ir), LSBs(ir), MSBs(ir)} \subseteq Byte \ {"PCL"}
  BY <1>1, Names DEF LSB, MSB, LSBs, MSBs
<1>3. {Reg16(ir), RegMem(ir)} \subseteq Pair \cap Address
  BY <1>1, Names DEF Reg16, RegMem
<1>4. MemOp(ir) \in {"ZER", "INC", "DEC", "ADJ"}
  BY <1>1 DEF MemOp
<1> QED BY <1>2, <1>3, <1>4

(* Arithmetic with a register or an operand is plain. *)
LEMMA Cycles2 ==
  ASSUME NEW ir \in Opcode
  PROVE ArithR8(ir) \in Seq(Plain) /\ ArithImm(ir) \in Seq(Plain)
<1>1. Result(ir) \in Plain
  BY FetchPlain, Names DEF Result
<1>2. Load("HL", "Z", 1) \in Plain /\ Imm("Z", 1) \in Plain
  BY ReadPlain, Names
<1> QED BY <1>1, <1>2 DEF ArithR8, ArithImm

(* Block 00 is plain, but for stop. *)
LEMMA Block0Plain ==
  ASSUME NEW ir \in Opcode, ir # 16, Block(ir) = 0, NEW cc \in BOOLEAN, NEW key1 \in BOOLEAN
  PROVE Block0(ir, cc, key1) \in Seq(Plain)
<1> USE Names
<1>f. Fetch \in Plain /\ FetchAt("WZ") \in Plain /\ FetchTo("H") \in Plain /\ FetchTo("A") \in Plain
  BY FetchPlain
<1>g. Mid(ir) \in 0..7 /\ Low(ir) \in 0..7
  BY Fields
<1>h. FetchTo(Reg8(Mid(ir))) \in Plain
  BY FetchPlain, Names8, <1>g
<1>1. Nop \in Seq(Plain)
  BY <1>f DEF Nop, AnyState
<1>2. LdImmSP \in Seq(Plain)
  <2>1. Imm("Z", 1) \in Plain /\ Imm("W", 2) \in Plain BY ReadPlain
  <2>2. Store("WZ", "SPL", 3) \in Plain /\ Store("WZ", "SPH", 4) \in Plain BY StorePlain
  <2>3. [Store("WZ", "SPL", 3) EXCEPT !.rd_idu = "WZ"] \in Plain BY <2>2, RedirectOnly
  <2> QED BY <2>1, <2>2, <2>3, <1>f DEF LdImmSP
<1>3. Jr \in Seq(Plain) /\ JrCond(cc) \in Seq(Plain)
  <2>1. Imm("Z", 1) \in Plain /\ Imm("Z", 2) \in Plain BY ReadPlain
  <2>2. Relative(2) \in Plain /\ Relative(3) \in Plain BY MovePlain
  <2> QED BY <2>1, <2>2, <1>f DEF Jr, JrCond
<1>4. LdR16Imm(ir) \in Seq(Plain)
  <2>1. Imm(LSB(ir), 1) \in Plain /\ Imm(MSB(ir), 2) \in Plain BY ReadPlain, Names16
  <2> QED BY <2>1, <1>f DEF LdR16Imm
<1>5. AddHl \in Seq(Plain)
  <2>1. Inner(1) \in Plain BY MovePlain
  <2>2. [Inner(1) EXCEPT !.rd = "L"] \in Plain BY <2>1, Divert
  <2> QED BY <2>2, <1>f DEF AddHl
<1>6. LdMemA(ir) \in Seq(Plain)
  <2>1. Store(RegMem(ir), "A", 1) \in Plain BY StorePlain, Names16
  <2>3. [Store(RegMem(ir), "A", 1) EXCEPT !.idu = MemOp(ir), !.rd_idu = RegMem(ir)] \in Plain BY <2>1, Names16, Redirect
  <2> QED BY <2>3, <1>f DEF LdMemA
<1>7. LdAMem(ir) \in Seq(Plain)
  <2>1. Load(RegMem(ir), "A", 1) \in Plain BY ReadPlain, Names16
  <2>3. [Load(RegMem(ir), "A", 1) EXCEPT !.idu = MemOp(ir), !.rd_idu = RegMem(ir)] \in Plain BY <2>1, Names16, Redirect
  <2> QED BY <2>3, <1>f DEF LdAMem
<1>8. IncR16(ir) \in Seq(Plain) /\ DecR16(ir) \in Seq(Plain)
  <2>1. Move(Reg16(ir), "INC", Reg16(ir), 1) \in Plain /\ Move(Reg16(ir), "DEC", Reg16(ir), 1) \in Plain
    BY MovePlain, Names16
  <2> QED BY <2>1, <1>f DEF IncR16, DecR16
<1>9. IncR8(ir) \in Seq(Plain) /\ DecR8(ir) \in Seq(Plain)
  <2>1. Load("HL", "Z", 1) \in Plain BY ReadPlain
  <2>2. Store("HL", "Z", 2) \in Plain BY StorePlain
  <2> QED BY <2>1, <2>2, <1>f, <1>h DEF IncR8, DecR8
<1>10. LdR8Imm(ir) \in Seq(Plain)
  <2>1. Imm("Z", 1) \in Plain /\ Imm(Reg8(Mid(ir)), 2) \in Plain BY ReadPlain, Names8, <1>g
  <2>2. Store("HL", "Z", 2) \in Plain BY StorePlain
  <2> QED BY <2>1, <2>2, <1>f DEF LdR8Imm
<1>11. Accumulate(ir) \in Seq(Plain)
  BY <1>f DEF Accumulate, AnyState
<1>12. ir = 8 \/ ir = 0 \/ ir = 24 \/ (Low(ir) = 0 /\ Mid(ir) \in 4..7) \/ Low(ir) \in 1..7
  BY DEF Opcode, Block, Low, Mid
<1> QED BY <1>1, <1>2, <1>3, <1>4, <1>5, <1>6, <1>7, <1>8, <1>9, <1>10, <1>11, <1>12 DEF Block0

(* Raising one of these lines on a cycle that does not write keeps it plain. *)
LEMMA AlsoPlain ==
  ASSUME NEW s \in Plain, "write" \notin s.on,
         NEW lines \in SUBSET {"set_IME", "read", "fetch_prefix"}
  PROVE  Also(s, lines) \in Plain
BY DEF Also, Plain, Signals, PlainLines, Line

(* A default cycle, a fetch and a move do not write. *)
LEMMA Unwritten ==
  ASSUME NEW n \in State, NEW a \in Address, NEW p \in Pair,
         NEW op \in {"ZER", "INC", "DEC", "ADJ"}
  PROVE  /\ "write" \notin Idle.on
         /\ "write" \notin Fetch.on
         /\ "write" \notin Move(a, op, p, n).on
BY DEF Idle, Fetch, Move

(* Block 11 is plain, but for di. *)
LEMMA Block3Plain ==
  ASSUME NEW ir \in Opcode, ir # DiOp, Block(ir) = 3, NEW irp \in Opcode, NEW cc \in BOOLEAN
  PROVE Block3(ir, irp) \in Seq(Plain) /\ Branch(ir, cc) \in Seq(Plain)
<1> USE Names
<1>f. Fetch \in Plain /\ FetchAt("WZ") \in Plain /\ FetchAt("HL") \in Plain
      /\ FetchAt("0:Z") \in Plain /\ FetchTo("H") \in Plain
  BY FetchPlain
<1>g. Mid(ir) \in 0..7 /\ Low(ir) \in 0..7 /\ Low(irp) \in 0..7
  BY Fields
<1>i. Imm("Z", 1) \in Plain /\ Imm("W", 2) \in Plain /\ Imm("W", 3) \in Plain
  BY ReadPlain
<1>m. /\ Move("WZ", "ZER", "PC", 3) \in Plain
      /\ Move("WZ", "ZER", "PC", 4) \in Plain
      /\ Move("SP", "DEC", "SP", 1) \in Plain
      /\ Move("SP", "DEC", "SP", 3) \in Plain
      /\ Move("SP", "ADJ", "SP", 3) \in Plain
      /\ Move("SP", "ADJ", "WZ", 2) \in Plain
      /\ Move("HL", "ZER", "SP", 1) \in Plain
      /\ Move("PC", "INC", "WZ", 5) \in Plain
      /\ Move("PC", "INC", "PC", 1) \in Plain
  BY MovePlain
<1>1. RetCond(cc) \in Seq(Plain)
  <2>1. Inner(IF cc THEN 1 ELSE 4) \in Plain BY MovePlain
  <2>2. Pop("Z", 2) \in Plain /\ Pop("W", 3) \in Plain BY ReadPlain
  <2> QED BY <2>1, <2>2, <1>f, <1>m DEF RetCond
<1>2. Ret(ir) \in Seq(Plain)
  <2>1. Pop("Z", 1) \in Plain /\ Pop("W", 2) \in Plain BY ReadPlain
  <2>2. "write" \notin Move("WZ", "ZER", "PC", 3).on BY Unwritten
  <2>3. Also(Move("WZ", "ZER", "PC", 3), IF Index(ir) = 1 THEN {"set_IME"} ELSE {}) \in Plain
    BY <2>2, <1>m, AlsoPlain
  <2> QED BY <2>1, <2>3, <1>f DEF Ret
<1>3. PopR16(ir) \in Seq(Plain)
  <2>1. Pop(LSBs(ir), 1) \in Plain /\ Pop(MSBs(ir), 2) \in Plain BY ReadPlain, Names16
  <2> QED BY <2>1, <1>f DEF PopR16
<1>4. JpHl \in Seq(Plain) /\ LdSpHl \in Seq(Plain)
  BY <1>f, <1>m DEF JpHl, LdSpHl
<1>5. JpCond(cc) \in Seq(Plain) /\ Jp \in Seq(Plain)
  <2>1. Imm("W", IF cc THEN 2 ELSE 3) \in Plain BY ReadPlain
  <2> QED BY <2>1, <1>i, <1>m, <1>f DEF JpCond, Jp
<1>p. PushHigh("PCH", 4) \in Plain /\ PushLow("PCL", 5) \in Plain
      /\ PushHigh("PCH", 2) \in Plain /\ PushLow("PCL", 3) \in Plain
  BY StorePlain
<1>6. CallCond(cc) \in Seq(Plain) /\ Call \in Seq(Plain)
  <2>1. "write" \notin Move("PC", "INC", "WZ", 5).on BY Unwritten
  <2>2. Also(Move("PC", "INC", "WZ", 5), {"read"}) \in Plain BY <2>1, <1>m, AlsoPlain
  <2> QED BY <2>2, <1>i, <1>m, <1>p, <1>f DEF CallCond, Call
<1>7. PushR16(ir) \in Seq(Plain)
  <2>1. PushHigh(MSBs(ir), 2) \in Plain /\ PushLow(LSBs(ir), 3) \in Plain BY StorePlain, Names16
  <2> QED BY <2>1, <1>m, <1>f DEF PushR16
<1>8. ArithImm(ir) \in Seq(Plain)
  BY Cycles2
<1>9. LdhImmA \in Seq(Plain) /\ LdhCA \in Seq(Plain) /\ LdImmA \in Seq(Plain)
  <2>1. Store("FF:Z", "A", 2) \in Plain /\ Store("FF:C", "A", 1) \in Plain
        /\ Store("WZ", "A", 3) \in Plain BY StorePlain
  <2> QED BY <2>1, <1>i, <1>f DEF LdhImmA, LdhCA, LdImmA
<1>10. LdhAImm \in Seq(Plain) /\ LdhAC \in Seq(Plain) /\ LdAImm \in Seq(Plain)
  <2>1. Load("FF:Z", "A", 2) \in Plain /\ Load("FF:C", "A", 1) \in Plain
        /\ Load("WZ", "A", 3) \in Plain BY ReadPlain
  <2> QED BY <2>1, <1>i, <1>f DEF LdhAImm, LdhAC, LdAImm
<1>11. AddSp \in Seq(Plain) /\ LdHlSp \in Seq(Plain)
  <2>1. Inner(2) \in Plain BY MovePlain
  <2>2. [Inner(2) EXCEPT !.rd = "SPL"] \in Plain BY <2>1, Divert
  <2>3. [Move("SP", "ADJ", "WZ", 2) EXCEPT !.rd = "L"] \in Plain BY <1>m, Divert
  <2> QED BY <2>2, <2>3, <1>i, <1>m, <1>f DEF AddSp, LdHlSp
<1>12. Rst \in Seq(Plain)
  <2>1. [Move("SP", "DEC", "SP", 1) EXCEPT !.rd = "Z"] \in Plain BY <1>m, Divert
  <2> QED BY <2>1, <1>p, <1>f DEF Rst
<1>13. Ei \in Seq(Plain)
  <2>1. Also(Fetch, {"set_IME"}) \in Plain BY <1>f, Unwritten, AlsoPlain
  <2> QED BY <2>1 DEF Ei
<1>14. Prefixed(irp) \in Seq(Plain)
  <2>1. "write" \notin Move("PC", "INC", "PC", 1).on BY Unwritten
  <2>2. Also(Move("PC", "INC", "PC", 1), {"fetch_prefix"}) \in Plain BY <2>1, <1>m, AlsoPlain
  <2>3. Load("HL", "Z", 2) \in Plain BY ReadPlain
  <2>4. Store("HL", "Z", 3) \in Plain BY StorePlain
  <2>5. FetchTo(Reg8(Low(irp))) \in Plain /\ FetchTo("CTR") \in Plain BY FetchPlain, Names8, <1>g
  <2> QED BY <2>2, <2>3, <2>4, <2>5, <1>f DEF Prefixed
<1>15. ~(Low(ir) = 3 /\ Mid(ir) = 6)
  BY DEF Opcode, DiOp, Block, Low, Mid
<1>16. << >> \in Seq(Plain)
  OBVIOUS
<1>17. Block3(ir, irp) \in Seq(Plain)
  BY <1>2, <1>3, <1>4, <1>5, <1>6, <1>7, <1>8, <1>9, <1>10, <1>11, <1>12, <1>13, <1>14, <1>15, <1>16
  DEF Block3
<1>18. Branch(ir, cc) \in Seq(Plain)
  BY <1>1, <1>5, <1>6 DEF Branch
<1> QED BY <1>17, <1>18

(* Where an instruction sleeps or stops, in the state that does it. *)
Sleeping(ir, st) == (Block(ir) = 1 /\ st = 1) \/ (ir = 16 /\ st = 0)

Tame(s, ir, st) ==
  /\ s \in Signals
  /\ s.inext = 0
  /\ s.rd # "PCL"
  /\ s.on \cap {"service", "ack_IF"} = {}
  /\ "unset_IME" \in s.on => ir = DiOp
  /\ ("halt" \in s.on \/ "stop" \in s.on) => Sleeping(ir, st)
  /\ "write" \in s.on => s.on \subseteq {"write"} /\ ~Sleeping(ir, s.next)

(* A plain cycle is tame, unless it writes for an opcode that may sleep. *)
LEMMA PlainIsTame ==
  ASSUME NEW s \in Plain, NEW ir \in Opcode, NEW st \in State,
         "write" \notin s.on \/ (Block(ir) # 1 /\ ir # 16)
  PROVE  Tame(s, ir, st)
BY DEF Tame, Plain, PlainLines, Line, Sleeping

(* An entry of a plain instruction, or the default past its end, is plain. *)
LEMMA Entry ==
  ASSUME NEW ir \in Opcode, NEW irp \in Opcode, NEW st \in State,
         NEW cc \in BOOLEAN, NEW key1 \in BOOLEAN, NEW pending \in BOOLEAN,
         Cycles(ir, irp, cc, key1, pending) \in Seq(Plain)
  PROVE  Instruction(ir, irp, st, cc, key1, pending) \in Plain
BY IdlePlain DEF Instruction, State

(* Every cycle of every opcode is tame: only di clears IME, only block 01 and stop
   sleep, and a cycle that writes does nothing else. *)
LEMMA CyclesTame ==
  ASSUME NEW ir \in Opcode, NEW irp \in Opcode, NEW st \in State,
         NEW cc \in BOOLEAN, NEW key1 \in BOOLEAN, NEW pending \in BOOLEAN
  PROVE  Tame(Instruction(ir, irp, st, cc, key1, pending), ir, st)
<1> DEFINE cycles == Cycles(ir, irp, cc, key1, pending)
           ins == Instruction(ir, irp, st, cc, key1, pending)
<1>0. Block(ir) \in 0..3
  BY Fields
<1>1. CASE ir = 16
  <2>1. ins = IF st = 0 THEN Also(IF key1 THEN Fetch ELSE Idle, {"stop"}) ELSE Idle
    BY <1>1 DEF Instruction, Cycles, Block0, Block, Low, Mid, Stop, State
  <2>2. \A s \in Plain : st = 0 /\ "write" \notin s.on => Tame(Also(s, {"stop"}), ir, st)
    BY <1>1 DEF Also, Tame, Plain, PlainLines, Signals, Line, Sleeping
  <2> QED BY <2>1, <2>2, IdlePlain, FetchPlain, Names, Unwritten, PlainIsTame
<1>2. CASE ir = DiOp
  <2>1. ins = IF st = 0 THEN Also(Fetch, {"unset_IME"}) ELSE Idle
    <3>1. Block(ir) = 3 /\ Low(ir) = 3 /\ Mid(ir) = 6 /\ ~Conditional(ir)
      BY <1>2 DEF DiOp, Block, Low, Mid, Conditional
    <3>2. Block3(ir, irp) = Di
      BY <3>1 DEF Block3
    <3>3. Cycles(ir, irp, cc, key1, pending) = Di
      BY <3>1, <3>2 DEF Cycles
    <3> QED BY <3>3 DEF Instruction, Di, State
  <2>2. \A s \in Plain : "write" \notin s.on => Tame(Also(s, {"unset_IME"}), ir, st)
    BY <1>2 DEF Also, Tame, Plain, PlainLines, Signals, Line
  <2> QED BY <2>1, <2>2, IdlePlain, FetchPlain, Names, Unwritten, PlainIsTame
<1>3. CASE Block(ir) = 1
  <2>1. Cycles(ir, irp, cc, key1, pending) = LdR8R8(ir, pending)
    BY <1>3 DEF Cycles
  <2>2. /\ Mid(ir) \in 0..7 /\ Low(ir) \in 0..7
    BY Fields
  <2>3. \/ /\ st = 0
           /\ \/ ins = Inner(1)
              \/ ins = Store("HL", Reg8(Low(ir)), 2)
              \/ ins = Load("HL", Reg8(Mid(ir)), 2)
              \/ ins = FetchTo(Reg8(Mid(ir)))
        \/ /\ st = 1
           /\ ins = IF pending THEN Also(Idle, {"halt", "fetch"}) ELSE Also(Inner(1), {"halt"})
        \/ st = 2 /\ ins = Fetch
        \/ st > 2 /\ ins = Idle
    BY <2>1 DEF Instruction, LdR8R8, State
  <2>4. \A s \in Plain : st = 1 /\ "write" \notin s.on => /\ Tame(Also(s, {"halt", "fetch"}), ir, st)
                                                          /\ Tame(Also(s, {"halt"}), ir, st)
    BY <1>3 DEF Also, Tame, Plain, PlainLines, Signals, Line, Sleeping
  <2>5. Inner(1) \in Plain /\ "write" \notin Inner(1).on
    BY MovePlain, Names DEF Inner, Idle
  <2>6. /\ Store("HL", Reg8(Low(ir)), 2) \in Plain
        /\ Load("HL", Reg8(Mid(ir)), 2) \in Plain
        /\ FetchTo(Reg8(Mid(ir))) \in Plain
        /\ Fetch \in Plain
    BY <2>2, Names, Names8, StorePlain, ReadPlain, FetchPlain
  <2>7. /\ "write" \notin Load("HL", Reg8(Mid(ir)), 2).on
        /\ "write" \notin FetchTo(Reg8(Mid(ir))).on
        /\ Store("HL", Reg8(Low(ir)), 2).next = 2
    BY DEF Load, FetchTo, Fetch, Store, Idle
  <2>8. ir # 16
    BY <1>3 DEF Block
  <2>9. Tame(Store("HL", Reg8(Low(ir)), 2), ir, st)
    BY <2>6, <2>7, <2>8 DEF Tame, Plain, PlainLines, Sleeping
  <2> QED BY <2>3, <2>4, <2>5, <2>6, <2>7, <2>9, IdlePlain, Unwritten, PlainIsTame, Names
<1>4. CASE Block(ir) # 1 /\ ir # 16 /\ ir # DiOp
  <2>1. cycles \in Seq(Plain)
    BY <1>0, <1>4, Block0Plain, Block3Plain, Cycles2 DEF Cycles
  <2> QED BY <1>4, <2>1, Entry, PlainIsTame
<1> QED BY <1>1, <1>2, <1>3, <1>4

(* Sequences of cycles that write in the same states. *)
SameWrites(p, q) ==
  /\ DOMAIN p = DOMAIN q
  /\ \A i \in DOMAIN p : "write" \in p[i].on <=> "write" \in q[i].on

(* A condition decides where an instruction goes on, never what it writes. *)
LEMMA SameWritesConditional ==
  ASSUME NEW cc \in BOOLEAN
  PROVE  /\ SameWrites(JrCond(cc), JrCond(FALSE))
         /\ SameWrites(RetCond(cc), RetCond(FALSE))
         /\ SameWrites(JpCond(cc), JpCond(FALSE))
         /\ SameWrites(CallCond(cc), CallCond(FALSE))
<1>1. \A r \in Byte, n \in State : "write" \notin Imm(r, n).on
  BY DEF Imm, Idle
<1>2. \A n \in State : "write" \notin Inner(n).on
  BY DEF Inner, Idle
<1>3. "write" \notin Also(Move("PC", "INC", "WZ", 5), {"read"}).on
  BY DEF Also, Move, Idle
<1>4. Imm("Z", IF cc THEN 2 ELSE 1) = Imm("Z", 2) \/ Imm("Z", IF cc THEN 2 ELSE 1) = Imm("Z", 1)
  OBVIOUS
<1>5. SameWrites(JrCond(cc), JrCond(FALSE))
  BY <1>1, Names DEF SameWrites, JrCond
<1>6. SameWrites(RetCond(cc), RetCond(FALSE))
  BY <1>2, Names DEF SameWrites, RetCond
<1>7. SameWrites(JpCond(cc), JpCond(FALSE))
  BY <1>1, Names DEF SameWrites, JpCond
<1>8. SameWrites(CallCond(cc), CallCond(FALSE))
  BY <1>1, <1>3, Names DEF SameWrites, CallCond
<1> QED BY <1>5, <1>6, <1>7, <1>8

(* The condition, an armed speed switch and a pending request leave an instruction its
   machine cycles and what they write. *)
LEMMA CyclesFixed ==
  ASSUME NEW ir \in Opcode, NEW irp \in Opcode,
         NEW cc \in BOOLEAN, NEW key1 \in BOOLEAN, NEW pending \in BOOLEAN
  PROVE  SameWrites(Cycles(ir, irp, cc, key1, pending), Cycles(ir, irp, FALSE, FALSE, FALSE))
<1>0. Block(ir) \in 0..3
  BY Fields
<1>2. \A p : SameWrites(p, p)
  BY DEF SameWrites
<1>3. CASE ir = 16
  <2>1. "write" \notin Also(Fetch, {"stop"}).on /\ "write" \notin Also(Idle, {"stop"}).on
    BY DEF Also, Fetch, Idle
  <2>2. SameWrites(Stop(key1), Stop(FALSE))
    BY <2>1 DEF Stop, SameWrites
  <2>3. \A c, a, q : Cycles(16, irp, c, a, q) = Stop(a)
    BY DEF Cycles, Block0, Block, Low, Mid
  <2> QED BY <1>3, <2>2, <2>3
<1>4. CASE Block(ir) = 0 /\ ir # 16
  <2>1. \/ Block0(ir, cc, key1) = Block0(ir, FALSE, FALSE)
        \/ Block0(ir, cc, key1) = JrCond(cc) /\ Block0(ir, FALSE, FALSE) = JrCond(FALSE)
    BY <1>4 DEF Block0
  <2>2. SameWrites(Block0(ir, cc, key1), Block0(ir, FALSE, FALSE))
    BY <2>1, <1>2, SameWritesConditional
  <2>3. /\ Cycles(ir, irp, cc, key1, pending) = Block0(ir, cc, key1)
        /\ Cycles(ir, irp, FALSE, FALSE, FALSE) = Block0(ir, FALSE, FALSE)
    BY <1>4 DEF Cycles
  <2> QED BY <2>2, <2>3
<1>5. CASE Block(ir) = 1
  <2>1. /\ "write" \notin Also(Idle, {"halt", "fetch"}).on
        /\ "write" \notin Also(Inner(1), {"halt"}).on
    BY DEF Also, Inner, Idle
  <2>2. SameWrites(LdR8R8(ir, pending), LdR8R8(ir, FALSE))
    BY <2>1 DEF LdR8R8, SameWrites
  <2>3. /\ Cycles(ir, irp, cc, key1, pending) = LdR8R8(ir, pending)
        /\ Cycles(ir, irp, FALSE, FALSE, FALSE) = LdR8R8(ir, FALSE)
    BY <1>5 DEF Cycles
  <2> QED BY <2>2, <2>3
<1>6. CASE Block(ir) = 2
  <2>1. /\ Cycles(ir, irp, cc, key1, pending) = ArithR8(ir)
        /\ Cycles(ir, irp, FALSE, FALSE, FALSE) = ArithR8(ir)
    BY <1>6 DEF Cycles
  <2> QED BY <2>1, <1>2
<1>7. CASE Block(ir) = 3 /\ Conditional(ir)
  <2>1. /\ Cycles(ir, irp, cc, key1, pending) = Branch(ir, cc)
        /\ Cycles(ir, irp, FALSE, FALSE, FALSE) = Branch(ir, FALSE)
    BY <1>7 DEF Cycles
  <2>2. CASE Low(ir) = 0
    <3>1. Branch(ir, cc) = RetCond(cc) /\ Branch(ir, FALSE) = RetCond(FALSE)
      BY <2>2 DEF Branch
    <3> QED BY <3>1, <2>1, SameWritesConditional
  <2>3. CASE Low(ir) = 2
    <3>1. Branch(ir, cc) = JpCond(cc) /\ Branch(ir, FALSE) = JpCond(FALSE)
      BY <2>3 DEF Branch
    <3> QED BY <3>1, <2>1, SameWritesConditional
  <2>4. CASE Low(ir) # 0 /\ Low(ir) # 2
    <3>1. Branch(ir, cc) = CallCond(cc) /\ Branch(ir, FALSE) = CallCond(FALSE)
      BY <2>4 DEF Branch
    <3> QED BY <3>1, <2>1, SameWritesConditional
  <2> QED BY <2>2, <2>3, <2>4
<1>8. CASE Block(ir) = 3 /\ ~Conditional(ir)
  <2>1. /\ Cycles(ir, irp, cc, key1, pending) = Block3(ir, irp)
        /\ Cycles(ir, irp, FALSE, FALSE, FALSE) = Block3(ir, irp)
    BY <1>8 DEF Cycles
  <2> QED BY <2>1, <1>2
<1>9. Block(ir) = 0 \/ Block(ir) = 1 \/ Block(ir) = 2 \/ Block(ir) = 3
  BY <1>0
<1> QED BY <1>3, <1>4, <1>5, <1>6, <1>7, <1>8, <1>9

(* The write output: the registers of the control unit alone decide it. *)
LEMMA WritesFixed ==
  ASSUME NEW ir \in Opcode, NEW irp \in Opcode, NEW st \in State,
         NEW cc \in BOOLEAN, NEW key1 \in BOOLEAN, NEW pending \in BOOLEAN
  PROVE  "write" \in Instruction(ir, irp, st, cc, key1, pending).on
           <=> "write" \in Instruction(ir, irp, st, FALSE, FALSE, FALSE).on
<1>1. SameWrites(Cycles(ir, irp, cc, key1, pending), Cycles(ir, irp, FALSE, FALSE, FALSE))
  BY CyclesFixed
<1> QED BY <1>1 DEF Instruction, SameWrites

(***************************************************************************)
(* How far an instruction has got, seen from its state: a machine cycle    *)
(* either ends the instruction, at a boundary that goes back to S0, or     *)
(* moves on to a later state that the instruction has an entry for.        *)
(***************************************************************************)
Ends(s)    == AtBoundary(s) /\ s.next = 0
Goes(s, n) == ~AtBoundary(s) /\ s.next = n

Turn(s, i, len) == Ends(s) \/ \E n \in i..(len - 1) : Goes(s, n)
Advances(c, len) == DOMAIN c = 1..len /\ \A i \in 1..len : Turn(c[i], i, len)

(* The opcodes the casez statement has no pattern for. *)
Illegal == {211, 219, 221, 227, 228, 235, 236, 237, 244, 252, 253}

(* The instructions of a single machine cycle: stop, jp hl, di and ei. *)
Single == {16, 233, DiOp, 251}

(* A fetch ends an instruction. *)
LEMMA FetchEnds ==
  ASSUME NEW a, NEW r
  PROVE  Ends(Fetch) /\ Ends(FetchAt(a)) /\ Ends(FetchTo(r))
BY DEF Ends, AtBoundary, Fetch, FetchAt, FetchTo, Idle

(* Every other cycle moves on to the state it names. *)
LEMMA CycleGoes ==
  ASSUME NEW n \in State, NEW a, NEW r, NEW p, NEW op
  PROVE  /\ Goes(Imm(r, n), n)
         /\ Goes(Load(a, r, n), n)
         /\ Goes(Store(a, r, n), n)
         /\ Goes(Move(a, op, p, n), n)
         /\ Goes(Pop(r, n), n)
         /\ Goes(PushHigh(r, n), n)
         /\ Goes(PushLow(r, n), n)
         /\ Goes(Inner(n), n)
         /\ Goes(Relative(n), n)
<1>1. Goes(Imm(r, n), n) /\ Goes(Inner(n), n)
  BY DEF Goes, AtBoundary, Imm, Inner, Idle
<1>2. Goes(Load(a, r, n), n) /\ Goes(Pop(r, n), n)
  BY DEF Goes, AtBoundary, Load, Pop, Idle
<1>3. Goes(Store(a, r, n), n) /\ Goes(PushHigh(r, n), n) /\ Goes(PushLow(r, n), n)
  BY DEF Goes, AtBoundary, Store, PushHigh, PushLow, Idle
<1>4. Goes(Move(a, op, p, n), n) /\ Goes(Relative(n), n)
  BY DEF Goes, AtBoundary, Move, Relative, Idle
<1> QED BY <1>1, <1>2, <1>3, <1>4

(* So does one whose addresses or byte are changed, or that raises another line. *)
LEMMA VariantGoes ==
  ASSUME NEW n \in State, NEW a, NEW r, NEW p, NEW op, NEW q, NEW t,
         NEW lines \in SUBSET {"set_IME", "read", "fetch_prefix"}
  PROVE  /\ Goes([Store(a, r, n) EXCEPT !.idu = op, !.rd_idu = p], n)
         /\ Goes([Store(a, r, n) EXCEPT !.rd_idu = p], n)
         /\ Goes([Load(a, r, n) EXCEPT !.idu = op, !.rd_idu = p], n)
         /\ Goes([Inner(n) EXCEPT !.rd = r], n)
         /\ Goes([Move(a, op, p, n) EXCEPT !.rd = r], n)
         /\ Goes(Also(Move(a, op, p, n), lines), n)
<1>1. Goes([Store(a, r, n) EXCEPT !.idu = op, !.rd_idu = p], n)
      /\ Goes([Store(a, r, n) EXCEPT !.rd_idu = p], n)
  BY DEF Goes, AtBoundary, Store, Idle
<1>2. Goes([Load(a, r, n) EXCEPT !.idu = op, !.rd_idu = p], n)
  BY DEF Goes, AtBoundary, Load, Idle
<1>3. Goes([Inner(n) EXCEPT !.rd = r], n)
  BY DEF Goes, AtBoundary, Inner, Idle
<1>4. Goes([Move(a, op, p, n) EXCEPT !.rd = r], n)
  BY DEF Goes, AtBoundary, Move, Idle
<1>5. Goes(Also(Move(a, op, p, n), lines), n)
  BY DEF Goes, AtBoundary, Also, Move, Idle
<1> QED BY <1>1, <1>2, <1>3, <1>4, <1>5

(* Raising another line on a fetch keeps it an end; an armed or plain stop is one. *)
LEMMA VariantEnds ==
  ASSUME NEW lines
  PROVE  /\ Ends(Also(Fetch, lines))
         /\ Ends(Also(Idle, {"stop"}))
BY DEF Ends, AtBoundary, Also, Fetch, Idle

(* An instruction of more than one machine cycle that advances. *)
Long(c) == \E len \in 2..6 : Advances(c, len)

(* The only machine cycle of an instruction advances when it is an end. *)
LEMMA Advance1 ==
  ASSUME NEW a,
         Turn(a, 1, 1)
  PROVE  Advances(<<a>>, 1)
BY DEF Advances

(* A tuple of two machine cycles advances when each of them does. *)
LEMMA Advance2 ==
  ASSUME NEW a, NEW b,
         Turn(a, 1, 2), Turn(b, 2, 2)
  PROVE  Long(<<a, b>>)
<1>1. Advances(<<a, b>>, 2)
  BY DEF Advances
<1> QED BY <1>1 DEF Long

(* A tuple of three machine cycles advances when each of them does. *)
LEMMA Advance3 ==
  ASSUME NEW a, NEW b, NEW c,
         Turn(a, 1, 3), Turn(b, 2, 3), Turn(c, 3, 3)
  PROVE  Long(<<a, b, c>>)
<1>1. Advances(<<a, b, c>>, 3)
  BY DEF Advances
<1> QED BY <1>1 DEF Long

(* A tuple of four machine cycles advances when each of them does. *)
LEMMA Advance4 ==
  ASSUME NEW a, NEW b, NEW c, NEW d,
         Turn(a, 1, 4), Turn(b, 2, 4), Turn(c, 3, 4), Turn(d, 4, 4)
  PROVE  Long(<<a, b, c, d>>)
<1>1. Advances(<<a, b, c, d>>, 4)
  BY DEF Advances
<1> QED BY <1>1 DEF Long

(* A tuple of five machine cycles advances when each of them does. *)
LEMMA Advance5 ==
  ASSUME NEW a, NEW b, NEW c, NEW d, NEW e,
         Turn(a, 1, 5), Turn(b, 2, 5), Turn(c, 3, 5), Turn(d, 4, 5), Turn(e, 5, 5)
  PROVE  Long(<<a, b, c, d, e>>)
<1>1. Advances(<<a, b, c, d, e>>, 5)
  BY DEF Advances
<1> QED BY <1>1 DEF Long

(* A tuple of six machine cycles advances when each of them does. *)
LEMMA Advance6 ==
  ASSUME NEW a, NEW b, NEW c, NEW d, NEW e, NEW f,
         Turn(a, 1, 6), Turn(b, 2, 6), Turn(c, 3, 6), Turn(d, 4, 6), Turn(e, 5, 6), Turn(f, 6, 6)
  PROVE  Long(<<a, b, c, d, e, f>>)
<1>1. Advances(<<a, b, c, d, e, f>>, 6)
  BY DEF Advances
<1> QED BY <1>1 DEF Long

(* Block 00 advances. *)
LEMMA Block0Advances ==
  ASSUME NEW ir \in Opcode, Block(ir) = 0, NEW cc \in BOOLEAN, NEW key1 \in BOOLEAN
  PROVE  IF ir = 16 THEN Advances(Block0(ir, cc, key1), 1) ELSE Long(Block0(ir, cc, key1))
<1> USE Names, FetchEnds
<1>1. Long(Nop) /\ Long(Accumulate(ir))
  <2>1. \A i \in 1..6 : /\ Turn(Fetch, i, 6)
                        /\ Turn(IF Mid(ir) \in {6, 7} THEN Fetch ELSE FetchTo("A"), i, 6)
    BY DEF Turn
  <2> QED BY <2>1, Advance6 DEF Nop, Accumulate, AnyState
<1>2. Long(LdImmSP)
  <2>1. /\ Goes(Imm("Z", 1), 1)
        /\ Goes(Imm("W", 2), 2)
        /\ Goes(Store("WZ", "SPH", 4), 4)
    BY CycleGoes
  <2>2. Goes([Store("WZ", "SPL", 3) EXCEPT !.rd_idu = "WZ"], 3)
    BY VariantGoes
  <2>3. /\ Turn(Imm("Z", 1), 1, 5)
        /\ Turn(Imm("W", 2), 2, 5)
        /\ Turn([Store("WZ", "SPL", 3) EXCEPT !.rd_idu = "WZ"], 3, 5)
        /\ Turn(Store("WZ", "SPH", 4), 4, 5)
        /\ Turn(Fetch, 5, 5)
    BY <2>1, <2>2 DEF Turn
  <2> QED BY <2>3, Advance5 DEF LdImmSP
<1>3. Long(Jr)
  <2>1. /\ Goes(Imm("Z", 1), 1)
        /\ Goes(Relative(2), 2)
    BY CycleGoes
  <2>2. /\ Turn(Imm("Z", 1), 1, 3)
        /\ Turn(Relative(2), 2, 3)
        /\ Turn(FetchAt("WZ"), 3, 3)
    BY <2>1 DEF Turn
  <2> QED BY <2>2, Advance3 DEF Jr
<1>4. Long(JrCond(cc))
  <2>1. /\ Goes(Imm("Z", 1), 1)
        /\ Goes(Imm("Z", 2), 2)
        /\ Goes(Relative(3), 3)
    BY CycleGoes
  <2>2. /\ Turn(Imm("Z", IF cc THEN 2 ELSE 1), 1, 4)
        /\ Turn(Fetch, 2, 4)
        /\ Turn(Relative(3), 3, 4)
        /\ Turn(FetchAt("WZ"), 4, 4)
    BY <2>1 DEF Turn
  <2> QED BY <2>2, Advance4 DEF JrCond
<1>5. Long(LdR16Imm(ir))
  <2>1. /\ Goes(Imm(LSB(ir), 1), 1)
        /\ Goes(Imm(MSB(ir), 2), 2)
    BY CycleGoes
  <2>2. /\ Turn(Imm(LSB(ir), 1), 1, 3)
        /\ Turn(Imm(MSB(ir), 2), 2, 3)
        /\ Turn(Fetch, 3, 3)
    BY <2>1 DEF Turn
  <2> QED BY <2>2, Advance3 DEF LdR16Imm
<1>6. Long(AddHl)
  <2>1. Goes([Inner(1) EXCEPT !.rd = "L"], 1)
    BY VariantGoes
  <2>2. /\ Turn([Inner(1) EXCEPT !.rd = "L"], 1, 2)
        /\ Turn(FetchTo("H"), 2, 2)
    BY <2>1 DEF Turn
  <2> QED BY <2>2, Advance2 DEF AddHl
<1>7. /\ Long(LdMemA(ir))
      /\ Long(LdAMem(ir))
  <2>1. /\ Goes([Store(RegMem(ir), "A", 1) EXCEPT !.idu = MemOp(ir), !.rd_idu = RegMem(ir)], 1)
        /\ Goes([Load(RegMem(ir), "A", 1) EXCEPT !.idu = MemOp(ir), !.rd_idu = RegMem(ir)], 1)
    BY VariantGoes
  <2>2. /\ Turn([Store(RegMem(ir), "A", 1) EXCEPT !.idu = MemOp(ir), !.rd_idu = RegMem(ir)], 1, 2)
        /\ Turn(Fetch, 2, 2)
        /\ Turn([Load(RegMem(ir), "A", 1) EXCEPT !.idu = MemOp(ir), !.rd_idu = RegMem(ir)], 1, 2)
    BY <2>1 DEF Turn
  <2> QED BY <2>2, Advance2 DEF LdMemA, LdAMem
<1>8. /\ Long(IncR16(ir))
      /\ Long(DecR16(ir))
  <2>1. /\ Goes(Move(Reg16(ir), "INC", Reg16(ir), 1), 1)
        /\ Goes(Move(Reg16(ir), "DEC", Reg16(ir), 1), 1)
    BY CycleGoes
  <2>2. /\ Turn(Move(Reg16(ir), "INC", Reg16(ir), 1), 1, 2)
        /\ Turn(Fetch, 2, 2)
        /\ Turn(Move(Reg16(ir), "DEC", Reg16(ir), 1), 1, 2)
    BY <2>1 DEF Turn
  <2> QED BY <2>2, Advance2 DEF IncR16, DecR16
<1>9. /\ Long(IncR8(ir))
      /\ Long(DecR8(ir))
      /\ Long(LdR8Imm(ir))
  <2>1. /\ Goes(Load("HL", "Z", 1), 1)
        /\ Goes(Store("HL", "Z", 2), 2)
        /\ Goes(Imm("Z", 1), 1)
        /\ Goes(Imm(Reg8(Mid(ir)), 2), 2)
    BY CycleGoes
  <2>2. /\ Turn(IF Mid(ir) = HlMem THEN Load("HL", "Z", 1) ELSE FetchTo(Reg8(Mid(ir))), 1, 3)
        /\ Turn(Store("HL", "Z", 2), 2, 3)
        /\ Turn(Fetch, 3, 3)
        /\ Turn(IF Mid(ir) = HlMem THEN Imm("Z", 1) ELSE Imm(Reg8(Mid(ir)), 2), 1, 3)
    BY <2>1 DEF Turn
  <2> QED BY <2>2, Advance3 DEF IncR8, DecR8, LdR8Imm
<1>10. CASE ir = 16
  <2>1. Block0(ir, cc, key1) = Stop(key1)
    BY <1>10 DEF Block0, Low, Mid
  <2>2. Turn(Also(IF key1 THEN Fetch ELSE Idle, {"stop"}), 1, 1)
    BY VariantEnds DEF Turn
  <2>3. Advances(Stop(key1), 1)
    BY <2>2, Advance1 DEF Stop
  <2> QED BY <1>10, <2>1, <2>3
<1>11. CASE ir # 16
  <2>1. ir = 8 \/ ir = 0 \/ ir = 24 \/ (Low(ir) = 0 /\ Mid(ir) \in 4..7) \/ Low(ir) \in 1..7
    BY <1>11 DEF Opcode, Block, Low, Mid
  <2>2. Long(Block0(ir, cc, key1))
    BY <1>1, <1>2, <1>3, <1>4, <1>5, <1>6, <1>7, <1>8, <1>9, <1>11, <2>1 DEF Block0
  <2> QED BY <1>11, <2>2
<1> QED BY <1>10, <1>11

(* So does block 10, *)
LEMMA Block2Advances ==
  ASSUME NEW ir \in Opcode
  PROVE  Long(ArithR8(ir)) /\ Long(ArithImm(ir))
<1>1. Ends(Result(ir))
  BY FetchEnds DEF Result
<1>2. Goes(Load("HL", "Z", 1), 1) /\ Goes(Imm("Z", 1), 1)
  BY CycleGoes, Names
<1>3. /\ Turn(IF Low(ir) = HlMem THEN Load("HL", "Z", 1) ELSE Result(ir), 1, 2)
      /\ Turn(Imm("Z", 1), 1, 2) /\ Turn(Result(ir), 2, 2)
  BY <1>1, <1>2 DEF Turn
<1> QED BY <1>3, Advance2 DEF ArithR8, ArithImm

(* and block 11, but for the opcodes without a pattern. *)
LEMMA Block3Advances ==
  ASSUME NEW ir \in Opcode, Block(ir) = 3, ir \notin Illegal, NEW irp \in Opcode, NEW cc \in BOOLEAN
  PROVE  /\ Long(Branch(ir, cc))
         /\ ~Conditional(ir)
              => IF ir \in Single THEN Advances(Block3(ir, irp), 1) ELSE Long(Block3(ir, irp))
<1> USE Names, FetchEnds
<1>1. Long(RetCond(cc))
  <2>1. /\ Goes(Inner(1), 1)
        /\ Goes(Inner(4), 4)
        /\ Goes(Pop("Z", 2), 2)
        /\ Goes(Pop("W", 3), 3)
        /\ Goes(Move("WZ", "ZER", "PC", 4), 4)
    BY CycleGoes
  <2>2. /\ Turn(Inner(IF cc THEN 1 ELSE 4), 1, 5)
        /\ Turn(Pop("Z", 2), 2, 5)
        /\ Turn(Pop("W", 3), 3, 5)
        /\ Turn(Move("WZ", "ZER", "PC", 4), 4, 5)
        /\ Turn(Fetch, 5, 5)
    BY <2>1 DEF Turn
  <2> QED BY <2>2, Advance5 DEF RetCond
<1>2. /\ Long(JpCond(cc))
      /\ Long(Jp)
  <2>1. /\ Goes(Imm("Z", 1), 1)
        /\ Goes(Imm("W", 2), 2)
        /\ Goes(Imm("W", 3), 3)
        /\ Goes(Move("WZ", "ZER", "PC", 3), 3)
    BY CycleGoes
  <2>2. /\ Turn(Imm("Z", 1), 1, 4)
        /\ Turn(Imm("W", IF cc THEN 2 ELSE 3), 2, 4)
        /\ Turn(Move("WZ", "ZER", "PC", 3), 3, 4)
        /\ Turn(Fetch, 4, 4)
        /\ Turn(Imm("W", 2), 2, 4)
    BY <2>1 DEF Turn
  <2> QED BY <2>2, Advance4 DEF JpCond, Jp
<1>3. /\ Long(CallCond(cc))
      /\ Long(Call)
  <2>1. /\ Goes(Imm("Z", 1), 1)
        /\ Goes(Imm("W", 2), 2)
        /\ Goes(Move("SP", "DEC", "SP", 3), 3)
        /\ Goes(PushHigh("PCH", 4), 4)
        /\ Goes(PushLow("PCL", 5), 5)
    BY CycleGoes
  <2>2. Goes(Also(Move("PC", "INC", "WZ", 5), {"read"}), 5)
    BY VariantGoes
  <2>3. /\ Turn(Imm("Z", 1), 1, 6)
        /\ Turn(IF cc THEN Imm("W", 2) ELSE Also(Move("PC", "INC", "WZ", 5), {"read"}), 2, 6)
        /\ Turn(Move("SP", "DEC", "SP", 3), 3, 6)
        /\ Turn(PushHigh("PCH", 4), 4, 6)
        /\ Turn(PushLow("PCL", 5), 5, 6)
        /\ Turn(FetchAt("WZ"), 6, 6)
        /\ Turn(Imm("W", 2), 2, 6)
    BY <2>1, <2>2 DEF Turn
  <2> QED BY <2>3, Advance6 DEF CallCond, Call
<1>4. Long(Branch(ir, cc))
  BY <1>1, <1>2, <1>3 DEF Branch
<1>5. Long(Ret(ir))
  <2>1. /\ Goes(Pop("Z", 1), 1)
        /\ Goes(Pop("W", 2), 2)
    BY CycleGoes
  <2>2. Goes(Also(Move("WZ", "ZER", "PC", 3), IF Index(ir) = 1 THEN {"set_IME"} ELSE {}), 3)
    BY VariantGoes
  <2>3. /\ Turn(Pop("Z", 1), 1, 4)
        /\ Turn(Pop("W", 2), 2, 4)
        /\ Turn(Also(Move("WZ", "ZER", "PC", 3), IF Index(ir) = 1 THEN {"set_IME"} ELSE {}), 3, 4)
        /\ Turn(Fetch, 4, 4)
    BY <2>1, <2>2 DEF Turn
  <2> QED BY <2>3, Advance4 DEF Ret
<1>6. /\ Long(PopR16(ir))
      /\ Long(PushR16(ir))
  <2>1. /\ Goes(Pop(LSBs(ir), 1), 1)
        /\ Goes(Pop(MSBs(ir), 2), 2)
        /\ Goes(Move("SP", "DEC", "SP", 1), 1)
        /\ Goes(PushHigh(MSBs(ir), 2), 2)
        /\ Goes(PushLow(LSBs(ir), 3), 3)
    BY CycleGoes
  <2>2. /\ Turn(Pop(LSBs(ir), 1), 1, 3)
        /\ Turn(Pop(MSBs(ir), 2), 2, 3)
        /\ Turn(Fetch, 3, 3)
        /\ Turn(Move("SP", "DEC", "SP", 1), 1, 4)
        /\ Turn(PushHigh(MSBs(ir), 2), 2, 4)
        /\ Turn(PushLow(LSBs(ir), 3), 3, 4)
        /\ Turn(Fetch, 4, 4)
    BY <2>1 DEF Turn
  <2> QED BY <2>2, Advance3, Advance4 DEF PopR16, PushR16
<1>7. /\ Long(LdhImmA)
      /\ Long(LdhAImm)
      /\ Long(LdhCA)
      /\ Long(LdhAC)
      /\ Long(LdImmA)
      /\ Long(LdAImm)
  <2>1. /\ Goes(Imm("Z", 1), 1)
        /\ Goes(Store("FF:Z", "A", 2), 2)
        /\ Goes(Load("FF:Z", "A", 2), 2)
        /\ Goes(Store("FF:C", "A", 1), 1)
        /\ Goes(Load("FF:C", "A", 1), 1)
        /\ Goes(Imm("W", 2), 2)
        /\ Goes(Store("WZ", "A", 3), 3)
        /\ Goes(Load("WZ", "A", 3), 3)
    BY CycleGoes
  <2>2. /\ Turn(Imm("Z", 1), 1, 3)
        /\ Turn(Store("FF:Z", "A", 2), 2, 3)
        /\ Turn(Fetch, 3, 3)
        /\ Turn(Load("FF:Z", "A", 2), 2, 3)
        /\ Turn(Store("FF:C", "A", 1), 1, 2)
        /\ Turn(Fetch, 2, 2)
        /\ Turn(Load("FF:C", "A", 1), 1, 2)
        /\ Turn(Imm("Z", 1), 1, 4)
        /\ Turn(Imm("W", 2), 2, 4)
        /\ Turn(Store("WZ", "A", 3), 3, 4)
        /\ Turn(Fetch, 4, 4)
        /\ Turn(Load("WZ", "A", 3), 3, 4)
    BY <2>1 DEF Turn
  <2> QED BY <2>2, Advance2, Advance3, Advance4 DEF LdhImmA, LdhAImm, LdhCA, LdhAC, LdImmA, LdAImm
<1>8. /\ Long(AddSp)
      /\ Long(LdHlSp)
      /\ Long(LdSpHl)
  <2>1. /\ Goes(Imm("Z", 1), 1)
        /\ Goes(Move("SP", "ADJ", "SP", 3), 3)
        /\ Goes(Move("HL", "ZER", "SP", 1), 1)
    BY CycleGoes
  <2>2. /\ Goes([Inner(2) EXCEPT !.rd = "SPL"], 2)
        /\ Goes([Move("SP", "ADJ", "WZ", 2) EXCEPT !.rd = "L"], 2)
    BY VariantGoes
  <2>3. /\ Turn(Imm("Z", 1), 1, 4)
        /\ Turn([Inner(2) EXCEPT !.rd = "SPL"], 2, 4)
        /\ Turn(Move("SP", "ADJ", "SP", 3), 3, 4)
        /\ Turn(Fetch, 4, 4)
        /\ Turn(Imm("Z", 1), 1, 3)
        /\ Turn([Move("SP", "ADJ", "WZ", 2) EXCEPT !.rd = "L"], 2, 3)
        /\ Turn(FetchTo("H"), 3, 3)
        /\ Turn(Move("HL", "ZER", "SP", 1), 1, 2)
        /\ Turn(Fetch, 2, 2)
    BY <2>1, <2>2 DEF Turn
  <2> QED BY <2>3, Advance2, Advance3, Advance4 DEF AddSp, LdHlSp, LdSpHl
<1>9. Long(Rst)
  <2>1. /\ Goes(PushHigh("PCH", 2), 2)
        /\ Goes(PushLow("PCL", 3), 3)
    BY CycleGoes
  <2>2. Goes([Move("SP", "DEC", "SP", 1) EXCEPT !.rd = "Z"], 1)
    BY VariantGoes
  <2>3. /\ Turn([Move("SP", "DEC", "SP", 1) EXCEPT !.rd = "Z"], 1, 4)
        /\ Turn(PushHigh("PCH", 2), 2, 4)
        /\ Turn(PushLow("PCL", 3), 3, 4)
        /\ Turn(FetchAt("0:Z"), 4, 4)
    BY <2>1, <2>2 DEF Turn
  <2> QED BY <2>3, Advance4 DEF Rst
<1>10. Long(Prefixed(irp))
  <2>1. /\ Goes(Load("HL", "Z", 2), 2)
        /\ Goes(Store("HL", "Z", 3), 3)
    BY CycleGoes
  <2>2. Goes(Also(Move("PC", "INC", "PC", 1), {"fetch_prefix"}), 1)
    BY VariantGoes
  <2>3. /\ Turn(Also(Move("PC", "INC", "PC", 1), {"fetch_prefix"}), 1, 4)
        /\ Turn(IF Low(irp) = HlMem THEN Load("HL", "Z", 2)
                  ELSE FetchTo(IF Block(irp) = 1 THEN "CTR" ELSE Reg8(Low(irp))), 2, 4)
        /\ Turn(IF Block(irp) = 1 THEN Fetch ELSE Store("HL", "Z", 3), 3, 4)
        /\ Turn(Fetch, 4, 4)
    BY <2>1, <2>2 DEF Turn
  <2> QED BY <2>3, Advance4 DEF Prefixed
<1>11. /\ Advances(JpHl, 1)
       /\ Advances(Di, 1)
       /\ Advances(Ei, 1)
  <2>1. /\ Turn(FetchAt("HL"), 1, 1)
        /\ Turn(Also(Fetch, {"unset_IME"}), 1, 1)
        /\ Turn(Also(Fetch, {"set_IME"}), 1, 1)
    BY VariantEnds DEF Turn
  <2> QED BY <2>1, Advance1 DEF JpHl, Di, Ei
<1>12. Long(ArithImm(ir))
  BY Block2Advances
<1>13. Mid(ir) \in 0..7 /\ Low(ir) \in 0..7
  BY Fields
<1>14. ir = 192 + 8 * Mid(ir) + Low(ir)
  BY DEF Opcode, Block, Mid, Low
<1>15. ASSUME ~Conditional(ir)
       PROVE  IF ir \in Single THEN Advances(Block3(ir, irp), 1) ELSE Long(Block3(ir, irp))
  <2>1. ir \in Single <=> \/ Low(ir) = 1 /\ Mid(ir) = 5
                          \/ Low(ir) = 3 /\ Mid(ir) \in {6, 7}
    BY <1>13, <1>14 DEF Single, DiOp
  <2>2. CASE Low(ir) = 0
    <3>1. Mid(ir) \in 4..7
      BY <1>13, <1>15, <2>2 DEF Conditional
    <3> QED BY <1>7, <1>8, <2>1, <2>2, <3>1 DEF Block3
  <2>3. CASE Low(ir) = 1
    BY <1>5, <1>6, <1>8, <1>11, <1>13, <2>1, <2>3 DEF Block3
  <2>4. CASE Low(ir) = 2
    <3>1. Mid(ir) \in 4..7
      BY <1>13, <1>15, <2>4 DEF Conditional
    <3> QED BY <1>7, <2>1, <2>4, <3>1 DEF Block3
  <2>5. CASE Low(ir) = 3
    <3>1. Mid(ir) \in {0, 1, 6, 7}
      BY <1>13, <1>14, <2>5 DEF Illegal
    <3> QED BY <1>2, <1>10, <1>11, <2>1, <2>5, <3>1 DEF Block3
  <2>6. Low(ir) # 4
    BY <1>13, <1>14, <1>15 DEF Illegal, Conditional
  <2>7. CASE Low(ir) = 5
    <3>1. Mid(ir) = 1 \/ Mid(ir) % 2 = 0
      BY <1>13, <1>14, <2>7 DEF Illegal
    <3> QED BY <1>3, <1>6, <2>1, <2>7, <3>1 DEF Block3
  <2>8. CASE Low(ir) = 6
    BY <1>12, <2>1, <2>8 DEF Block3
  <2>9. CASE Low(ir) = 7
    BY <1>9, <2>1, <2>9 DEF Block3
  <2> QED BY <1>13, <2>2, <2>3, <2>4, <2>5, <2>6, <2>7, <2>8, <2>9
<1> QED BY <1>4, <1>15

(* The machine cycles of an instruction, by number. *)
Places(ir) == DOMAIN Cycles(ir, 0, FALSE, FALSE, FALSE)

(* A condition, a pending request or the prefixed opcode never changes how many machine
   cycles an instruction has. *)
LEMMA PlacesFixed ==
  ASSUME NEW ir \in Opcode, NEW irp \in Opcode,
         NEW cc \in BOOLEAN, NEW key1 \in BOOLEAN, NEW pending \in BOOLEAN
  PROVE  DOMAIN Cycles(ir, irp, cc, key1, pending) = Places(ir)
<1>1. DOMAIN Cycles(ir, irp, cc, key1, pending) = DOMAIN Cycles(ir, irp, FALSE, FALSE, FALSE)
  <2>1. SameWrites(Cycles(ir, irp, cc, key1, pending), Cycles(ir, irp, FALSE, FALSE, FALSE))
    BY CyclesFixed
  <2> QED BY <2>1 DEF SameWrites
<1>2. DOMAIN Prefixed(irp) = {1, 2, 3, 4} /\ DOMAIN Prefixed(0) = {1, 2, 3, 4}
  BY DEF Prefixed
<1>3. DOMAIN Block3(ir, irp) = DOMAIN Block3(ir, 0)
  <2>1. CASE Low(ir) = 3 /\ Mid(ir) = 1
    <3>1. Block3(ir, irp) = Prefixed(irp) /\ Block3(ir, 0) = Prefixed(0)
      BY <2>1 DEF Block3
    <3> QED BY <1>2, <3>1
  <2>2. CASE ~(Low(ir) = 3 /\ Mid(ir) = 1)
    <3>1. Block3(ir, irp) = Block3(ir, 0)
      BY <2>2 DEF Block3
    <3> QED BY <3>1
  <2> QED BY <2>1, <2>2
<1>4. CASE Block(ir) = 3 /\ ~Conditional(ir)
  <2>1. /\ Cycles(ir, irp, FALSE, FALSE, FALSE) = Block3(ir, irp)
        /\ Cycles(ir, 0, FALSE, FALSE, FALSE) = Block3(ir, 0)
    BY <1>4 DEF Cycles
  <2> QED BY <1>1, <1>3, <2>1 DEF Places
<1>5. CASE ~(Block(ir) = 3 /\ ~Conditional(ir))
  <2>1. Block(ir) = 0 \/ Block(ir) = 1 \/ Block(ir) = 2 \/ (Block(ir) = 3 /\ Conditional(ir))
    BY <1>5, Fields
  <2>2. Cycles(ir, irp, FALSE, FALSE, FALSE) = Cycles(ir, 0, FALSE, FALSE, FALSE)
    <3>1. CASE Block(ir) = 0
      BY <3>1 DEF Cycles
    <3>2. CASE Block(ir) = 1
      BY <3>2 DEF Cycles
    <3>3. CASE Block(ir) = 2
      BY <3>3 DEF Cycles
    <3>4. CASE Block(ir) = 3 /\ Conditional(ir)
      BY <3>4 DEF Cycles
    <3> QED BY <2>1, <3>1, <3>2, <3>3, <3>4
  <2> QED BY <1>1, <2>2 DEF Places
<1> QED BY <1>4, <1>5

(* Every opcode with a pattern but those of block 01 advances. *)
LEMMA CyclesAdvance ==
  ASSUME NEW ir \in Opcode, ir \notin Illegal, Block(ir) # 1, NEW irp \in Opcode,
         NEW cc \in BOOLEAN, NEW key1 \in BOOLEAN, NEW pending \in BOOLEAN
  PROVE  IF ir \in Single THEN Advances(Cycles(ir, irp, cc, key1, pending), 1)
                          ELSE Long(Cycles(ir, irp, cc, key1, pending))
<1>1. Block(ir) \in 0..3
  BY Fields
<1>2. CASE Block(ir) = 0
  <2>1. Cycles(ir, irp, cc, key1, pending) = Block0(ir, cc, key1)
    BY <1>2 DEF Cycles
  <2>2. ir \in Single <=> ir = 16
    BY <1>2 DEF Single, DiOp, Block
  <2> QED BY <1>2, <2>1, <2>2, Block0Advances
<1>3. CASE Block(ir) = 2
  <2>1. Cycles(ir, irp, cc, key1, pending) = ArithR8(ir)
    BY <1>3 DEF Cycles
  <2>2. ir \notin Single
    BY <1>3 DEF Single, DiOp, Block
  <2> QED BY <2>1, <2>2, Block2Advances
<1>4. CASE Block(ir) = 3 /\ Conditional(ir)
  <2>1. Cycles(ir, irp, cc, key1, pending) = Branch(ir, cc)
    BY <1>4 DEF Cycles
  <2>2. ir \notin Single
    <3>1. Low(233) = 1 /\ Low(243) = 3 /\ Low(251) = 3 /\ Low(16) = 0 /\ Block(16) = 0
      BY DEF Low, Block
    <3> QED BY <1>4, <3>1 DEF Single, DiOp, Conditional
  <2> QED BY <1>4, <2>1, <2>2, Block3Advances
<1>5. CASE Block(ir) = 3 /\ ~Conditional(ir)
  <2>1. Cycles(ir, irp, cc, key1, pending) = Block3(ir, irp)
    BY <1>5 DEF Cycles
  <2> QED BY <1>5, <2>1, Block3Advances
<1>6. Block(ir) = 0 \/ Block(ir) = 2 \/ Block(ir) = 3
  BY <1>1
<1> QED BY <1>2, <1>3, <1>4, <1>5, <1>6

(* The table as the state of the control unit sees it: there is an entry for S0, and for
   S1 unless the instruction is a single cycle; an entry that is no boundary leads to
   a later one, and a boundary back to S0, or keeps block 01 in its sleep. *)
LEMMA InstructionTurns ==
  ASSUME NEW ir \in Opcode, ir \notin Illegal, NEW irp \in Opcode, NEW st \in State,
         NEW cc \in BOOLEAN, NEW key1 \in BOOLEAN, NEW pending \in BOOLEAN
  PROVE  LET ins == Instruction(ir, irp, st, cc, key1, pending)
         IN  /\ 1 \in Places(ir)
             /\ ir \in Single => Places(ir) = {1}
             /\ ir \notin Single => 2 \in Places(ir)
             /\ st + 1 \notin Places(ir) => ins = Idle
             /\ st + 1 \in Places(ir) =>
                  IF AtBoundary(ins) THEN ins.next = 0 \/ (ins.next = 1 /\ ~pending)
                                     ELSE ins.next > st /\ ins.next + 1 \in Places(ir)
<1> DEFINE c == Cycles(ir, irp, cc, key1, pending)
           ins == Instruction(ir, irp, st, cc, key1, pending)
<1>1. DOMAIN c = Places(ir)
  BY PlacesFixed
<1>2. ins = IF st + 1 \in Places(ir) THEN c[st + 1] ELSE Idle
  BY <1>1 DEF Instruction
<1>3. CASE Block(ir) = 1
  <2>1. c = LdR8R8(ir, pending)
    BY <1>3 DEF Cycles
  <2>2. DOMAIN c = {1, 2, 3} /\ ir \notin Single
    BY <1>3, <2>1 DEF LdR8R8, Single, DiOp, Block
  <2>3. CASE st = 0
    <3>1. ins \in {Inner(1), Store("HL", Reg8(Low(ir)), 2), Load("HL", Reg8(Mid(ir)), 2), FetchTo(Reg8(Mid(ir)))}
      BY <1>1, <1>2, <2>1, <2>2, <2>3 DEF LdR8R8
    <3>2. Goes(ins, 1) \/ Goes(ins, 2) \/ Ends(ins)
      BY <3>1, CycleGoes, FetchEnds, Names
    <3> QED BY <1>1, <2>2, <2>3, <3>2 DEF Goes, Ends
  <2>4. CASE st = 1
    <3>1. ins = IF pending THEN Also(Idle, {"halt", "fetch"}) ELSE Also(Inner(1), {"halt"})
      BY <1>1, <1>2, <2>1, <2>2, <2>4 DEF LdR8R8
    <3>2. AtBoundary(ins) /\ ins.next = IF pending THEN 0 ELSE 1
      BY <3>1 DEF AtBoundary, Also, Inner, Idle
    <3> QED BY <1>1, <2>2, <2>4, <3>2
  <2>5. CASE st = 2
    <3>1. ins = Fetch
      BY <1>1, <1>2, <2>1, <2>2, <2>5 DEF LdR8R8
    <3> QED BY <1>1, <2>2, <2>5, <3>1, FetchEnds DEF Ends
  <2>6. CASE st > 2
    <3>1. st + 1 \notin Places(ir)
      BY <1>1, <2>2, <2>6 DEF State
    <3> QED BY <1>1, <1>2, <2>2, <3>1
  <2> QED BY <2>3, <2>4, <2>5, <2>6 DEF State
<1>4. CASE Block(ir) # 1
  <2>1. PICK len \in 1..6 : Advances(c, len) /\ (ir \in Single <=> len = 1)
    BY <1>4, CyclesAdvance DEF Long
  <2>2. Places(ir) = 1..len
    BY <1>1, <2>1 DEF Advances
  <2>3. \A i \in 1..len : Turn(c[i], i, len)
    BY <2>1 DEF Advances
  <2> HIDE DEF c, ins
  <2>7. ASSUME st + 1 \in Places(ir)
        PROVE  IF AtBoundary(ins) THEN ins.next = 0
                                  ELSE ins.next > st /\ ins.next + 1 \in Places(ir)
    <3>1. Turn(ins, st + 1, len)
      BY <1>2, <2>2, <2>3, <2>7
    <3>2. st \in Nat
      BY DEF State
    <3> QED BY <2>2, <3>1, <3>2 DEF Turn, Ends, Goes
  <2> QED BY <1>2, <2>1, <2>2, <2>7 DEF ins
<1> QED BY <1>3, <1>4

(* Only block 01 asks for sleep, in S1, only stop asks to stop, in S0, and neither
   writes there. *)
LEMMA Sleeps ==
  ASSUME NEW ir \in Opcode, NEW irp \in Opcode, NEW st \in State,
         NEW cc \in BOOLEAN, NEW key1 \in BOOLEAN, NEW pending \in BOOLEAN
  PROVE  /\ "halt" \in Instruction(ir, irp, st, cc, key1, pending).on <=> (Block(ir) = 1 /\ st = 1)
         /\ "stop" \in Instruction(ir, irp, st, cc, key1, pending).on <=> (ir = 16 /\ st = 0)
         /\ Sleeping(ir, st) => "write" \notin Instruction(ir, irp, st, cc, key1, pending).on
<1> DEFINE ins == Instruction(ir, irp, st, cc, key1, pending)
<1>1. Tame(ins, ir, st)
  BY CyclesTame
<1>2. ir = 16 => Block(ir) = 0
  BY DEF Block
<1>3. CASE ir = 16
  <2>1. Cycles(ir, irp, cc, key1, pending) = Stop(key1)
    BY <1>3 DEF Cycles, Block0, Block, Low, Mid
  <2>2. ins = IF st = 0 THEN Also(IF key1 THEN Fetch ELSE Idle, {"stop"}) ELSE Idle
    BY <2>1 DEF Instruction, Stop, State
  <2> QED BY <1>2, <1>3, <2>2 DEF Also, Fetch, Idle
<1>4. CASE Block(ir) = 1 /\ st = 1
  <2>1. Cycles(ir, irp, cc, key1, pending) = LdR8R8(ir, pending)
    BY <1>4 DEF Cycles
  <2>2. ins = IF pending THEN Also(Idle, {"halt", "fetch"}) ELSE Also(Inner(1), {"halt"})
    BY <1>4, <2>1 DEF Instruction, LdR8R8
  <2>3. ins.on = {"halt", "fetch"} \/ ins.on = {"halt"}
    BY <2>2 DEF Also, Inner, Idle
  <2> HIDE DEF ins
  <2>4. "halt" \in ins.on /\ "stop" \notin ins.on /\ "write" \notin ins.on
    BY <2>3
  <2> QED BY <1>2, <1>4, <2>4 DEF ins
<1>5. CASE ~Sleeping(ir, st)
  BY <1>1, <1>5 DEF Tame, Sleeping
<1> QED BY <1>3, <1>4, <1>5 DEF Sleeping

(* The first of these, from left to right. *)
LEMMA SleepsOnly ==
  ASSUME NEW ir \in Opcode, NEW irp \in Opcode, NEW st \in State,
         NEW cc \in BOOLEAN, NEW key1 \in BOOLEAN, NEW pending \in BOOLEAN,
         "halt" \in Instruction(ir, irp, st, cc, key1, pending).on
  PROVE  Block(ir) = 1 /\ st = 1
BY Sleeps

(* The cycle of di that is a boundary clears IME. *)
LEMMA DiClears ==
  ASSUME NEW irp \in Opcode, NEW st \in State,
         NEW cc \in BOOLEAN, NEW key1 \in BOOLEAN, NEW pending \in BOOLEAN
  PROVE  LET ins == Instruction(DiOp, irp, st, cc, key1, pending)
         IN  AtBoundary(ins) => "unset_IME" \in ins.on
<1>1. Block(DiOp) = 3 /\ Low(DiOp) = 3 /\ Mid(DiOp) = 6 /\ ~Conditional(DiOp)
  BY DEF DiOp, Block, Low, Mid, Conditional
<1>2. Block3(DiOp, irp) = Di
  BY <1>1 DEF Block3
<1>3. Cycles(DiOp, irp, cc, key1, pending) = Di
  BY <1>1, <1>2 DEF Cycles
<1>4. Instruction(DiOp, irp, st, cc, key1, pending)
        = IF st = 0 THEN Also(Fetch, {"unset_IME"}) ELSE Idle
  BY <1>3 DEF Instruction, Di, State
<1> QED BY <1>4 DEF AtBoundary, Also, Fetch, Idle

(***************************************************************************)
(* The core.                                                               *)
(***************************************************************************)

(* The priority encoder picks the least of the requests. *)
LEMMA Least ==
  ASSUME NEW p \in SUBSET Irq, p # {}
  PROVE  NextInterrupt(p) \in p /\ \A j \in p : NextInterrupt(p) <= j
<1>1. \E i \in p : \A j \in p : i <= j
  <2>1. CASE 0 \in p BY <2>1, ControlAssumption DEF Irq
  <2>2. CASE 1 \in p /\ 0 \notin p BY <2>2, ControlAssumption DEF Irq
  <2>3. CASE 2 \in p /\ 1 \notin p /\ 0 \notin p BY <2>3, ControlAssumption DEF Irq
  <2>4. CASE 3 \in p /\ 2 \notin p /\ 1 \notin p /\ 0 \notin p BY <2>4, ControlAssumption DEF Irq
  <2>5. CASE 4 \in p /\ 3 \notin p /\ 2 \notin p /\ 1 \notin p /\ 0 \notin p BY <2>5, ControlAssumption DEF Irq
  <2>6. PICK k \in p : TRUE
    OBVIOUS
  <2>7. k \in {0, 1, 2, 3, 4}
    BY ControlAssumption DEF Irq
  <2> QED BY <2>1, <2>2, <2>3, <2>4, <2>5, <2>7
<1> QED BY <1>1 DEF NextInterrupt

(* A cycle of the service sequence but the last keeps the sequence going. *)
LEMMA BusyCycle ==
  ASSUME NEW s \in Signals, NEW n \in State
  PROVE  /\ Busy(s, n) \in Signals
         /\ Busy(s, n).on = s.on \cup {"service"}
         /\ Busy(s, n).inext = n
         /\ Busy(s, n).next = s.next
         /\ Busy(s, n).rd = s.rd
BY DEF Busy, Also, Signals, Line

(* The six cycles of the service sequence. *)
LEMMA ServeCycles ==
  ASSUME NEW st \in State
  PROVE  /\ Serve(st) \in Signals
         /\ Serve(st).inext = IF st = 5 THEN 0 ELSE st + 1
         /\ Serve(st).next = 0
         /\ st = 5 => Serve(st).on = {"fetch", "ack_IF", "unset_IME"}
         /\ st # 5 => /\ "service" \in Serve(st).on
                      /\ Serve(st).on \subseteq {"service", "write"}
         /\ Serve(st).rd = "PCL" <=> st = 3
<1> USE Names
<1>0. /\ Move("SP", "DEC", "SP", 0) \in Signals
      /\ PushHigh("PCH", 0) \in Signals
      /\ PushLow("PCL", 0) \in Signals
      /\ Fetch \in Signals
      /\ Idle \in Signals
  BY MovePlain, StorePlain, FetchPlain, IdlePlain DEF Plain
<1>i. /\ Idle.on = {} /\ Fetch.on = {"fetch"} /\ Fetch.rd = "CTR" /\ Fetch.inext = 0
      /\ Idle.next = 0 /\ Fetch.next = 0
      /\ Move("SP", "DEC", "SP", 0).on = {} /\ Move("SP", "DEC", "SP", 0).rd = "CTR"
      /\ Move("SP", "DEC", "SP", 0).next = 0
  BY DEF Idle, Fetch, Move
<1>j. /\ PushHigh("PCH", 0).on = {"write"} /\ PushHigh("PCH", 0).rd = "CTR"
      /\ PushLow("PCL", 0).on = {"write"} /\ PushLow("PCL", 0).rd = "CTR"
      /\ PushHigh("PCH", 0).next = 0 /\ PushLow("PCL", 0).next = 0
  BY DEF Idle, PushHigh, PushLow, Store
<1>1. CASE st = 0
  <2>1. Serve(st) = Busy(Move("SP", "DEC", "SP", 0), 1)
    BY <1>1 DEF Serve
  <2>2. /\ Busy(Move("SP", "DEC", "SP", 0), 1) \in Signals
        /\ Busy(Move("SP", "DEC", "SP", 0), 1).on = Move("SP", "DEC", "SP", 0).on \cup {"service"}
        /\ Busy(Move("SP", "DEC", "SP", 0), 1).inext = 1
        /\ Busy(Move("SP", "DEC", "SP", 0), 1).next = Move("SP", "DEC", "SP", 0).next
        /\ Busy(Move("SP", "DEC", "SP", 0), 1).rd = Move("SP", "DEC", "SP", 0).rd
    BY <1>0, BusyCycle
  <2> QED BY <1>1, <2>1, <2>2, <1>i
<1>2. CASE st = 1
  <2>1. Serve(st) = Busy(PushHigh("PCH", 0), 2)
    BY <1>2 DEF Serve
  <2>2. /\ Busy(PushHigh("PCH", 0), 2) \in Signals
        /\ Busy(PushHigh("PCH", 0), 2).on = PushHigh("PCH", 0).on \cup {"service"}
        /\ Busy(PushHigh("PCH", 0), 2).inext = 2
        /\ Busy(PushHigh("PCH", 0), 2).next = PushHigh("PCH", 0).next
        /\ Busy(PushHigh("PCH", 0), 2).rd = PushHigh("PCH", 0).rd
    BY <1>0, BusyCycle
  <2> QED BY <1>2, <2>1, <2>2, <1>j
<1>3. CASE st = 2
  <2>1. Serve(st) = Busy(PushLow("PCL", 0), 3)
    BY <1>3 DEF Serve
  <2>2. /\ Busy(PushLow("PCL", 0), 3) \in Signals
        /\ Busy(PushLow("PCL", 0), 3).on = PushLow("PCL", 0).on \cup {"service"}
        /\ Busy(PushLow("PCL", 0), 3).inext = 3
        /\ Busy(PushLow("PCL", 0), 3).next = PushLow("PCL", 0).next
        /\ Busy(PushLow("PCL", 0), 3).rd = PushLow("PCL", 0).rd
    BY <1>0, BusyCycle
  <2> QED BY <1>3, <2>1, <2>2, <1>j
<1>4. CASE st = 3
  <2> DEFINE s == [Idle EXCEPT !.rd = "PCL"]
  <2>0. s \in Signals /\ s.on = {} /\ s.next = 0 /\ s.rd = "PCL"
    BY <1>0, <1>i DEF Signals
  <2> HIDE DEF s
  <2>1. Serve(st) = Busy(s, 4)
    BY <1>4 DEF Serve, s
  <2>2. /\ Busy(s, 4) \in Signals
        /\ Busy(s, 4).on = s.on \cup {"service"}
        /\ Busy(s, 4).inext = 4
        /\ Busy(s, 4).next = s.next
        /\ Busy(s, 4).rd = s.rd
    BY <2>0, BusyCycle
  <2> QED BY <1>4, <2>1, <2>2, <2>0
<1>5. CASE st = 4
  <2> DEFINE s == [Idle EXCEPT !.rd = "PCH"]
  <2>0. s \in Signals /\ s.on = {} /\ s.next = 0 /\ s.rd = "PCH"
    BY <1>0, <1>i DEF Signals
  <2> HIDE DEF s
  <2>1. Serve(st) = Busy(s, 5)
    BY <1>5 DEF Serve, s
  <2>2. /\ Busy(s, 5) \in Signals
        /\ Busy(s, 5).on = s.on \cup {"service"}
        /\ Busy(s, 5).inext = 5
        /\ Busy(s, 5).next = s.next
        /\ Busy(s, 5).rd = s.rd
    BY <2>0, BusyCycle
  <2> QED BY <1>5, <2>1, <2>2, <2>0
<1>6. CASE st = 5
  <2> DEFINE s == Also(Fetch, {"ack_IF", "unset_IME"})
  <2>1. Serve(st) = s BY <1>6 DEF Serve
  <2>2. /\ s \in Signals /\ s.on = {"fetch", "ack_IF", "unset_IME"}
        /\ s.rd = "CTR" /\ s.inext = 0 /\ s.next = 0
    BY <1>0, <1>i DEF Signals, Also, Line
  <2> HIDE DEF s
  <2> QED BY <1>6, <2>1, <2>2
<1>7. st = 0 \/ st = 1 \/ st = 2 \/ st = 3 \/ st = 4 \/ st = 5
  BY DEF State
<1> QED BY <1>1, <1>2, <1>3, <1>4, <1>5, <1>6, <1>7

(* What arbitration makes of the signals s of an instruction. *)
Settled(a, s, ir, ime, pending) ==
  /\ a \in Signals
  /\ a.inext = 0
  /\ a.rd # "PCL"
  /\ "ack_IF" \notin a.on
  /\ "unset_IME" \in a.on => ir = DiOp
  /\ "service" \in a.on => ime /\ pending /\ ir # DiOp /\ "write" \notin s.on
  /\ a.on \cap {"halt", "stop"} \subseteq s.on
  /\ "write" \in s.on => a = s

(* Arbitration only adds service or fetch, and only at a boundary. *)
LEMMA Arbitrated ==
  ASSUME NEW s, NEW ir \in Opcode, NEW st \in State, Tame(s, ir, st),
         NEW ime \in BOOLEAN, NEW pending \in BOOLEAN, NEW w \in BOOLEAN
  PROVE  Settled(Arbitrate(s, ir, ime, pending, w), s, ir, ime, pending)
<1>1. Tame(s, ir, st) => s \in Signals
  BY DEF Tame
<1>2. CASE ~AtBoundary(s)
  BY <1>2 DEF Arbitrate, Tame, Settled
<1>3. CASE AtBoundary(s)
  <2>1. "write" \notin s.on
    BY <1>3 DEF AtBoundary, Tame
  <2>2. CASE ime /\ pending /\ ir # DiOp
    <3>1. Arbitrate(s, ir, ime, pending, w) = Serving(s)
      BY <1>3, <2>2 DEF Arbitrate
    <3>2. /\ Serving(s) \in Signals /\ Serving(s).inext = s.inext /\ Serving(s).rd = s.rd
          /\ Serving(s).on = s.on \cup {"service"}
      BY <1>1 DEF Serving, Also, Signals, Line
    <3>3. "write" \notin s.on /\ ime /\ pending /\ ir # DiOp
      BY <2>1, <2>2
    <3>4. s.inext = 0 /\ s.rd # "PCL" /\ "ack_IF" \notin s.on /\ "unset_IME" \notin s.on
      BY <2>2 DEF Tame
    <3> QED BY <3>1, <3>2, <3>3, <3>4 DEF Settled
  <2>3. CASE ~(ime /\ pending /\ ir # DiOp) /\ w
    <3>1. Arbitrate(s, ir, ime, pending, w) = Waking(s)
      BY <1>3, <2>3 DEF Arbitrate
    <3>2. /\ Waking(s) \in Signals /\ Waking(s).inext = s.inext /\ Waking(s).rd = s.rd
          /\ Waking(s).on = s.on \cup {"fetch"}
      BY <1>1, Names DEF Waking, Also, Signals, Line
    <3> QED BY <2>1, <3>1, <3>2 DEF Tame, Settled
  <2>4. CASE ~(ime /\ pending /\ ir # DiOp) /\ ~w
    <3>1. Arbitrate(s, ir, ime, pending, w) = s
      BY <1>3, <2>4 DEF Arbitrate
    <3> QED BY <3>1 DEF Tame, Settled
  <2> QED BY <2>2, <2>3, <2>4
<1> QED BY <1>2, <1>3

(* What the outputs of the control unit may be in any state of the core. *)
LEMMA SigCycle ==
  ASSUME TypeOK, NEW cc \in BOOLEAN
  PROVE  /\ Sig(cc) \in Signals
         /\ service => Sig(cc) = Serve(intr_state)
         /\ ~service => /\ Sig(cc).inext = 0
                        /\ Sig(cc).rd # "PCL"
                        /\ "ack_IF" \notin Sig(cc).on
                        /\ "unset_IME" \in Sig(cc).on => IR = DiOp
                        /\ "service" \in Sig(cc).on => IME /\ Pending # {} /\ IR # DiOp /\ ~Writing
                        /\ Sig(cc).on \cap {"halt", "stop"} # {} => Sleeping(IR, state)
                        /\ Writing => Sig(cc).on \subseteq {"write"} /\ ~Sleeping(IR, Sig(cc).next)
<1> DEFINE ins == Instruction(IR, IR_prefix, state, cc, armed, Pending # {})
<1>1. /\ IR \in Opcode /\ IR_prefix \in Opcode /\ state \in State /\ armed \in BOOLEAN
      /\ intr_state \in State /\ IME \in BOOLEAN /\ wake \in BOOLEAN /\ (Pending # {}) \in BOOLEAN
  BY DEF TypeOK, ControlTypeOK
<1>2. CASE service
  <2>1. Sig(cc) = Serve(intr_state)
    BY <1>2 DEF Sig, Outputs
  <2> QED BY <1>1, <1>2, <2>1, ServeCycles
<1>3. CASE ~service
  <2>1. Sig(cc) = Arbitrate(ins, IR, IME, Pending # {}, wake)
    BY <1>3 DEF Sig, Outputs
  <2>2. Tame(ins, IR, state)
    BY <1>1, CyclesTame
  <2>3. Writing <=> "write" \in ins.on
    <3>1. "write" \in ins.on <=> "write" \in Instruction(IR, IR_prefix, state, FALSE, FALSE, FALSE).on
      BY <1>1, WritesFixed
    <3> QED BY <1>3, <3>1 DEF Writing
  <2> HIDE DEF ins
  <2>4. Settled(Sig(cc), ins, IR, IME, Pending # {})
    BY <1>1, <2>1, <2>2, Arbitrated
  <2>5. ins.on \cap {"halt", "stop"} # {} => Sleeping(IR, state)
    BY <2>2 DEF Tame
  <2>6. "write" \in ins.on => ins.on \subseteq {"write"} /\ ~Sleeping(IR, ins.next)
    BY <2>2 DEF Tame
  <2> HIDE DEF ins
  <2> QED BY <1>3, <2>3, <2>4, <2>5, <2>6 DEF Settled
<1> QED BY <1>2, <1>3

(* A write carries a well-formed byte to the register it is for. *)
LEMMA WriteTyped ==
  ASSUME NEW r \in Registers, NEW b \in WritesTo[r]
  PROVE  b \in WriteCycle /\ b.to = r
BY DEF WritesTo

(* So does the bus after a commit; a push of the service sequence goes to the stack. *)
LEMMA BusTyped ==
  ASSUME NextBus
  PROVE  bus' \in WriteCycle /\ (service' => bus'.to \in StackTargets \cup {"none"})
<1>1. NoWrite \in WriteCycle /\ NoWrite.to = "none"
  BY CoreAssumption DEF NoWrite, WriteCycle, Registers
<1>2. CASE Writing'
  <2>1. PICK r \in IF service' THEN StackTargets ELSE Targets : bus' \in WritesTo[r]
    BY <1>2 DEF NextBus
  <2>2. r \in Registers
    BY <2>1, CoreAssumption
  <2> QED BY <2>1, <2>2, WriteTyped
<1>3. CASE ~Writing'
  BY <1>1, <1>3 DEF NextBus
<1> QED BY <1>2, <1>3

(* A remainder is below its modulus. *)
LEMMA Mod ==
  ASSUME NEW a \in Int, NEW b \in Nat \ {0}
  PROVE  a % b \in 0..(b - 1)
OBVIOUS

(* The reset state is well-typed. *)
LEMMA InitTyped == Init => TypeOK
<1> SUFFICES ASSUME Init PROVE TypeOK
  OBVIOUS
<1>1. NoWrite \in WriteCycle
  BY CoreAssumption DEF NoWrite, WriteCycle, Registers
<1>2. 0 \in Opcode /\ 0 \in State
  BY DEF Opcode, State
<1>3. ControlTypeOK
  BY <1>2 DEF Init, ControlInit, ControlTypeOK
<1>4. 0 \in 0..(BlockLen - 1) /\ Blocks - 1 \in 0..(Blocks - 1)
  BY CoreAssumption
<1>5. phase \in 0..3 /\ remaining \in 0..(Blocks - 1) /\ count \in 0..(BlockLen - 1)
  BY <1>4 DEF Init
<1>6. IE_reg \in SUBSET Irq /\ IF_reg \in SUBSET Irq /\ intr_req \in SUBSET Irq
  BY DEF Init
<1>7. speed \in BOOLEAN /\ armed \in BOOLEAN /\ wake \in BOOLEAN /\ active \in BOOLEAN
  BY DEF Init
<1>8. mode \in {"general", "hblank"} /\ hstate \in {"WAIT", "RECV", "SEND"} /\ bus \in WriteCycle
  BY <1>1 DEF Init
<1> QED BY <1>3, <1>5, <1>6, <1>7, <1>8 DEF TypeOK

(* Sampling the request lines keeps their types, *)
LEMMA SampleTyped ==
  ASSUME TypeOK, NEW req \in SUBSET Irq, Sample(req)
  PROVE  phase' \in 0..3 /\ intr_req' \in SUBSET Irq /\ wake' \in BOOLEAN
BY DEF TypeOK, Sample

(* and so does latching them. *)
LEMMA LatchedTyped ==
  ASSUME TypeOK, NEW req \in SUBSET Irq
  PROVE  Latched(req) \in SUBSET Irq
BY DEF TypeOK, Latched

(* The registers of the core keep their types, written or held. *)
LEMMA WritesTyped ==
  ASSUME TypeOK, NEW req \in SUBSET Irq, RegisterWrites(req) \/ RegisterHold(req)
  PROVE  /\ IF_reg' \in SUBSET Irq /\ IE_reg' \in SUBSET Irq
         /\ speed' \in BOOLEAN /\ armed' \in BOOLEAN
<1>1. bus.irqs \in SUBSET Irq /\ bus.bit7 \in BOOLEAN
  BY DEF TypeOK, WriteCycle
<1>2. IF_reg' \in SUBSET Irq /\ IE_reg' \in SUBSET Irq
  BY <1>1, LatchedTyped DEF RegisterWrites, RegisterHold, TypeOK
<1>3. speed' \in BOOLEAN /\ armed' \in BOOLEAN
  BY <1>1 DEF RegisterWrites, RegisterHold, TypeOK
<1> QED BY <1>2, <1>3

(* So do those of the HDMA engine when HDMA5 is written, *)
LEMMA CommandTyped ==
  ASSUME TypeOK, NEW lcd0 \in BOOLEAN, HdmaCommand(lcd0)
  PROVE  /\ active' \in BOOLEAN /\ remaining' \in 0..(Blocks - 1)
         /\ mode' \in {"general", "hblank"} /\ hstate' \in {"WAIT", "RECV", "SEND"}
         /\ count' \in 0..(BlockLen - 1)
<1>1. HdmaIdle(lcd0) \in {"WAIT", "RECV", "SEND"}
  BY DEF HdmaIdle, TypeOK
<1>2. Wr("HDMA5") => bus.low \in 0..(Blocks - 1)
  BY CoreAssumption DEF Wr, TypeOK, WriteCycle
<1>3. 0 \in 0..(BlockLen - 1)
  BY CoreAssumption
<1>4. CASE Wr("HDMA5") /\ active
  BY <1>1, <1>4 DEF HdmaCommand, TypeOK
<1>5. CASE Wr("HDMA5") /\ ~active
  BY <1>2, <1>3, <1>5 DEF HdmaCommand
<1>6. CASE ~Wr("HDMA5")
  BY <1>1, <1>6 DEF HdmaCommand, TypeOK
<1> QED BY <1>4, <1>5, <1>6

(* and those of the control unit at its clock edge. *)
LEMMA ClockTyped ==
  ASSUME TypeOK, NEW cc \in BOOLEAN, ControlClock(Sig(cc), Pending)
  PROVE  ControlTypeOK'
<1>1. Sig(cc).next \in State /\ Sig(cc).inext \in State
  BY SigCycle DEF Signals
<1>2. Pending \in SUBSET Irq
  BY DEF Pending, TypeOK
<1>3. NextInterrupt(Pending) \in Irq \cup {NoIrq}
  BY <1>2, Least DEF NextInterrupt
<1>4. IR' \in Opcode /\ IR_prefix' \in Opcode
  BY ControlAssumption DEF ControlClock, TypeOK, ControlTypeOK
<1>5. service' \in BOOLEAN /\ IME' \in BOOLEAN
  BY DEF ControlClock
<1>6. ack' \in SUBSET (Irq \cup {NoIrq}) /\ vec' \in Irq \cup {NoIrq}
  BY <1>3 DEF ControlClock, TypeOK, ControlTypeOK
<1>7. state' \in State /\ intr_state' \in State
  BY <1>1 DEF ControlClock
<1> QED BY <1>4, <1>5, <1>6, <1>7 DEF ControlTypeOK

(* Every dot keeps every register well-typed. *)
LEMMA StepTyped == TypeOK /\ [Next]_vars => TypeOK'
<1> SUFFICES ASSUME TypeOK, [Next]_vars PROVE TypeOK'
  OBVIOUS
<1>1. CASE UNCHANGED vars
  BY <1>1 DEF TypeOK, ControlTypeOK, vars, controlVars, clockVars, hdmaVars
<1>2. CASE Next
  <2>1. PICK req \in SUBSET Irq, lcd0 \in BOOLEAN :
          \/ \E cc \in BOOLEAN : Commit(req, lcd0, cc)
          \/ Hold(req, lcd0) \/ HdmaRead(req, lcd0) \/ HdmaWrite(req, lcd0)
    BY <1>2 DEF Next, Dot
  <2>2. ASSUME NEW cc \in BOOLEAN, Commit(req, lcd0, cc) PROVE TypeOK'
    BY <2>2, SampleTyped, WritesTyped, CommandTyped, ClockTyped, BusTyped DEF Commit, TypeOK
  <2>3. CASE Hold(req, lcd0)
    <3>1. ControlTypeOK'
      BY <2>3 DEF Hold, TypeOK, ControlTypeOK, controlVars
    <3> QED BY <2>3, <3>1, SampleTyped, WritesTyped DEF Hold, HdmaIdle, TypeOK
  <2>4. CASE HdmaRead(req, lcd0)
    <3>1. ControlTypeOK'
      BY <2>4 DEF HdmaRead, TypeOK, ControlTypeOK, controlVars
    <3> QED BY <2>4, <3>1, SampleTyped, WritesTyped DEF HdmaRead, TypeOK
  <2>5. CASE HdmaWrite(req, lcd0)
    <3>1. ControlTypeOK'
      BY <2>5 DEF HdmaWrite, TypeOK, ControlTypeOK, controlVars
    <3>2. (count + 1) % BlockLen \in 0..(BlockLen - 1) /\ (remaining - 1) % Blocks \in 0..(Blocks - 1)
      BY CoreAssumption, Mod DEF TypeOK
    <3> QED BY <2>5, <3>1, <3>2, SampleTyped, WritesTyped DEF HdmaWrite, TypeOK
  <2> QED BY <2>1, <2>2, <2>3, <2>4, <2>5
<1> QED BY <1>1, <1>2

(* Every register of the core holds a value of its type for ever, whatever the
   program, the request lines and the LCD do. *)
THEOREM Typed == Spec => []TypeOK
BY InitTyped, StepTyped, PTL DEF Spec

(* Outside a commit the control unit and the bus keep their state. *)
LEMMA Steps ==
  ASSUME [Next]_vars
  PROVE  \/ \E req \in SUBSET Irq, lcd0, cc \in BOOLEAN : Commit(req, lcd0, cc)
         \/ \E req \in SUBSET Irq : /\ UNCHANGED <<controlVars, bus>>
                                    /\ \/ RegisterWrites(req)
                                       \/ RegisterHold(req)
         \/ UNCHANGED vars
BY DEF Next, Dot, Hold, HdmaRead, HdmaWrite

(* No dot starts a service, or keeps one going, with interrupts disabled. *)
LEMMA NeedsIMEStep == TypeOK /\ ServiceNeedsIME /\ [Next]_vars => ServiceNeedsIME'
<1> SUFFICES ASSUME TypeOK, ServiceNeedsIME, [Next]_vars PROVE ServiceNeedsIME'
  OBVIOUS
<1>1. ASSUME NEW req \in SUBSET Irq, NEW lcd0 \in BOOLEAN, NEW cc \in BOOLEAN, Commit(req, lcd0, cc)
      PROVE  ServiceNeedsIME'
  <2>1. /\ service' = ("service" \in Sig(cc).on)
        /\ IME' = ("unset_IME" \notin Sig(cc).on /\ ("set_IME" \in Sig(cc).on \/ IME))
    BY <1>1 DEF Commit, ControlClock
  <2>2. CASE service
    <3>1. IME
      BY <2>2 DEF ServiceNeedsIME
    <3>2. intr_state \in State /\ Sig(cc) = Serve(intr_state)
      BY <2>2, SigCycle DEF TypeOK, ControlTypeOK
    <3> QED BY <2>1, <3>1, <3>2, ServeCycles DEF ServiceNeedsIME
  <2>3. CASE ~service
    BY <2>1, <2>3, SigCycle DEF ServiceNeedsIME
  <2> QED BY <2>2, <2>3 DEF TypeOK, ControlTypeOK
<1>2. CASE UNCHANGED <<service, IME>>
  BY <1>2 DEF ServiceNeedsIME
<1> QED BY <1>1, <1>2, Steps DEF vars, controlVars

(* An interrupt is served only while IME is set, for every program: the exemption of
   di from the check (ControlUnit.v:1651-1652) is enough. *)
THEOREM NeedsIME == Spec => []ServiceNeedsIME
<1>1. Init => ServiceNeedsIME
  BY DEF Init, ControlInit, ServiceNeedsIME
<1> QED BY <1>1, NeedsIMEStep, Typed, PTL DEF Spec

(* The stack is not the interrupt registers. *)
StackIsMemory == StackTargets \cap {"IF", "IE"} = {}

RequestInv ==
  /\ ServiceNeedsIME
  /\ ack # {} => ~IME
  /\ ~service => vec = NoIrq
  /\ (service /\ intr_state \in {4, 5}) => vec # NoIrq
  /\ service => bus.to \notin {"IF", "IE"}
  /\ ServiceHasRequest

(* The reset state satisfies the invariant of requests. *)
LEMMA RequestInit == Init => RequestInv
BY DEF Init, ControlInit, RequestInv, ServiceNeedsIME, ServiceHasRequest

(* Without a write to them the requests only grow, whatever else the dot does. *)
LEMMA RequestsGrow ==
  ASSUME TypeOK, ack = {}, ~(Wr("IF") \/ Wr("IE")), NEW req \in SUBSET Irq,
         RegisterWrites(req) \/ RegisterHold(req)
  PROVE  IF_reg \subseteq IF_reg' /\ Pending \subseteq Pending' /\ Pending' \in SUBSET Irq
<1>1. IF_reg \subseteq IF_reg' /\ IE_reg' = IE_reg
  BY DEF RegisterWrites, RegisterHold, Latched
<1>2. IF_reg' \in SUBSET Irq
  BY WritesTyped
<1> QED BY <1>1, <1>2 DEF Pending, TypeOK

(* Among more requests the chosen one is at least as urgent. *)
LEMMA Overtakes ==
  ASSUME NEW p \in SUBSET Irq, NEW q \in SUBSET Irq, p \subseteq q, NEW v \in p,
         NextInterrupt(p) <= v
  PROVE  v \in q /\ NextInterrupt(q) <= v
BY Least

(* A dot that commits nothing keeps the invariant of requests. *)
LEMMA RequestHold ==
  ASSUME TypeOK, RequestInv, NEW req \in SUBSET Irq,
         RegisterWrites(req) \/ RegisterHold(req), UNCHANGED <<controlVars, bus>>
  PROVE  RequestInv'
<1>1. UNCHANGED <<service, IME, ack, vec, intr_state, bus>>
  BY DEF controlVars
<1>2. CASE ~service
  BY <1>1, <1>2 DEF RequestInv, ServiceNeedsIME, ServiceHasRequest
<1>3. CASE service
  <2>1. ack = {} /\ ~(Wr("IF") \/ Wr("IE"))
    BY <1>3 DEF RequestInv, ServiceNeedsIME, Wr
  <2>2. Pending \subseteq Pending' /\ Pending' \in SUBSET Irq /\ Pending \in SUBSET Irq
    BY <2>1, RequestsGrow DEF Pending, TypeOK
  <2>3. Pending # {} /\ (vec # NoIrq => vec \in Pending /\ NextInterrupt(Pending) <= vec)
    BY <1>3 DEF RequestInv, ServiceHasRequest
  <2>4. Pending' # {}
    BY <2>2, <2>3
  <2>5. ASSUME vec # NoIrq PROVE vec \in Pending' /\ NextInterrupt(Pending)' <= vec
    <3>1. vec \in Pending /\ NextInterrupt(Pending) <= vec
      BY <2>3, <2>5
    <3>2. NextInterrupt(Pending') <= vec /\ vec \in Pending'
      BY <2>2, <3>1, Overtakes
    <3> QED BY <3>2 DEF NextInterrupt
  <2>6. ServiceHasRequest'
    BY <1>1, <2>4, <2>5 DEF ServiceHasRequest
  <2> QED BY <1>1, <1>3, <2>6 DEF RequestInv, ServiceNeedsIME
<1> QED BY <1>2, <1>3

(* So does the dot that ends a machine cycle. *)
LEMMA RequestCommit ==
  ASSUME StackIsMemory, TypeOK, RequestInv,
         NEW req \in SUBSET Irq, NEW lcd0 \in BOOLEAN, NEW cc \in BOOLEAN, Commit(req, lcd0, cc)
  PROVE  RequestInv'
<1> DEFINE sig == Sig(cc)
<1>1. /\ service' = ("service" \in sig.on)
      /\ intr_state' = sig.inext
      /\ IME' = ("unset_IME" \notin sig.on /\ ("set_IME" \in sig.on \/ IME))
      /\ ack' = IF "ack_IF" \in sig.on THEN {NextInterrupt(Pending)} ELSE {}
      /\ vec' = IF sig.rd = "PCL" THEN NextInterrupt(Pending)
                ELSE IF "fetch" \in sig.on THEN NoIrq ELSE vec
  BY DEF Commit, ControlClock
<1>2. RegisterWrites(req) /\ NextBus
  BY DEF Commit
<1>3. ServiceNeedsIME'
  <2>1. Next
    BY DEF Next, Dot
  <2> QED BY <2>1, NeedsIMEStep DEF RequestInv
<1>4. service' => bus'.to \notin {"IF", "IE"}
  BY <1>2, BusTyped DEF StackIsMemory
<1>5. Pending \in SUBSET Irq /\ service \in BOOLEAN /\ intr_state \in State
  BY DEF Pending, TypeOK, ControlTypeOK
<1>6. CASE service
  <2>1. ack = {} /\ ~(Wr("IF") \/ Wr("IE")) /\ Pending # {}
    BY <1>6 DEF RequestInv, ServiceNeedsIME, ServiceHasRequest, Wr
  <2>2. Pending \subseteq Pending' /\ Pending' \in SUBSET Irq
    BY <2>1, <1>2, RequestsGrow
  <2>3. sig = Serve(intr_state)
    BY <1>6, SigCycle
  <2>4. CASE intr_state = 5
    <3>1. sig.on = {"fetch", "ack_IF", "unset_IME"} /\ sig.rd # "PCL"
      BY <1>5, <2>3, <2>4, ServeCycles
    <3> QED BY <1>1, <1>3, <3>1 DEF RequestInv, ServiceHasRequest
  <2>5. CASE intr_state # 5
    <3>1. /\ "service" \in sig.on /\ sig.on \subseteq {"service", "write"}
          /\ sig.inext = intr_state + 1
          /\ sig.rd = "PCL" <=> intr_state = 3
      BY <1>5, <2>3, <2>5, ServeCycles
    <3>2. service' /\ ack' = {} /\ intr_state' = intr_state + 1
      BY <1>1, <3>1
    <3>3. vec' = IF intr_state = 3 THEN NextInterrupt(Pending) ELSE vec
      BY <1>1, <3>1
    <3>4. Pending' # {}
      BY <2>1, <2>2
    <3>5. NextInterrupt(Pending) \in Pending /\ NextInterrupt(Pending) # NoIrq
      BY <1>5, <2>1, Least, ControlAssumption DEF Irq, NoIrq
    <3>6. intr_state' \in {4, 5} => vec' # NoIrq
      BY <1>5, <1>6, <3>2, <3>3, <3>5 DEF RequestInv, State
    <3>7. ASSUME vec' # NoIrq PROVE vec' \in Pending' /\ NextInterrupt(Pending') <= vec'
      <4>1. vec' \in Pending /\ NextInterrupt(Pending) <= vec'
        BY <1>5, <1>6, <2>1, <3>3, <3>7, Least DEF RequestInv, ServiceHasRequest
      <4> QED BY <1>5, <2>2, <4>1, Overtakes
    <3>8. ServiceHasRequest'
      BY <3>4, <3>7 DEF ServiceHasRequest, NextInterrupt
    <3> QED BY <1>3, <1>4, <3>2, <3>6, <3>8 DEF RequestInv
  <2> QED BY <2>4, <2>5
<1>7. CASE ~service
  <2>1. /\ sig.inext = 0 /\ sig.rd # "PCL" /\ "ack_IF" \notin sig.on
        /\ "service" \in sig.on => IME /\ Pending # {} /\ ~Writing
    BY <1>7, SigCycle
  <2>2. ack' = {} /\ vec' = NoIrq /\ intr_state' = 0
    BY <1>1, <1>7, <2>1 DEF RequestInv
  <2>3. ASSUME service' PROVE Pending' # {}
    <3>1. IME /\ Pending # {} /\ ~Writing
      BY <1>1, <2>1, <2>3
    <3>2. ack = {} /\ ~(Wr("IF") \/ Wr("IE"))
      BY <3>1 DEF RequestInv, Wr
    <3> QED BY <1>2, <3>1, <3>2, RequestsGrow
  <2>4. ServiceHasRequest'
    BY <2>2, <2>3 DEF ServiceHasRequest
  <2> QED BY <1>3, <1>4, <2>2, <2>4 DEF RequestInv
<1> QED BY <1>5, <1>6, <1>7

(* So does every dot. *)
LEMMA RequestStep ==
  ASSUME StackIsMemory
  PROVE  TypeOK /\ RequestInv /\ [Next]_vars => RequestInv'
<1> SUFFICES ASSUME TypeOK, RequestInv, [Next]_vars PROVE RequestInv'
  OBVIOUS
<1>1. CASE UNCHANGED vars
  <2>1. UNCHANGED <<service, IME, ack, vec, intr_state, bus, IE_reg, IF_reg>>
    BY <1>1 DEF vars, controlVars
  <2> QED BY <2>1 DEF RequestInv, ServiceNeedsIME, ServiceHasRequest, Pending
<1> QED BY <1>1, Steps, RequestCommit, RequestHold

(* While an interrupt is served there is an enabled request, and the source whose
   vector was chosen is still one, provided the pushes do not hit IF or IE. *)
THEOREM HasRequest ==
  ASSUME StackIsMemory
  PROVE  Spec => []ServiceHasRequest
<1>1. RequestInv => ServiceHasRequest
  BY DEF RequestInv
<1> QED BY <1>1, RequestInit, RequestStep, Typed, PTL DEF Spec

(* A dot that enters a handler acknowledges its source or leaves it flagged. *)
LEMMA HandlerStep ==
  TypeOK /\ RequestInv /\ [Next]_vars
    => [(service /\ ~service') => vec \in ack' \cup IF_reg' /\ ack' \subseteq Irq]_vars
<1> SUFFICES ASSUME TypeOK, RequestInv, [Next]_vars, service, ~service'
             PROVE  vec \in ack' \cup IF_reg' /\ ack' \subseteq Irq
  OBVIOUS
<1>1. PICK req \in SUBSET Irq, lcd0 \in BOOLEAN, cc \in BOOLEAN : Commit(req, lcd0, cc)
  BY Steps DEF vars, controlVars
<1>2. /\ service' = ("service" \in Sig(cc).on)
      /\ ack' = IF "ack_IF" \in Sig(cc).on THEN {NextInterrupt(Pending)} ELSE {}
  BY <1>1 DEF Commit, ControlClock
<1>3. intr_state = 5
  BY <1>2, SigCycle, ServeCycles DEF TypeOK, ControlTypeOK
<1>4. ack = {} /\ ~(Wr("IF") \/ Wr("IE")) /\ Pending # {} /\ vec \in Pending
  BY <1>3 DEF RequestInv, ServiceNeedsIME, ServiceHasRequest, Wr
<1>5. IF_reg \subseteq IF_reg'
  BY <1>1, <1>4, RequestsGrow DEF Commit
<1>6. NextInterrupt(Pending) \in Irq
  BY <1>4, Least DEF Pending, TypeOK
<1> QED BY <1>2, <1>4, <1>5, <1>6 DEF Pending

(* No interrupt is lost by being served, provided the pushes do not hit IF or IE. *)
THEOREM KeepsFlag ==
  ASSUME StackIsMemory
  PROVE  Spec => HandlerKeepsFlag
BY RequestInit, RequestStep, HandlerStep, Typed, PTL DEF Spec, HandlerKeepsFlag

(* No dot leaves a general-purpose transfer waiting for the LCD. *)
LEMMA WaitStep == WaitIsForHblank /\ [Next]_vars => WaitIsForHblank'
<1> SUFFICES ASSUME WaitIsForHblank, [Next]_vars PROVE WaitIsForHblank'
  OBVIOUS
<1>1. ASSUME NEW req \in SUBSET Irq, NEW lcd0 \in BOOLEAN, NEW cc \in BOOLEAN, Commit(req, lcd0, cc)
      PROVE  WaitIsForHblank'
  BY <1>1 DEF Commit, HdmaCommand, HdmaIdle, WaitIsForHblank
<1>2. ASSUME NEW req \in SUBSET Irq, NEW lcd0 \in BOOLEAN, Hold(req, lcd0)
      PROVE  WaitIsForHblank'
  BY <1>2 DEF Hold, HdmaIdle, WaitIsForHblank
<1>3. ASSUME NEW req \in SUBSET Irq, NEW lcd0 \in BOOLEAN, HdmaRead(req, lcd0)
      PROVE  WaitIsForHblank'
  BY <1>3 DEF HdmaRead, WaitIsForHblank
<1>4. ASSUME NEW req \in SUBSET Irq, NEW lcd0 \in BOOLEAN, HdmaWrite(req, lcd0)
      PROVE  WaitIsForHblank'
  BY <1>4 DEF HdmaWrite, WaitIsForHblank
<1>5. CASE UNCHANGED vars
  BY <1>5 DEF vars, hdmaVars, WaitIsForHblank
<1> QED BY <1>1, <1>2, <1>3, <1>4, <1>5 DEF Next, Dot

(* Only a transfer of the hblank kind ever waits for the LCD (Core.v:296). *)
THEOREM WaitsForHblank == Spec => []WaitIsForHblank
<1>1. Init => WaitIsForHblank
  BY DEF Init, WaitIsForHblank
<1> QED BY <1>1, WaitStep, PTL DEF Spec

(* A dot that clears the wake-up of a sleeping processor is the one that acts on it. *)
LEMMA WakeStep ==
  [Next]_vars => [((Stopped \/ Halted) /\ wake /\ ~wake') => CommitStep]_vars
<1> SUFFICES ASSUME Next, Stopped \/ Halted, wake, ~wake' PROVE CommitStep
  OBVIOUS
<1>1. PICK req \in SUBSET Irq, lcd0 \in BOOLEAN :
        \/ \E cc \in BOOLEAN : Commit(req, lcd0, cc)
        \/ Hold(req, lcd0) \/ HdmaRead(req, lcd0) \/ HdmaWrite(req, lcd0)
  BY DEF Next, Dot
<1>2. ~Frozen(lcd0)
  BY DEF Frozen, HdmaOn
<1>3. Sample(req) => phase = 0
  BY DEF Sample
<1>4. phase = 0 => Enable(lcd0)
  BY <1>2 DEF Enable, CpuEn
<1> QED BY <1>1, <1>2, <1>3, <1>4 DEF CommitStep, Hold, HdmaRead, HdmaWrite

(* The wake-up of a processor that sleeps is kept until it is acted on. *)
THEOREM WakeUpIsKept == Spec => WakeUpKept
BY WakeStep, PTL DEF Spec, WakeUpKept

(***************************************************************************)
(* The HDMA engine of Core implements Transfer.  left is a product, so the *)
(* proof needs a little arithmetic; the control part is HeldInv: a         *)
(* general-purpose transfer is never active while the processor sleeps, so *)
(* it never lets a machine cycle end.                                      *)
(***************************************************************************)
(* A product of naturals, and one factor more. *)
LEMMA Product ==
  ASSUME NEW k \in Nat, NEW b \in Nat \ {0}
  PROVE  /\ k * b \in Nat
         /\ (k + 1) * b = k * b + b
OBVIOUS

(* A multiple leaves no remainder, *)
LEMMA NoRemainder ==
  ASSUME NEW k \in Nat, NEW b \in Nat \ {0}
  PROVE  (k * b) % b = 0
OBVIOUS

(* and what is between two multiples leaves one. *)
LEMMA Remainder ==
  ASSUME NEW k \in Nat, NEW b \in Nat \ {0}, NEW c \in 1..(b - 1)
  PROVE  (k * b + c) % b # 0
OBVIOUS

Left == IF active THEN (remaining + 1) * BlockLen - count ELSE 0

(* There are bytes left exactly while the transfer is active. *)
LEMMA LeftPositive ==
  ASSUME TypeOK
  PROVE  Left \in Nat /\ (active <=> Left > 0)
<1>1. remaining \in Nat /\ BlockLen \in Nat \ {0} /\ count \in 0..(BlockLen - 1) /\ active \in BOOLEAN
  BY CoreAssumption DEF TypeOK
<1>2. remaining * BlockLen \in Nat /\ (remaining + 1) * BlockLen = remaining * BlockLen + BlockLen
  BY <1>1, Product
<1>3. (remaining + 1) * BlockLen - count > 0 /\ (remaining + 1) * BlockLen - count \in Nat
  BY <1>1, <1>2
<1> QED BY <1>1, <1>3 DEF Left

(* A general-purpose transfer never meets a processor that sleeps. *)
HeldInv ==
  /\ WaitIsForHblank
  /\ (active /\ mode = "general") => service \/ ~Sleeping(IR, state)

(* The processor sleeps or is stopped only in the state that does it. *)
LEMMA SleepsOnlyThere ==
  ASSUME TypeOK, Stopped \/ Halted
  PROVE  ~service /\ Sleeping(IR, state)
<1>1. Sig(FALSE).on \cap {"halt", "stop"} # {}
  BY DEF Stopped, Halted, Raised
<1>2. ASSUME service PROVE Sig(FALSE).on \cap {"halt", "stop"} = {}
  <2>1. Sig(FALSE) = Serve(intr_state) /\ intr_state \in State
    BY <1>2 DEF Sig, Outputs, TypeOK, ControlTypeOK
  <2>2. \A st \in State : Serve(st).on \cap {"halt", "stop"} = {}
    BY ServeCycles
  <2> QED BY <2>1, <2>2
<1>3. service \in BOOLEAN
  BY DEF TypeOK, ControlTypeOK
<1>4. ~service => Sleeping(IR, state)
  BY <1>1, SigCycle
<1> QED BY <1>1, <1>2, <1>3, <1>4

(* While a general-purpose transfer is active every dot belongs to the engine. *)
LEMMA GeneralIsFrozen ==
  ASSUME TypeOK, HeldInv, active, mode = "general", NEW lcd0 \in BOOLEAN
  PROVE  Frozen(lcd0)
<1>1. ~Stopped /\ ~Halted
  BY SleepsOnlyThere DEF HeldInv
<1>2. hstate \in {"RECV", "SEND"}
  BY DEF HeldInv, WaitIsForHblank, TypeOK
<1> QED BY <1>1, <1>2 DEF Frozen, HdmaOn

(* The reset state satisfies HeldInv. *)
LEMMA HeldInit == Init => HeldInv
BY DEF Init, HeldInv, WaitIsForHblank

(* No machine cycle ends during a general-purpose transfer, and the one that starts
   it does not put the processor to sleep. *)
LEMMA HeldCommit ==
  ASSUME TypeOK, HeldInv,
         NEW req \in SUBSET Irq, NEW lcd0 \in BOOLEAN, NEW cc \in BOOLEAN, Commit(req, lcd0, cc)
  PROVE  HeldInv' /\ ~(active /\ mode = "general")
<1>1. ~Frozen(lcd0)
  BY DEF Commit, Enable, CpuEn
<1>2. ~(active /\ mode = "general")
  BY <1>1, GeneralIsFrozen
<1>3. WaitIsForHblank'
  BY WaitStep DEF HeldInv, Next, Dot
<1>4. CASE Wr("HDMA5")
  <2>1. Writing
    BY <1>4 DEF Wr
  <2>2. /\ state' = Sig(cc).next
        /\ service' = ("service" \in Sig(cc).on)
        /\ IR' \in IF "fetch" \in Sig(cc).on THEN Program ELSE {IR}
    BY DEF Commit, ControlClock
  <2>3. CASE service
    <3>1. intr_state # 5
      <4>1. intr_state = 5 => ~Writing
        BY <2>3, ServeCycles DEF Writing, TypeOK, ControlTypeOK
      <4> QED BY <2>1, <4>1
    <3>2. "service" \in Sig(cc).on
      BY <2>3, <3>1, SigCycle, ServeCycles DEF TypeOK, ControlTypeOK
    <3> QED BY <1>2, <1>3, <2>2, <3>2 DEF HeldInv
  <2>4. CASE ~service
    <3>1. Sig(cc).on \subseteq {"write"} /\ ~Sleeping(IR, Sig(cc).next)
      BY <2>1, <2>4, SigCycle
    <3> QED BY <1>2, <1>3, <2>2, <3>1 DEF HeldInv
  <2> QED BY <2>3, <2>4
<1>5. CASE ~Wr("HDMA5")
  <2>1. UNCHANGED <<active, mode>>
    BY <1>5 DEF Commit, HdmaCommand
  <2> QED BY <1>2, <1>3, <2>1 DEF HeldInv
<1> QED BY <1>2, <1>4, <1>5

(* HeldInv is kept by every dot. *)
LEMMA HeldStep == TypeOK /\ HeldInv /\ [Next]_vars => HeldInv'
<1> SUFFICES ASSUME TypeOK, HeldInv, [Next]_vars PROVE HeldInv'
  OBVIOUS
<1>1. WaitIsForHblank'
  BY WaitStep DEF HeldInv
<1>2. CASE \E req \in SUBSET Irq, lcd0 \in BOOLEAN : HdmaWrite(req, lcd0)
  <2>1. UNCHANGED <<mode, IR, state, service>> /\ (active' => active)
    BY <1>2 DEF HdmaWrite, controlVars, Frozen, HdmaOn
  <2> QED BY <1>1, <2>1 DEF HeldInv
<1>3. CASE \E req \in SUBSET Irq, lcd0 \in BOOLEAN : Hold(req, lcd0) \/ HdmaRead(req, lcd0)
  BY <1>1, <1>3 DEF HeldInv, Hold, HdmaRead, controlVars
<1>4. CASE UNCHANGED vars
  BY <1>1, <1>4 DEF HeldInv, vars, controlVars, hdmaVars
<1> QED BY <1>2, <1>3, <1>4, HeldCommit DEF Next, Dot

(* The reset state is an initial state of Transfer. *)
LEMMA RefinesInit == Init => HdmaTransfer!Init
BY DEF Init, HdmaTransfer!Init

(* The dot that ends a machine cycle starts or calls off a transfer, or computes. *)
LEMMA RefinesCommit ==
  ASSUME TypeOK, HeldInv,
         NEW req \in SUBSET Irq, NEW lcd0 \in BOOLEAN, NEW cc \in BOOLEAN, Commit(req, lcd0, cc)
  PROVE  HdmaTransfer!Next
<1>0. active \in BOOLEAN /\ (active <=> Left > 0) /\ Left \in Nat
  BY LeftPositive DEF TypeOK
<1>1. ~(active /\ mode = "general")
  BY HeldCommit
<1>2. HdmaCommand(lcd0)
  BY DEF Commit
<1>3. CASE Wr("HDMA5") /\ active
  <2>1. active' = FALSE /\ UNCHANGED <<remaining, mode>> /\ mode = "hblank"
    BY <1>1, <1>2, <1>3 DEF HdmaCommand, TypeOK
  <2>2. HdmaTransfer!Abort
    BY <1>0, <1>3, <2>1 DEF HdmaTransfer!Abort, Left
  <2> QED BY <2>2 DEF HdmaTransfer!Next
<1>4. CASE Wr("HDMA5") /\ ~active
  <2>1. /\ active' = TRUE /\ remaining' = bus.low /\ count' = 0
        /\ mode' \in {"general", "hblank"}
    BY <1>2, <1>4 DEF HdmaCommand
  <2>2. bus.low \in Lengths /\ bus.low \in Nat
    BY <1>4, CoreAssumption DEF Wr, TypeOK, WriteCycle
  <2>3. (bus.low + 1) * BlockLen - 0 = (bus.low + 1) * BlockLen
    BY <2>2, CoreAssumption, Product
  <2>4. HdmaTransfer!Begin
    BY <1>4, <2>1, <2>2, <2>3 DEF HdmaTransfer!Begin
  <2> QED BY <2>4 DEF HdmaTransfer!Next
<1>5. CASE ~Wr("HDMA5")
  <2>1. UNCHANGED <<active, remaining, mode, count>>
    BY <1>2, <1>5 DEF HdmaCommand
  <2>2. HdmaTransfer!Compute
    BY <1>0, <1>1, <2>1 DEF HdmaTransfer!Compute, Left
  <2> QED BY <2>2 DEF HdmaTransfer!Next
<1> QED BY <1>3, <1>4, <1>5

(* The dot that writes a byte moves one byte. *)
LEMMA RefinesWrite ==
  ASSUME TypeOK, NEW req \in SUBSET Irq, NEW lcd0 \in BOOLEAN, HdmaWrite(req, lcd0)
  PROVE  HdmaTransfer!Next
<1>1. /\ active /\ Left > 0 /\ Left \in Nat
      /\ Left = (remaining + 1) * BlockLen - count
  BY LeftPositive DEF HdmaWrite, Frozen, HdmaOn, Left
<1>2. /\ remaining \in 0..(Blocks - 1) /\ Blocks \in Nat \ {0}
      /\ BlockLen \in Nat \ {0} /\ count \in 0..(BlockLen - 1)
  BY CoreAssumption DEF TypeOK
<1>3. remaining * BlockLen \in Nat /\ (remaining + 1) * BlockLen = remaining * BlockLen + BlockLen
  BY <1>2, Product
<1>4. UNCHANGED <<controlVars, mode>> /\ count' = (count + 1) % BlockLen
  BY DEF HdmaWrite
<1>5. CASE count = BlockLen - 1
  <2>1. remaining' = (remaining - 1) % Blocks /\ active' = (remaining # 0)
    BY <1>5 DEF HdmaWrite
  <2>2. count' = 0
    BY <1>2, <1>4, <1>5, NoRemainder
  <2>3. Left - 1 = remaining * BlockLen
    BY <1>1, <1>2, <1>3, <1>5
  <2>4. Left' = Left - 1
    <3>1. CASE remaining = 0
      <4>1. remaining * BlockLen = 0
        BY <1>2, <3>1
      <4>2. Left' = 0
        BY <2>1, <3>1 DEF Left
      <4> HIDE DEF Left
      <4> QED BY <2>3, <4>1, <4>2
    <3>2. CASE remaining # 0
      <4>1. (remaining - 1) % Blocks = remaining - 1
        BY <1>2, <3>2
      <4>2. Left' = (remaining - 1 + 1) * BlockLen - 0
        BY <2>1, <2>2, <3>2, <4>1 DEF Left
      <4> QED BY <1>2, <1>3, <2>3, <4>2
    <3> QED BY <3>1, <3>2
  <2>5. Left' % BlockLen = 0
    BY <1>2, <2>3, <2>4, NoRemainder
  <2>6. HdmaTransfer!MoveByte
    BY <1>1, <1>4, <2>1, <2>4, <2>5 DEF HdmaTransfer!MoveByte, Left
  <2> QED BY <2>6 DEF HdmaTransfer!Next
<1>6. CASE count # BlockLen - 1
  <2>1. UNCHANGED <<remaining, active>>
    BY <1>6 DEF HdmaWrite
  <2>2. count' = count + 1
    BY <1>2, <1>4, <1>6
  <2>3. Left' = Left - 1
    BY <1>1, <1>2, <1>3, <2>1, <2>2 DEF Left
  <2>4. Left - 1 = remaining * BlockLen + (BlockLen - count - 1) /\ BlockLen - count - 1 \in 1..(BlockLen - 1)
    BY <1>1, <1>2, <1>3, <1>6
  <2>5. Left' % BlockLen # 0
    <3>1. (remaining * BlockLen + (BlockLen - count - 1)) % BlockLen # 0
      BY <1>2, <2>4, Remainder
    <3>2. Left' = remaining * BlockLen + (BlockLen - count - 1)
      BY <2>3, <2>4
    <3> QED BY <3>1, <3>2
  <2>6. HdmaTransfer!MoveByte
    BY <1>1, <1>4, <2>1, <2>3, <2>5 DEF HdmaTransfer!MoveByte, Left
  <2> QED BY <2>6 DEF HdmaTransfer!Next
<1> QED BY <1>5, <1>6

(* Every dot is a step of Transfer or leaves it alone. *)
LEMMA RefinesStep ==
  TypeOK /\ HeldInv /\ [Next]_vars => [HdmaTransfer!Next]_(HdmaTransfer!vars)
<1> SUFFICES ASSUME TypeOK, HeldInv, [Next]_vars PROVE [HdmaTransfer!Next]_(HdmaTransfer!vars)
  OBVIOUS
<1>1. CASE UNCHANGED <<active, remaining, count, mode, controlVars>>
  BY <1>1 DEF HdmaTransfer!vars
<1>2. CASE \E req \in SUBSET Irq, lcd0 \in BOOLEAN : Hold(req, lcd0) \/ HdmaRead(req, lcd0)
  BY <1>1, <1>2 DEF Hold, HdmaRead
<1> QED BY <1>1, <1>2, RefinesCommit, RefinesWrite DEF Next, Dot, vars, hdmaVars

(* The HDMA engine of Core.v implements Transfer (its safety part), for every number
   and length of blocks, every program and every behaviour of the LCD. *)
THEOREM Refines == Spec => HdmaTransfer!Init /\ [][HdmaTransfer!Next]_(HdmaTransfer!vars)
BY RefinesInit, HeldInit, HeldStep, RefinesStep, Typed, PTL DEF Spec

(***************************************************************************)
(* How long a machine cycle takes: the observers of CoreTiming.            *)
(***************************************************************************)

(* What arbitration leaves of the signals s: every line and the next state. *)
Kept(a, s, ir, ime, pending) ==
  /\ s.on \subseteq a.on
  /\ a.on \subseteq s.on \cup {"fetch", "service"}
  /\ a.next = s.next
  /\ ~AtBoundary(s) => a = s
  /\ (AtBoundary(s) /\ ime /\ pending /\ ir # DiOp) => "service" \in a.on

(* Arbitration takes no line away, and at a boundary serves what is due. *)
LEMMA ArbitrateKeeps ==
  ASSUME NEW s \in Signals, NEW ir, NEW ime \in BOOLEAN, NEW pending \in BOOLEAN, NEW w \in BOOLEAN
  PROVE  Kept(Arbitrate(s, ir, ime, pending, w), s, ir, ime, pending)
<1>1. /\ Serving(s).on = s.on \cup {"service"} /\ Serving(s).next = s.next
      /\ Waking(s).on = s.on \cup {"fetch"} /\ Waking(s).next = s.next
  BY DEF Serving, Waking, Also, Signals
<1>2. \/ Arbitrate(s, ir, ime, pending, w) = s
      \/ Arbitrate(s, ir, ime, pending, w) = Serving(s)
      \/ Arbitrate(s, ir, ime, pending, w) = Waking(s)
  BY DEF Arbitrate
<1>3. ~AtBoundary(s) => Arbitrate(s, ir, ime, pending, w) = s
  BY DEF Arbitrate
<1>4. (AtBoundary(s) /\ ime /\ pending /\ ir # DiOp) => Arbitrate(s, ir, ime, pending, w) = Serving(s)
  BY DEF Arbitrate
<1> QED BY <1>1, <1>2, <1>3, <1>4 DEF Kept

(* The processor asks for sleep exactly in the state of block 01 that does, and to stop
   in the only state of stop. *)
LEMMA RaisedThere ==
  ASSUME TypeOK
  PROVE  /\ Raised("halt") <=> ~service /\ Block(IR) = 1 /\ state = 1
         /\ Raised("stop") <=> ~service /\ IR = 16 /\ state = 0
<1> DEFINE ins == Instruction(IR, IR_prefix, state, FALSE, armed, Pending # {})
<1>1. /\ IR \in Opcode /\ IR_prefix \in Opcode /\ state \in State /\ armed \in BOOLEAN
      /\ intr_state \in State /\ IME \in BOOLEAN /\ wake \in BOOLEAN /\ (Pending # {}) \in BOOLEAN
      /\ service \in BOOLEAN
  BY DEF TypeOK, ControlTypeOK
<1>2. CASE service
  <2>1. Sig(FALSE) = Serve(intr_state)
    BY <1>2 DEF Sig, Outputs
  <2>2. Serve(intr_state).on \cap {"halt", "stop"} = {}
    BY <1>1, ServeCycles
  <2> QED BY <1>2, <2>1, <2>2 DEF Raised
<1>3. CASE ~service
  <2>1. Sig(FALSE) = Arbitrate(ins, IR, IME, Pending # {}, wake)
    BY <1>3 DEF Sig, Outputs
  <2>2. Tame(ins, IR, state)
    BY <1>1, CyclesTame
  <2>3. /\ "halt" \in ins.on <=> Block(IR) = 1 /\ state = 1
        /\ "stop" \in ins.on <=> IR = 16 /\ state = 0
    <3>1. "halt" \in ins.on <=> (Block(IR) = 1 /\ state = 1)
      <4>1. CASE Block(IR) = 1 /\ state = 1
        BY <1>1, <4>1, Sleeps, Zenon
      <4>2. ASSUME "halt" \in ins.on PROVE Block(IR) = 1 /\ state = 1
        <5>1. /\ IR \in Opcode /\ IR_prefix \in Opcode /\ state \in State /\ armed \in BOOLEAN
              /\ (Pending # {}) \in BOOLEAN /\ FALSE \in BOOLEAN
          BY <1>1
        <5>2. Block(IR) = 1
          BY <5>1, <4>2, SleepsOnly
        <5>3. state = 1
          BY <5>1, <4>2, SleepsOnly
        <5> QED BY <5>2, <5>3
      <4> QED BY <4>1, <4>2
    <3>2. "stop" \in ins.on <=> (IR = 16 /\ state = 0)
      BY <1>1, Sleeps, Zenon
    <3> QED BY <3>1, <3>2
  <2> HIDE DEF ins
  <2>5. ins \in Signals
    BY <2>2 DEF Tame
  <2>6. Kept(Sig(FALSE), ins, IR, IME, Pending # {})
    BY <1>1, <2>1, <2>5, ArbitrateKeeps
  <2>7. \A l \in {"halt", "stop"} : Raised(l) <=> l \in ins.on
    BY <2>6 DEF Raised, Kept
  <2> QED BY <1>3, <2>3, <2>7
<1> QED BY <1>1, <1>2, <1>3

(* A processor that sleeps or is stopped stays so until a machine cycle ends. *)
LEMMA StaysAsleep ==
  ASSUME TypeOK, TypeOK', Stopped \/ Halted, NEW req \in SUBSET Irq, RegisterWrites(req),
         UNCHANGED controlVars
  PROVE  (Stopped \/ Halted)'
<1>1. ~service /\ Sleeping(IR, state)
  BY SleepsOnlyThere
<1>2. UNCHANGED <<service, IR, state>>
  BY DEF controlVars
<1>3. Raised("halt") <=> ~service /\ Block(IR) = 1 /\ state = 1
  BY RaisedThere
<1>4. Raised("stop") <=> ~service /\ IR = 16 /\ state = 0
  BY RaisedThere
<1>5. (/\ Raised("halt") <=> ~service /\ Block(IR) = 1 /\ state = 1
       /\ Raised("stop") <=> ~service /\ IR = 16 /\ state = 0)'
  <2>1. TypeOK'
    OBVIOUS
  <2> QED BY <2>1, RaisedThere, PTL
<1>6. Raised("stop") => armed' = armed
  <2>1. SUFFICES ASSUME Raised("stop") PROVE ~Writing
    BY DEF RegisterWrites, Wr
  <2>2. ~service /\ IR = 16 /\ state = 0
    BY <1>4, <2>1
  <2>3. "write" \notin Instruction(16, IR_prefix, 0, FALSE, FALSE, FALSE).on
    <3>1. 16 \in Opcode /\ 0 \in State /\ IR_prefix \in Opcode
      BY DEF Opcode, State, TypeOK, ControlTypeOK
    <3> QED BY <3>1, Sleeps DEF Sleeping
  <2> QED BY <2>2, <2>3 DEF Writing
<1> QED BY <1>1, <1>2, <1>3, <1>4, <1>5, <1>6 DEF Stopped, Halted, Block

(* The dots of a machine cycle and the phase go together: the speed at which it began
   decides how many there will be, because the phase counter wraps to 0 after its
   last value even when the speed changes on the way. *)
CycleInv ==
  /\ dots \in {Interrupted} \cup 0..MaxCount /\ pace \in BOOLEAN
  /\ (~Halted /\ ~Stopped /\ dots # Interrupted)
       => /\ dots = 0 => speed = pace
          /\ \/ pace /\ \/ dots = 0 /\ phase = 1
                        \/ dots = 1 /\ phase = 0
             \/ ~pace /\ \/ dots = 0 /\ phase = 1
                         \/ dots = 1 /\ phase = 2
                         \/ dots = 2 /\ phase = 3
                         \/ dots = 3 /\ phase = 0

(* The phase of the reset state is that of a cycle about to end. *)
LEMMA CycleInit == TimingInit => CycleInv
<1> SUFFICES ASSUME TimingInit PROVE CycleInv
  OBVIOUS
<1>1. dots = 3 /\ phase = 0 /\ ~pace /\ pace \in BOOLEAN
  BY DEF TimingInit, Init
<1>2. dots \in {Interrupted} \cup 0..MaxCount
  BY <1>1, CountAssumption
<1> QED BY <1>1, <1>2 DEF CycleInv

(* A step of the observers that ends no machine cycle. *)
LEMMA Between ==
  ASSUME TypeOK, Next, ~CommitStep
  PROVE  \E req \in SUBSET Irq :
           /\ Sample(req) /\ UNCHANGED controlVars
           /\ \/ \E lcd0 \in BOOLEAN : /\ ~Frozen(lcd0) /\ ~Enable(lcd0)
                                       /\ RegisterWrites(req)
              \/ hstate = "SEND" \/ hstate' = "SEND"
BY DEF Next, Dot, CommitStep, Hold, HdmaRead, HdmaWrite

(* Every dot keeps the dots in step with the phase. *)
LEMMA CycleStep ==
  TypeOK /\ TypeOK' /\ CycleInv /\ [TimingNext]_<<vars, observers>> => CycleInv'
<1> SUFFICES ASSUME TypeOK, TypeOK', CycleInv, [TimingNext]_<<vars, observers>> PROVE CycleInv'
  OBVIOUS
<1>0. MaxCount \in Nat /\ MaxCount > 5 /\ phase \in 0..3 /\ speed \in BOOLEAN /\ speed' \in BOOLEAN
  BY CountAssumption DEF TypeOK
<1>1. CASE UNCHANGED <<vars, observers>>
  <2>1. UNCHANGED <<controlVars, armed, IE_reg, IF_reg, wake, phase, speed, dots, pace>>
    BY <1>1 DEF vars, clockVars, observers
  <2>2. (Halted <=> Halted') /\ (Stopped <=> Stopped')
    BY <2>1 DEF Halted, Stopped, Raised, Sig, Outputs, Pending, controlVars
  <2> QED BY <2>1, <2>2 DEF CycleInv
<1>2. CASE TimingNext /\ CommitStep
  <2>1. PICK req \in SUBSET Irq, lcd0 \in BOOLEAN, cc \in BOOLEAN : Commit(req, lcd0, cc)
    BY <1>2 DEF CommitStep
  <2>2. phase = 0 /\ Sample(req)
    BY <2>1 DEF Commit, Enable, CpuEn
  <2>3. phase' = 1
    BY <2>2 DEF Sample, LastDot
  <2>4. dots' = 0 /\ pace' = speed'
    BY <1>2 DEF TimingNext, Observe
  <2> QED BY <1>0, <2>3, <2>4 DEF CycleInv, Interrupted
<1>3. CASE TimingNext /\ ~CommitStep
  <2>1. PICK req \in SUBSET Irq :
           /\ Sample(req) /\ UNCHANGED controlVars
           /\ \/ \E lcd0 \in BOOLEAN : /\ ~Frozen(lcd0) /\ ~Enable(lcd0)
                                       /\ RegisterWrites(req)
              \/ hstate = "SEND" \/ hstate' = "SEND"
    BY <1>3, Between DEF TimingNext
  <2>2. /\ dots' = IF hstate' = "SEND" \/ hstate = "SEND" \/ dots = Interrupted
                   THEN Interrupted ELSE Count(dots)
        /\ pace' = pace
    BY <1>3 DEF TimingNext, Observe
  <2>3. dots' \in {Interrupted} \cup 0..MaxCount /\ pace' \in BOOLEAN
    BY <1>0, <2>2 DEF CycleInv, Count, Interrupted
  <2>4. CASE dots' = Interrupted
    BY <2>3, <2>4 DEF CycleInv
  <2>5. CASE dots' # Interrupted /\ (Stopped \/ Halted)
    <3>1. RegisterWrites(req)
      BY <2>1, <2>2, <2>5
    <3>2. (Stopped \/ Halted)'
      BY <2>1, <2>5, <3>1, StaysAsleep
    <3> QED BY <2>3, <3>2 DEF CycleInv
  <2>6. CASE dots' # Interrupted /\ ~(Stopped \/ Halted)
    <3>1. PICK lcd0 \in BOOLEAN : ~Frozen(lcd0) /\ ~Enable(lcd0)
      BY <2>1, <2>2, <2>6
    <3>2. phase # 0
      BY <2>6, <3>1 DEF Enable, CpuEn
    <3>3. dots # Interrupted /\ dots' = Count(dots)
      BY <2>2, <2>6
    <3>4. phase' = IF LastDot THEN 0 ELSE (phase + 1) % 4
      BY <2>1 DEF Sample
    <3>5. CASE pace
      <4>1. dots = 0 /\ phase = 1 /\ speed
        BY <2>6, <3>2, <3>3, <3>5 DEF CycleInv
      <4>2. dots' = 1 /\ phase' = 0
        BY <1>0, <3>3, <3>4, <4>1 DEF Count, LastDot
      <4>3. pace'
        BY <2>2, <3>5
      <4> QED BY <2>3, <4>2, <4>3 DEF CycleInv
    <3>6. CASE ~pace
      <4>1. \/ dots = 0 /\ phase = 1 /\ ~speed
            \/ dots = 1 /\ phase = 2
            \/ dots = 2 /\ phase = 3
        BY <1>0, <2>6, <3>2, <3>3, <3>6 DEF CycleInv
      <4>2. \/ dots' = 1 /\ phase' = 2
            \/ dots' = 2 /\ phase' = 3
            \/ dots' = 3 /\ phase' = 0
        BY <1>0, <3>3, <3>4, <4>1 DEF Count, LastDot
      <4>3. ~pace'
        BY <2>2, <3>6
      <4> QED BY <2>3, <4>2, <4>3 DEF CycleInv
    <3> QED BY <3>5, <3>6 DEF CycleInv
  <2> QED BY <2>4, <2>5, <2>6
<1> QED BY <1>1, <1>2, <1>3

(* The observed core is the core. *)
LEMMA TimingTyped == TimingSpec => []TypeOK
<1>1. TimingInit => TypeOK
  BY InitTyped DEF TimingInit
<1>2. TypeOK /\ [TimingNext]_<<vars, observers>> => TypeOK'
  <2>1. [TimingNext]_<<vars, observers>> => [Next]_vars
    BY DEF TimingNext
  <2> QED BY <2>1, StepTyped
<1> QED BY <1>1, <1>2, PTL DEF TimingSpec

(* A machine cycle that ends has had its dots. *)
LEMMA CycleEnds ==
  CycleInv /\ [TimingNext]_<<vars, observers>>
    => [(CommitStep /\ ~Halted /\ ~Stopped)
          => dots \in {Interrupted, IF pace THEN 1 ELSE 3}]_<<vars, observers>>
<1> SUFFICES ASSUME CycleInv, CommitStep, ~Halted, ~Stopped
             PROVE  dots \in {Interrupted, IF pace THEN 1 ELSE 3}
  OBVIOUS
<1>1. phase = 0
  BY DEF CommitStep, Commit, Enable, CpuEn
<1> QED BY <1>1 DEF CycleInv

(* A machine cycle of an awake processor takes two dots at double speed and four at
   normal speed, by the speed at its beginning, whenever KEY1 is written and stop
   switches, unless the HDMA engine holds it (Core.v:260 and 347-352). *)
THEOREM MachineCycleLength == TimingSpec => CycleLength
BY CycleInit, CycleStep, CycleEnds, TimingTyped, PTL DEF TimingSpec, CycleLength

(***************************************************************************)
(* How long an interrupt waits.                                            *)
(***************************************************************************)
(* The program has no opcode without a pattern: such an opcode fetches nothing and
   stays in IR for ever. *)
ProgramLegal == Program \cap Illegal = {}

(* The wait is never longer than the state of the instruction says.  The state of a new
   instruction is S0, or S1 when it was fetched by a wake-up from halt; a single-cycle
   instruction has nothing in S1 and falls back to S0. *)
LateInv ==
  /\ late \in 0..5
  /\ service => late = 0
  /\ IR \in Opcode \ Illegal
  /\ state + 1 \in Places(IR) \/ (state = 1 /\ IR \in Single)
  /\ IME /\ ~service => late <= IF IR \in Single THEN 1 - state ELSE state

(* The reset state waits for nothing and is at the start of nop. *)
LEMMA LateInit == TimingInit => LateInv
<1> SUFFICES ASSUME TimingInit PROVE LateInv
  OBVIOUS
<1>1. late = 0 /\ IR = 0 /\ state = 0 /\ ~service /\ ~IME
  BY DEF TimingInit, Init, ControlInit
<1>2. 0 \in Opcode \ Illegal /\ 0 \in State
  BY DEF Opcode, Illegal, State
<1>3. 1 \in Places(0)
  BY <1>2, InstructionTurns
<1> QED BY <1>1, <1>2, <1>3 DEF LateInv

(* What a machine cycle of an instruction comes to, arbitration included: it falls back
   from an S1 that does not exist; or it is a boundary, where an interrupt that is due
   is taken unless di clears IME; or it moves on within the instruction. *)
Outcome(a, ir, st, ime, pending) ==
  \/ st + 1 \notin Places(ir) /\ a = Idle
  \/ /\ a.next \in {0, 1}
     /\ ime /\ pending => "service" \in a.on \/ (ir = DiOp /\ "unset_IME" \in a.on)
  \/ /\ st + 1 \in Places(ir)
     /\ a.next > st /\ a.next + 1 \in Places(ir)
     /\ {"fetch", "service"} \cap a.on = {}

(* These are all the outcomes there are. *)
LEMMA Outcomes ==
  ASSUME NEW ir \in Opcode, ir \notin Illegal, NEW irp \in Opcode, NEW st \in State,
         NEW cc \in BOOLEAN, NEW switch \in BOOLEAN, NEW pending \in BOOLEAN,
         NEW ime \in BOOLEAN, NEW w \in BOOLEAN
  PROVE  Outcome(Arbitrate(Instruction(ir, irp, st, cc, switch, pending), ir, ime, pending, w),
                 ir, st, ime, pending)
<1> DEFINE ins == Instruction(ir, irp, st, cc, switch, pending)
           a == Arbitrate(ins, ir, ime, pending, w)
<1> SUFFICES Outcome(a, ir, st, ime, pending)
  OBVIOUS
<1>1. ins \in Signals /\ "service" \notin ins.on
  <2>1. Tame(ins, ir, st)
    BY CyclesTame
  <2> QED BY <2>1 DEF Tame
<1>2. /\ st + 1 \notin Places(ir) => ins = Idle
      /\ st + 1 \in Places(ir) =>
           IF AtBoundary(ins) THEN ins.next = 0 \/ (ins.next = 1 /\ ~pending)
                              ELSE ins.next > st /\ ins.next + 1 \in Places(ir)
  BY InstructionTurns
<1>3. AtBoundary(ins) /\ ir = DiOp => "unset_IME" \in ins.on
  BY DiClears
<1> HIDE DEF ins
<1>4. Kept(a, ins, ir, ime, pending)
  BY <1>1, ArbitrateKeeps
<1>5. ~AtBoundary(Idle)
  BY DEF AtBoundary, Idle
<1> HIDE DEF a
<1>6. CASE st + 1 \notin Places(ir)
  BY <1>2, <1>4, <1>5, <1>6 DEF Outcome, Kept
<1>7. CASE st + 1 \in Places(ir) /\ AtBoundary(ins)
  BY <1>2, <1>3, <1>4, <1>7 DEF Outcome, Kept
<1>8. CASE st + 1 \in Places(ir) /\ ~AtBoundary(ins)
  BY <1>1, <1>2, <1>4, <1>8 DEF Outcome, Kept, AtBoundary
<1> QED BY <1>6, <1>7, <1>8

(* What a machine cycle does to the wait. *)
LEMMA LateCommit ==
  ASSUME ProgramLegal, TypeOK, TypeOK', LateInv, NEW cc \in BOOLEAN, ControlClock(Sig(cc), Pending),
         late' = IF Due /\ ~service' THEN Count(late) ELSE 0
  PROVE  LateInv'
<1> DEFINE ins == Instruction(IR, IR_prefix, state, cc, armed, Pending # {})
<1>1. /\ IR \in Opcode /\ IR_prefix \in Opcode /\ state \in State /\ armed \in BOOLEAN
      /\ intr_state \in State /\ IME \in BOOLEAN /\ wake \in BOOLEAN /\ (Pending # {}) \in BOOLEAN
      /\ service \in BOOLEAN /\ service' \in BOOLEAN /\ IME' \in BOOLEAN
  BY DEF TypeOK, ControlTypeOK
<1>2. /\ state' = Sig(cc).next
      /\ service' = ("service" \in Sig(cc).on)
      /\ IR' \in IF "fetch" \in Sig(cc).on THEN Program ELSE {IR}
      /\ IME' = ("unset_IME" \notin Sig(cc).on /\ ("set_IME" \in Sig(cc).on \/ IME))
  BY DEF ControlClock
<1>3. IR' \in Opcode \ Illegal
  BY <1>2, ControlAssumption DEF ProgramLegal, LateInv
<1>4. \A ir \in Opcode \ Illegal : 1 \in Places(ir) /\ (IF ir \in Single THEN Places(ir) = {1} ELSE 2 \in Places(ir))
  BY <1>1, InstructionTurns
<1>5. ASSUME state' \in {0, 1}
      PROVE  state' + 1 \in Places(IR') \/ (state' = 1 /\ IR' \in Single)
  BY <1>3, <1>4, <1>5
<1>6. late' = 0 \/ (Due /\ ~service' /\ late' = late + 1)
  <2>1. late \in 0..5 /\ MaxCount \in Nat /\ MaxCount > 5
    BY CountAssumption DEF LateInv
  <2> QED BY <2>1 DEF Count
<1>7. state' \in {0, 1} /\ late' = 0 => LateInv'
  BY <1>3, <1>5 DEF LateInv
<1>8. CASE service
  <2>1. Sig(cc) = Serve(intr_state)
    BY <1>8, SigCycle
  <2>2. Serve(intr_state).next = 0
    BY <1>1, ServeCycles
  <2>3. late' = 0
    BY <1>6, <1>8 DEF Due
  <2> QED BY <1>2, <1>7, <2>1, <2>2, <2>3
<1>9. CASE ~service
  <2>1. Sig(cc) = Arbitrate(ins, IR, IME, Pending # {}, wake)
    BY <1>9 DEF Sig, Outputs
  <2>2. Outcome(Sig(cc), IR, state, IME, Pending # {})
    <3>1. IR \notin Illegal
      BY DEF LateInv
    <3>2. PICK p \in BOOLEAN : p = (Pending # {})
      BY <1>1
    <3>3. Outcome(Arbitrate(Instruction(IR, IR_prefix, state, cc, armed, p), IR, IME, p, wake), IR, state, IME, p)
      BY <1>1, <3>1, Outcomes
    <3> QED BY <2>1, <3>2, <3>3
  <2>3. CASE state + 1 \notin Places(IR) /\ Sig(cc) = Idle
    <3>1. state = 1 /\ IR \in Single
      BY <2>3 DEF LateInv
    <3>2. IR' = IR /\ ~service' /\ state' = 0 /\ IME' = IME
      <4>1. Idle.on = {} /\ Idle.next = 0
        BY DEF Idle
      <4>2. Sig(cc).on = {} /\ Sig(cc).next = 0
        BY <2>3, <4>1
      <4>3. IR' = IR /\ ~service' /\ state' = 0
        BY <1>2, <4>2
      <4>4. IME' = IME
        BY <1>1, <1>2, <4>2
      <4> QED BY <4>3, <4>4
    <3>3. late' \in {0, 1} /\ (late' = 1 => IME)
      BY <1>6, <1>9, <3>1 DEF LateInv, Due
    <3>4. 0 + 1 \in Places(IR)
      BY <1>4 DEF LateInv
    <3> QED BY <3>1, <3>2, <3>3, <3>4 DEF LateInv
  <2>4. CASE /\ Sig(cc).next \in {0, 1}
             /\ IME /\ Pending # {} =>
                  "service" \in Sig(cc).on \/ (IR = DiOp /\ "unset_IME" \in Sig(cc).on)
    <3>1. state' \in {0, 1}
      BY <1>2, <2>4
    <3>2. ASSUME late' # 0 PROVE LateInv'
      <4>1. IME /\ Pending # {} /\ ~service' /\ late' = late + 1
        BY <1>6, <3>2 DEF Due
      <4>2. IR = DiOp /\ ~IME'
        BY <1>2, <2>4, <4>1
      <4>3. IR \in Single
        BY <4>2 DEF Single
      <4>4. late <= 1 - state /\ late \in 0..5
        BY <1>9, <4>1, <4>3 DEF LateInv
      <4>5. late' \in 0..5
        BY <1>1, <4>1, <4>4 DEF State
      <4> QED BY <1>3, <1>5, <3>1, <4>1, <4>2, <4>5 DEF LateInv
    <3> QED BY <1>7, <3>1, <3>2
  <2>5. CASE /\ state + 1 \in Places(IR)
             /\ Sig(cc).next > state /\ Sig(cc).next + 1 \in Places(IR)
             /\ {"fetch", "service"} \cap Sig(cc).on = {}
    <3>1. IR' = IR /\ ~service' /\ state' > state /\ state' + 1 \in Places(IR')
      BY <1>2, <2>5
    <3>2. state' \in 0..5 /\ state \in 0..5 /\ late \in 0..5
      BY DEF TypeOK, ControlTypeOK, State, LateInv
    <3>3. IR \notin Single
      BY <1>4, <3>1, <3>2 DEF LateInv
    <3>4. late' = 0 \/ (IME /\ late' = late + 1)
      BY <1>6 DEF Due
    <3>5. late' <= state' /\ late' \in 0..5
      BY <1>9, <3>1, <3>2, <3>3, <3>4 DEF LateInv
    <3> QED BY <1>3, <3>1, <3>3, <3>5 DEF LateInv
  <2> QED BY <2>2, <2>3, <2>4, <2>5 DEF Outcome
<1> QED BY <1>1, <1>8, <1>9

(* Every dot keeps LateInv: only the end of a machine cycle touches it. *)
LEMMA LateStep ==
  ASSUME ProgramLegal
  PROVE  TypeOK /\ TypeOK' /\ LateInv /\ [TimingNext]_<<vars, observers>> => LateInv'
<1> SUFFICES ASSUME TypeOK, TypeOK', LateInv, [TimingNext]_<<vars, observers>> PROVE LateInv'
  OBVIOUS
<1>1. CASE UNCHANGED <<vars, observers>>
  BY <1>1 DEF vars, controlVars, observers, LateInv
<1>2. CASE TimingNext /\ CommitStep
  <2>1. PICK req \in SUBSET Irq, lcd0 \in BOOLEAN, cc \in BOOLEAN : Commit(req, lcd0, cc)
    BY <1>2 DEF CommitStep
  <2>2. ControlClock(Sig(cc), Pending)
    BY <2>1 DEF Commit
  <2>3. late' = IF Due /\ ~service' THEN Count(late) ELSE 0
    BY <1>2 DEF TimingNext, Observe
  <2> QED BY <2>2, <2>3, LateCommit
<1>3. CASE TimingNext /\ ~CommitStep
  <2>1. UNCHANGED controlVars
    BY <1>3, Between DEF TimingNext
  <2>2. late' = late
    BY <1>3 DEF TimingNext, Observe
  <2> QED BY <2>1, <2>2 DEF controlVars, LateInv
<1> QED BY <1>1, <1>2, <1>3

(* An interrupt that is due is taken when the instruction it finds ends, six machine
   cycles at the latest, wherever in the instruction it becomes due and however the
   requests come and go, for every program of opcodes that have a pattern. *)
THEOREM InterruptsAreTaken ==
  ASSUME ProgramLegal
  PROVE  TimingSpec => []InterruptLatency
<1>1. LateInv => InterruptLatency
  BY DEF LateInv, InterruptLatency
<1>2. TypeOK /\ TypeOK' /\ LateInv /\ [TimingNext]_<<vars, observers>> => LateInv'
  BY LateStep
<1> QED BY <1>1, <1>2, LateInit, TimingTyped, PTL DEF TimingSpec
=============================================================================
