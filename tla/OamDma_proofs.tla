--------------------------- MODULE OamDma_proofs ----------------------------
(***************************************************************************)
(* The copy implements PageCopy for pages of every size, which TLC checks  *)
(* for two bytes.  Two facts carry the proof: what is written on the dot   *)
(* comes from the bus of the page, and nothing writes to that bus while it *)
(* is copied, so that the bytes copied so far are those of the page now.   *)
(***************************************************************************)
EXTENDS OamDma, TLAPS

LEMMA LastCell ==
  /\ Last \in Cells /\ 0 \in Cells /\ Cells \subseteq Nat
  /\ \A c \in Cells : c <= Last /\ (c # Last => c + 1 \in Cells)
<1>1. PICK n \in Nat : Cells = 0..n
  BY OamDmaAssumption
<1>2. \E c \in Cells : \A d \in Cells : d <= c
  <2>1. n \in Cells /\ \A d \in Cells : d <= n
    BY <1>1, SMT
  <2> QED BY <2>1
<1>3. Last \in Cells /\ \A d \in Cells : d <= Last
  BY <1>2, Zenon DEF Last
<1> QED BY <1>1, <1>3, SMT

(* An access names its bus, cell and byte. *)
LEMMA Fields ==
  ASSUME NEW o \in Ops \union HdmaOps
  PROVE  /\ o.kind = "write" => o.bus \in Buses \union {"oam"} /\ o.cell \in Cells /\ o.byte \in Bytes
         /\ o.kind = "dma" => o.page \in Pages /\ o \in Ops
<1>1. CASE o \in {Nothing, Stop, [kind |-> "lock"], Off, Recv}
  BY <1>1, SMT DEF Nothing, Stop, Off, Recv
<1>2. CASE o \in {[kind |-> "dma", page |-> p] : p \in Pages}
  BY <1>2, SMT DEF Ops
<1>3. CASE o \in {Write(b, c, v) : b \in Buses \union {"oam"}, c \in Cells, v \in Bytes}
  <2>1. PICK b \in Buses \union {"oam"}, c \in Cells, v \in Bytes : o = Write(b, c, v)
    BY <1>3
  <2>2. o.kind = "write" /\ o.bus = b /\ o.cell = c /\ o.byte = v
    BY <2>1 DEF Write
  <2>3. o.kind # "dma" /\ o.bus \in Buses \union {"oam"} /\ o.cell \in Cells /\ o.byte \in Bytes
    BY <2>1, <2>2
  <2> QED BY <2>3
<1>4. CASE o \in Sends
  <2>1. PICK c \in Cells, v \in Bytes : o = Write("vram", c, v)
    BY <1>4 DEF Sends
  <2>2. o.kind = "write" /\ o.bus = "vram" /\ o.cell = c /\ o.byte = v
    BY <2>1 DEF Write
  <2>3. o.kind # "dma" /\ o.bus \in Buses \union {"oam"} /\ o.cell \in Cells /\ o.byte \in Bytes
    BY <2>1, <2>2 DEF Buses
  <2> QED BY <2>3
<1> QED BY <1>1, <1>2, <1>3, <1>4 DEF Ops, HdmaOps

(* The port carries the processor's access when the engine has none. *)
LEMMA Port ==
  ASSUME op \in Ops, hdma \in HdmaOps
  PROVE  /\ port \in Ops \union HdmaOps
         /\ port = op \/ (port = hdma /\ hdma # Off)
         /\ port.kind = "dma" => port = op /\ port.page \in Pages
<1>1. port = op \/ (port = hdma /\ hdma # Off)
  BY DEF port
<1>2. port = hdma => port.kind # "dma"
  BY SMT DEF HdmaOps, Sends, Off, Recv, Write
<1> QED BY <1>1, <1>2, Fields

----------------------------------------------------------------------------

(* What the program leaves alone, on every dot. *)
LeavesAlone(o) ==
  /\ DMA_reg = "vram" /\ busy => ~(o.kind = "write" /\ o.bus = "vram")
  /\ ~BANK_lock => ~(o.kind = "write" /\ o.bus = "cart")

Quiet == DMA_reg \in Buses /\ LeavesAlone(op) /\ LeavesAlone(hdma)

(* The cells below the counter hold the page's bytes, unless another page has been
   asked for. *)
Copied ==
  DMA_state /\ ~start_DMA /\ op.kind # "dma" =>
    \A c \in Cells : c < DMA_counter => OAM[c] = mem[DMA_reg][c]

IInv == TypeOK /\ Quiet /\ Copied

LEMMA InitInv == Init => IInv
<1> SUFFICES ASSUME Init PROVE IInv
  OBVIOUS
<1>1. op \in Ops /\ op.kind = "none" /\ hdma \in HdmaOps /\ hdma.kind = "off"
  BY DEF Init, Ops, Nothing, HdmaOps, Off
<1>2. /\ BANK_lock \in BOOLEAN /\ start_DMA \in BOOLEAN /\ DMA_state \in BOOLEAN
  BY Zenon DEF Init
<1>3. /\ DMA_reg \in Buses /\ DMA_counter \in Cells
      /\ mem \in [Buses -> [Cells -> Bytes]] /\ OAM \in [Cells -> Bytes]
  BY LastCell, OamDmaAssumption, SMT DEF Init, Buses
<1>4. ~DMA_state /\ ~start_DMA
  BY DEF Init
<1> QED BY <1>1, <1>2, <1>3, <1>4 DEF IInv, TypeOK, Quiet, LeavesAlone, Copied

(* A dot writes the cell that the access names with its byte, and never on the
   bus of a copy. *)
LEMMA MemStep ==
  ASSUME TypeOK, Quiet, NEW mode, Mem(mode)
  PROVE  \/ mem' = mem
         \/ /\ port.kind = "write" /\ port.bus \in Buses /\ port.cell \in Cells /\ port.byte \in Bytes
            /\ mem' = [mem EXCEPT ![port.bus][port.cell] = port.byte]
            /\ DMA_state => port.bus # DMA_reg
<1>0. LeavesAlone(port)
  BY Port DEF TypeOK, Quiet
<1>1. Bus(DMA_reg) = DMA_reg
  BY DEF Quiet, Bus, Buses
<1>2. writes("cart") => cart_din = port.byte
  BY <1>0 DEF LeavesAlone, writes, cart_din
<1>3. writes("vram") => ~copies("vram") /\ vram_addr = port.cell
  BY <1>0, <1>1 DEF LeavesAlone, writes, copies, busy, vram_addr
<1>4. \A b \in Buses : writes(b) => port.kind = "write" /\ port.bus = b /\ port.cell \in Cells /\ port.byte \in Bytes
  BY Port, Fields DEF TypeOK, writes
<1>5. CASE wram_we
  <2>1. mem' = [mem EXCEPT !["wram"][port.cell] = port.byte]
    <3>1. ~cart_we /\ ~vram_we(mode)
      BY <1>5 DEF wram_we, cart_we, vram_we, writes
    <3> QED BY <1>5, <3>1, Zenon DEF Mem
  <2> QED BY <1>1, <1>4, <1>5, <2>1 DEF wram_we, copies, Buses
<1>6. CASE ~wram_we /\ cart_we
  <2>0. ~vram_we(mode)
    BY <1>6 DEF cart_we, vram_we, writes
  <2>1. mem' = [mem EXCEPT !["cart"][port.cell] = cart_din]
    BY <1>6, <2>0, Zenon DEF Mem
  <2> QED BY <1>1, <1>2, <1>4, <1>6, <2>1 DEF cart_we, copies, Buses
<1>7. CASE ~wram_we /\ ~cart_we /\ vram_we(mode)
  <2>1. mem' = [mem EXCEPT !["vram"][vram_addr] = port.byte]
    BY <1>7, Zenon DEF Mem
  <2> QED BY <1>1, <1>3, <1>4, <1>7, <2>1 DEF vram_we, copies, Buses
<1>8. CASE ~wram_we /\ ~cart_we /\ ~vram_we(mode)
  BY <1>8, Zenon DEF Mem
<1> QED BY <1>5, <1>6, <1>7, <1>8

LEMMA OamStep ==
  ASSUME TypeOK, Quiet, NEW mode, Oam(mode)
  PROVE  /\ DMA_state => OAM' = [OAM EXCEPT ![DMA_counter] = mem[DMA_reg][DMA_counter]]
         /\ ~DMA_state => \/ OAM' = OAM
                          \/ /\ port.kind = "write" /\ port.cell \in Cells /\ port.byte \in Bytes
                             /\ OAM' = [OAM EXCEPT ![port.cell] = port.byte]
<1>1. Bus(DMA_reg) = DMA_reg
  BY DEF Quiet, Bus, Buses
<1>2. ASSUME DMA_state
      PROVE  OAM' = [OAM EXCEPT ![DMA_counter] = mem[DMA_reg][DMA_counter]]
  BY <1>1, <1>2, Zenon DEF Oam
<1>3. ASSUME ~DMA_state, writes("oam") /\ mode \notin {"oamScan", "drawing"}
      PROVE  OAM' = [OAM EXCEPT ![port.cell] = port.byte]
  BY <1>3, Zenon DEF Oam
<1>4. ASSUME ~DMA_state, ~(writes("oam") /\ mode \notin {"oamScan", "drawing"})
      PROVE  OAM' = OAM
  BY <1>4, Zenon DEF Oam
<1>5. writes("oam") => port.kind = "write" /\ port.cell \in Cells /\ port.byte \in Bytes
  BY Port, Fields DEF TypeOK, writes
<1> QED BY <1>2, <1>3, <1>4, <1>5
(* A dot on which neither the PPU nor the processor's access is clocked. *)
Asleep ==
  op = Stop /\ UNCHANGED <<BANK_lock, DMA_reg, start_DMA, DMA_state, DMA_counter, mem, OAM>>

(* The copy is clocked as a machine cycle ends, and neither for the HDMA engine's
   dots nor as the core wakes. *)
LEMMA Steps ==
  ASSUME Next, op \in Ops
  PROVE  /\ op' \in Ops /\ hdma' \in HdmaOps /\ Allowed(hdma')
         /\ \/ Access /\ op' = op /\ UNCHANGED <<start_DMA, DMA_state, DMA_counter>>
            \/ Access /\ Clock /\ port = op /\ Allowed(op')
            \/ Asleep /\ Allowed(op')
<1>1. Engine => hdma' \in HdmaOps /\ Allowed(hdma')
  BY Zenon DEF Engine, HdmaOps
<1>2. CASE Dot
  BY <1>1, <1>2 DEF Dot
<1>3. CASE HdmaDot
  BY <1>1, <1>3 DEF HdmaDot
<1>4. CASE CpuDot
  BY <1>1, <1>4 DEF CpuDot, port
<1>5. CASE Wake
  BY <1>1, <1>5 DEF Wake, Asleep
<1> QED BY <1>2, <1>3, <1>4, <1>5 DEF Next

(* The theorems are about programs that write neither VRAM while it is copied, by
   themselves or by HDMA, nor the cartridge before the lock, and ask for no page
   above DF. *)
Careful == Pages \subseteq Buses /\ ~Conflicts /\ ~EarlyWrites

LEMMA StepTyped == Careful /\ TypeOK /\ Quiet /\ Next => TypeOK'
<1> SUFFICES ASSUME Careful, TypeOK, Quiet, Next PROVE TypeOK'
  OBVIOUS
<1>0. op \in Ops /\ hdma \in HdmaOps /\ op' \in Ops /\ hdma' \in HdmaOps
  BY Steps DEF TypeOK
<1>1. CASE Asleep
  BY <1>0, <1>1 DEF Asleep, TypeOK
<1>2. CASE Access
  <2>1. PICK mode \in Modes : Mem(mode) /\ Oam(mode)
    BY <1>2 DEF Access
  <2>2. BANK_lock' \in BOOLEAN
    BY <1>2, Zenon DEF Access
  <2>3. DMA_reg' \in Buses \union {"echo"}
    BY <1>0, <1>2, Port DEF Access, TypeOK, Careful
  <2>4. start_DMA' \in BOOLEAN /\ DMA_state' \in BOOLEAN
    BY <1>0, Steps, Zenon DEF Clock, TypeOK, Asleep
  <2>5. DMA_counter' \in Cells
    <3>1. CASE Clock
      BY <3>1, LastCell DEF Clock, TypeOK
    <3> QED BY <1>0, <3>1, Steps DEF TypeOK, Asleep
  <2>6. mem' \in [Buses -> [Cells -> Bytes]]
    <3>1. CASE mem' = mem
      BY <3>1 DEF TypeOK
    <3>2. CASE mem' # mem
      <4>1. /\ port.bus \in Buses /\ port.cell \in Cells /\ port.byte \in Bytes
            /\ mem' = [mem EXCEPT ![port.bus] = [mem[port.bus] EXCEPT ![port.cell] = port.byte]]
        BY <2>1, <3>2, MemStep
      <4>2. mem[port.bus] \in [Cells -> Bytes]
        BY <4>1 DEF TypeOK
      <4>3. [mem[port.bus] EXCEPT ![port.cell] = port.byte] \in [Cells -> Bytes]
        BY <4>1, <4>2
      <4> QED BY <4>1, <4>3 DEF TypeOK
    <3> QED BY <3>1, <3>2
  <2>7. OAM' \in [Cells -> Bytes]
    <3>1. mem[DMA_reg][DMA_counter] \in Bytes /\ DMA_counter \in Cells
      BY DEF TypeOK, Quiet
    <3> QED BY <2>1, <3>1, OamStep DEF TypeOK
  <2> QED BY <1>0, <2>2, <2>3, <2>4, <2>5, <2>6, <2>7 DEF TypeOK
<1> QED BY <1>0, <1>1, <1>2, Steps

LEMMA StepQuiet == Careful /\ TypeOK /\ Quiet /\ Next => Quiet'
<1> SUFFICES ASSUME Careful, TypeOK, Quiet, Next PROVE Quiet'
  OBVIOUS
<1>0. op \in Ops /\ hdma \in HdmaOps
  BY DEF TypeOK
<1>1. DMA_reg' \in Buses
  <2>1. CASE Access
    BY <1>0, <2>1, Port DEF Access, Careful, Quiet
  <2> QED BY <1>0, <2>1, Steps DEF Asleep, Quiet
<1>2. Allowed(hdma') => LeavesAlone(hdma)'
  BY <1>1 DEF LeavesAlone, Allowed, Careful, busy
<1>3. Allowed(op') => LeavesAlone(op)'
  BY <1>1 DEF LeavesAlone, Allowed, Careful, busy
<1>4. ASSUME Access, op' = op, UNCHANGED <<start_DMA, DMA_state>>
      PROVE  LeavesAlone(op)'
  <2>1. CASE op.kind = "write"
    <3>1. port.kind \notin {"dma", "lock"}
      BY <1>0, <2>1, SMT DEF port, HdmaOps, Sends, Off, Recv, Write
    <3>2. DMA_reg' = DMA_reg /\ (BANK_lock' = BANK_lock) /\ busy' = busy
      BY <1>4, <3>1 DEF Access, busy, TypeOK
    <3> QED BY <1>4, <3>2 DEF Quiet, LeavesAlone
  <2> QED BY <1>4, <2>1 DEF LeavesAlone
<1> QED BY <1>0, <1>1, <1>2, <1>3, <1>4, Steps DEF Quiet

LEMMA StepCopied == Careful /\ IInv /\ Next => Copied'
<1> SUFFICES ASSUME Careful, IInv, Next, DMA_state', ~start_DMA', op'.kind # "dma",
                    NEW c \in Cells, c < DMA_counter'
             PROVE  (OAM[c] = mem[DMA_reg][c])'
  BY DEF Copied
<1> USE DEF IInv
<1>0. op \in Ops /\ hdma \in HdmaOps
  BY DEF TypeOK
<1>1. CASE Asleep
  <2>1. op.kind # "dma"
    BY <1>1 DEF Asleep, Stop
  <2> QED BY <1>1, <2>1 DEF Asleep, Copied
<1>2. CASE ~Asleep
  <2>0. Access
    BY <1>0, <1>2, Steps
  <2>1. PICK mode \in Modes : Mem(mode) /\ Oam(mode)
    BY <2>0 DEF Access
  <2>2. op.kind # "dma"
    <3>1. op.kind = "dma" => op.page # "echo"
      BY <1>0, Fields DEF Careful, Buses
    <3> QED BY <1>0, <1>2, <3>1, Steps DEF Clock
  <2>3. DMA_reg' = DMA_reg /\ DMA_reg \in Buses
    BY <1>0, <2>0, <2>2, Port DEF Access, Quiet
  <2>4. DMA_state /\ ~start_DMA
    <3>1. ~(c < 0)
      BY LastCell, SMT
    <3>2. CASE start_DMA
      BY <1>0, <1>2, <3>1, <3>2, Steps DEF Clock
    <3>3. CASE ~start_DMA
      BY <1>0, <1>2, <3>3, Steps DEF Clock
    <3> QED BY <3>2, <3>3
  <2>5. mem'[DMA_reg] = mem[DMA_reg]
    BY <2>1, <2>3, <2>4, MemStep DEF TypeOK
  <2>6. OAM' = [OAM EXCEPT ![DMA_counter] = mem[DMA_reg][DMA_counter]]
    BY <2>1, <2>4, OamStep
  <2>7. c = DMA_counter \/ c < DMA_counter
    BY <1>0, <1>2, <2>4, LastCell, Steps, SMT DEF Clock, TypeOK
  <2> QED BY <2>2, <2>3, <2>4, <2>5, <2>6, <2>7 DEF Copied, TypeOK
<1> QED BY <1>1, <1>2

LEMMA StepInv == Careful /\ IInv /\ [Next]_vars => IInv'
<1>1. Careful /\ IInv /\ Next => IInv'
  BY StepTyped, StepQuiet, StepCopied DEF IInv
<1>2. IInv /\ UNCHANGED vars => IInv'
  BY DEF IInv, TypeOK, Quiet, LeavesAlone, Copied, vars, busy
<1> QED BY <1>1, <1>2

(* The types, the engine's counter within the page for any page size
   (PPU.v:1153-1165). *)
THEOREM OamDmaTyped ==
  ASSUME Careful
  PROVE  Spec => []TypeOK
<1>1. IInv => TypeOK
  BY DEF IInv
<1>2. IInv /\ [Next]_vars => IInv'
  BY StepInv
<1> QED BY <1>1, <1>2, InitInv, PTL DEF Spec

(* For memories of any size and any bytes, no write goes astray: it reaches the
   cell it names, with the byte written, or none (PPU.v:669). *)
THEOREM NoWriteAstray ==
  ASSUME Careful
  PROVE  Spec => NoStray
<1>1. IInv /\ [Next]_vars =>
        [mem' # mem => /\ port.kind = "write"
                       /\ mem' = [mem EXCEPT ![port.bus][port.cell] = port.byte]]_vars
  <2> SUFFICES ASSUME IInv, Next, mem' # mem
               PROVE  /\ port.kind = "write"
                      /\ mem' = [mem EXCEPT ![port.bus][port.cell] = port.byte]
    BY DEF vars
  <2>1. PICK mode \in Modes : Mem(mode)
    BY Steps DEF IInv, TypeOK, Access, Asleep
  <2> QED BY <2>1, MemStep DEF IInv
<1>2. IInv /\ [Next]_vars => IInv'
  BY StepInv
<1> QED BY <1>1, <1>2, InitInv, PTL DEF Spec, NoStray

----------------------------------------------------------------------------

Page  == IF busy THEN Bus(DMA_reg) ELSE "no"
Begun == DMA_state /\ ~start_DMA
Seen  == IF busy THEN <<>> ELSE OAM

(* Every dot is a step of the one copy there is, and of the memories. *)
LEMMA StepCopy == Careful /\ IInv /\ Next =>
                    /\ \/ P!Ask \/ P!Begin \/ P!Finish \/ P!WriteOam
                       \/ UNCHANGED <<Page, Begun, Seen>>
                    /\ P!WriteMem \/ UNCHANGED mem
<1> SUFFICES ASSUME Careful, IInv, Next
             PROVE  /\ \/ P!Ask \/ P!Begin \/ P!Finish \/ P!WriteOam
                       \/ UNCHANGED <<Page, Begun, Seen>>
                    /\ P!WriteMem \/ UNCHANGED mem
  OBVIOUS
<1> USE DEF IInv
<1>0. CASE Asleep
  <2>1. UNCHANGED <<Page, Begun, Seen, mem>>
    BY <1>0 DEF Asleep, Page, Begun, Seen, busy
  <2> QED BY <2>1
<1> SUFFICES ASSUME ~Asleep
             PROVE  /\ \/ P!Ask \/ P!Begin \/ P!Finish \/ P!WriteOam
                       \/ UNCHANGED <<Page, Begun, Seen>>
                    /\ P!WriteMem \/ UNCHANGED mem
  BY <1>0
<1>1. op \in Ops /\ hdma \in HdmaOps /\ DMA_reg \in Buses /\ Bus(DMA_reg) = DMA_reg
  BY DEF TypeOK, Quiet, Bus, Buses
<1>2. DMA_reg' \in Buses /\ Bus(DMA_reg)' = DMA_reg'
  BY StepQuiet DEF Quiet, Bus, Buses
<1>3. Access
  BY <1>1, Steps
<1>4. PICK mode \in Modes : Mem(mode) /\ Oam(mode)
  BY <1>3 DEF Access
<1>5. P!WriteMem \/ UNCHANGED mem
  <2>1. SUFFICES ASSUME mem' # mem PROVE P!WriteMem
    OBVIOUS
  <2>2. /\ port.bus \in Buses /\ port.cell \in Cells /\ port.byte \in Bytes
        /\ mem' = [mem EXCEPT ![port.bus][port.cell] = port.byte]
        /\ DMA_state => port.bus # DMA_reg
    BY <1>4, <2>1, MemStep
  <2>3. port.bus = Page => ~Begun
    BY <1>1, <2>2 DEF Page, Begun, busy
  <2> QED BY <2>2, <2>3 DEF P!WriteMem, Page, Begun
<1>6. CASE ~busy /\ ~busy'
  <2>1. Page = "no" /\ Page' = "no" /\ Begun' = Begun /\ Seen = OAM /\ Seen' = OAM'
    BY <1>6 DEF Page, Begun, Seen, busy
  <2>2. CASE OAM' = OAM
    BY <1>5, <2>1, <2>2
  <2>3. CASE OAM' # OAM
    <3>1. port.cell \in Cells /\ port.byte \in Bytes /\ OAM' = [OAM EXCEPT ![port.cell] = port.byte]
      BY <1>4, <1>6, <2>3, OamStep DEF busy
    <3>2. P!WriteOam
      BY <2>1, <3>1, Zenon DEF P!WriteOam, Page, Begun, Seen
    <3> QED BY <1>5, <3>2
  <2> QED BY <2>2, <2>3
<1>7. CASE op.kind = "dma"
  <2>1. op.page \in Buses /\ op.page # "echo"
    BY <1>1, <1>7, Fields DEF Careful, Buses
  <2>2. CASE Clock
    <3>1. start_DMA' /\ busy' /\ Page' \in Buses /\ Seen' = <<>> /\ ~Begun'
      BY <1>2, <1>7, <2>1, <2>2 DEF Clock, Page, Seen, Begun, busy
    <3> QED BY <1>5, <3>1, Zenon DEF P!Ask, P!Hidden, Page, Begun, Seen
  <2>3. CASE UNCHANGED <<start_DMA, DMA_state, DMA_counter>>
    <3>1. busy' = busy /\ Begun' = Begun
      BY <2>3 DEF busy, Begun
    <3>2. CASE busy
      <4>1. Page' \in Buses /\ Seen' = <<>>
        BY <1>2, <3>1, <3>2 DEF Page, Seen
      <4> QED BY <1>5, <3>1, <4>1, Zenon DEF P!Ask, P!Hidden, Page, Begun, Seen
    <3> QED BY <1>6, <3>1, <3>2
  <2> QED BY <1>1, <1>7, <2>2, <2>3, Steps
<1>8. CASE op.kind # "dma"
  <2>1. DMA_reg' = DMA_reg
    BY <1>1, <1>3, <1>8, Port DEF Access
  <2>3. CASE UNCHANGED <<start_DMA, DMA_state, DMA_counter>>
    <3>1. busy' = busy /\ Begun' = Begun
      BY <2>3 DEF busy, Begun
    <3>2. CASE busy
      <4>1. UNCHANGED <<Page, Begun, Seen>>
        BY <2>1, <3>1, <3>2 DEF Page, Seen, Bus
      <4> QED BY <1>5, <4>1
    <3> QED BY <1>6, <3>1, <3>2
  <2>4. CASE Clock /\ start_DMA
    <3>1. busy /\ busy' /\ Begun'
      BY <1>8, <2>4 DEF Clock, busy, Begun
    <3>2. Page' = Page /\ Page # "no" /\ Seen' = Seen
      BY <1>1, <2>1, <3>1 DEF Page, Seen, Bus, Buses
    <3> QED BY <1>5, <3>1, <3>2, Zenon DEF P!Begin, Page, Begun, Seen
  <2>5. CASE Clock /\ ~start_DMA /\ DMA_state /\ DMA_counter = Last
    <3>1. Begun /\ ~Begun' /\ busy /\ ~busy'
      BY <1>8, <2>5 DEF Clock, busy, Begun
    <3>2. Page = DMA_reg /\ Page' = "no" /\ Seen' = OAM'
      BY <1>1, <3>1 DEF Page, Seen
    <3>3. OAM' = mem[DMA_reg]
      <4>1. OAM' = [OAM EXCEPT ![DMA_counter] = mem[DMA_reg][DMA_counter]]
        BY <1>4, <2>5, OamStep
      <4>2. OAM \in [Cells -> Bytes] /\ mem[DMA_reg] \in [Cells -> Bytes]
        BY <1>1 DEF TypeOK
      <4>3. ASSUME NEW c \in Cells PROVE OAM'[c] = mem[DMA_reg][c]
        <5>1. c = DMA_counter \/ c < DMA_counter
          BY <2>5, LastCell, SMT
        <5> QED BY <1>8, <2>5, <4>1, <4>2, <5>1 DEF Copied
      <4>4. OAM' \in [Cells -> Bytes]
        BY StepTyped DEF TypeOK
      <4> QED BY <4>2, <4>3, <4>4
    <3> QED BY <1>5, <3>1, <3>2, <3>3, Zenon DEF P!Finish, Page, Begun, Seen
  <2>6. CASE Clock /\ ~start_DMA /\ DMA_state /\ DMA_counter # Last
    <3>1. busy /\ busy' /\ Begun' = Begun
      BY <1>8, <2>6 DEF Clock, busy, Begun
    <3>2. UNCHANGED <<Page, Begun, Seen>>
      BY <2>1, <3>1 DEF Page, Seen, Bus
    <3> QED BY <1>5, <3>2
  <2>7. CASE Clock /\ ~start_DMA /\ ~DMA_state
    <3>1. ~busy /\ ~busy'
      BY <1>8, <2>7 DEF Clock, busy
    <3> QED BY <1>6, <3>1
  <2> QED BY <1>1, <1>8, <2>3, <2>4, <2>5, <2>6, <2>7, Steps
<1> QED BY <1>7, <1>8

(* For pages and memories of any size, OAM ends as the page asked for last, as that
   page is then, whatever accesses, HDMA transfers in the middle of one, stops and
   second requests come between (PPU.v:1140-1165, MAC.v:159-178). *)
THEOREM CopiesPages ==
  ASSUME Careful
  PROVE  Spec => ImplementsPageCopy
<1>1. Init => P!Init
  BY DEF Init, P!Init, Page, Begun, busy
<1>2. IInv /\ [Next]_vars => [P!Next]_(P!vars)
  <2>1. UNCHANGED vars => UNCHANGED P!vars
    BY DEF vars, P!vars, busy, Bus
  <2>2. ASSUME IInv, Next PROVE P!Next
    BY <2>2, StepCopy, Zenon DEF P!Next, Page, Begun, Seen
  <2> QED BY <2>1, <2>2
<1>3. IInv /\ [Next]_vars => IInv'
  BY StepInv
<1> QED BY <1>1, <1>2, <1>3, InitInv, PTL DEF Spec, ImplementsPageCopy, P!Spec
=============================================================================
