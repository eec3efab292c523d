------------------------------- MODULE OamDma -------------------------------
(***************************************************************************)
(* The memories behind the core's port, dot by dot: the access controller  *)
(* of MAC.v with work RAM and the cartridge, and the OAM, VRAM and OAM DMA *)
(* of PPU.v.  The port is driven by the program, with one access for all   *)
(* dots of a machine cycle.  The HDMA engine may take it away after any    *)
(* dot: the processor freezes in the middle of its access, the engine has  *)
(* one access for each dot, and then the same access goes on.  In stop     *)
(* nothing runs until the core wakes.  A page is named by its bus, and a   *)
(* bus has the cells of one page.                                          *)
(***************************************************************************)
EXTENDS Naturals

CONSTANTS
  Cells,        \* 0..159
  Bytes,
  Pages,        \* what the program writes to DMA: buses, or "echo" above DF
  Conflicts,    \* whether VRAM may be written while it is being copied
  EarlyWrites   \* whether the cartridge may be written before the boot ROM is locked out

ASSUME OamDmaAssumption ==
  /\ Cells \subseteq Nat /\ \E n \in Cells : Cells = 0..n
  /\ 0 \in Bytes
  /\ {Conflicts, EarlyWrites} \subseteq BOOLEAN

VARIABLES
  op,                              \* the access of the processor's machine cycle
  hdma,                            \* the access of the HDMA engine, when it has the port
  BANK_lock,
  DMA_reg, start_DMA, DMA_state, DMA_counter,
  mem, OAM

vars == <<op, hdma, BANK_lock, DMA_reg, start_DMA, DMA_state, DMA_counter, mem, OAM>>

Buses == {"cart", "wram", "vram"}
Last  == CHOOSE c \in Cells : \A d \in Cells : d <= c

(* A page above DF is read from the echo of work RAM. *)
Bus(page) == IF page = "echo" THEN "wram" ELSE page

Nothing == [kind |-> "none"]
Stop    == [kind |-> "stop"]
Write(bus, cell, byte) == [kind |-> "write", bus |-> bus, cell |-> cell, byte |-> byte]

(* Reads change nothing here. *)
Ops ==
  {Nothing, Stop, [kind |-> "lock"]}
    \union {[kind |-> "dma", page |-> p] : p \in Pages}
    \union {Write(b, c, v) : b \in Buses \union {"oam"}, c \in Cells, v \in Bytes}

Off   == [kind |-> "off"]
Recv  == [kind |-> "read"]
Sends == {Write("vram", c, v) : c \in Cells, v \in Bytes}

HdmaOps == {Off, Recv} \union Sends

port == IF hdma = Off THEN op ELSE hdma

busy == start_DMA \/ DMA_state

writes(bus) == port.kind = "write" /\ port.bus = bus
copies(bus) == DMA_state /\ Bus(DMA_reg) = bus

----------------------------------------------------------------------------
(* The bytes of a dot.  The copy takes the address of its bus, and the write
   strobe of work RAM and of the cartridge. *)

wram_we == writes("wram") /\ ~copies("wram")
cart_we == writes("cart") /\ ~copies("cart")

(* Before the lock a cartridge write is strobed by the address decode alone. *)
cart_din == IF BANK_lock THEN port.byte ELSE 0

(* VRAM's strobe is not taken. *)
vram_we(mode)   == writes("vram") /\ mode # "drawing"
vram_addr       == IF copies("vram") THEN DMA_counter ELSE port.cell

(* A faulty variant: work RAM is written, at the address of the copy. *)
MemStrobed(mode) ==
  mem' = CASE writes("wram") ->
                [mem EXCEPT !["wram"][IF copies("wram") THEN DMA_counter ELSE port.cell] = port.byte]
           [] cart_we -> [mem EXCEPT !["cart"][port.cell] = cart_din]
           [] vram_we(mode) -> [mem EXCEPT !["vram"][vram_addr] = port.byte]
           [] OTHER -> mem

Mem(mode) ==
  mem' = CASE wram_we -> [mem EXCEPT !["wram"][port.cell] = port.byte]
           [] cart_we -> [mem EXCEPT !["cart"][port.cell] = cart_din]
           [] vram_we(mode) -> [mem EXCEPT !["vram"][vram_addr] = port.byte]
           [] OTHER -> mem

Oam(mode) ==
  OAM' = CASE DMA_state -> [OAM EXCEPT ![DMA_counter] = mem[Bus(DMA_reg)][DMA_counter]]
           [] ~DMA_state /\ writes("oam") /\ mode \notin {"oamScan", "drawing"} ->
                [OAM EXCEPT ![port.cell] = port.byte]
           [] OTHER -> OAM

(* A faulty variant: the last byte is left out. *)
ClockEarly ==
  /\ start_DMA' = (op.kind = "dma" /\ op.page # "echo")
  /\ DMA_state' = (start_DMA \/ (DMA_state /\ DMA_counter + 1 # Last))
  /\ DMA_counter' = IF start_DMA \/ DMA_counter + 1 = Last THEN 0 ELSE DMA_counter + 1

(* A faulty variant: the counter is left at its end. *)
ClockPastEnd ==
  /\ start_DMA' = (op.kind = "dma" /\ op.page # "echo")
  /\ DMA_state' = (start_DMA \/ (DMA_state /\ DMA_counter # Last))
  /\ DMA_counter' = IF start_DMA THEN 0 ELSE IF DMA_state THEN DMA_counter + 1 ELSE DMA_counter

(* A faulty variant: the copy starts over at its end. *)
ClockForEver ==
  /\ start_DMA' = (op.kind = "dma" /\ op.page # "echo")
  /\ DMA_state' = busy
  /\ DMA_counter' = IF DMA_state /\ DMA_counter # Last THEN DMA_counter + 1 ELSE 0

(* The copy is clocked on the last dot of a machine cycle. *)
Clock ==
  /\ start_DMA' = (op.kind = "dma" /\ op.page # "echo")
  /\ IF start_DMA THEN DMA_state' = TRUE /\ DMA_counter' = 0
     ELSE IF DMA_state /\ DMA_counter = Last THEN DMA_state' = FALSE /\ DMA_counter' = 0
     ELSE /\ DMA_counter' = IF DMA_state THEN DMA_counter + 1 ELSE DMA_counter
          /\ UNCHANGED DMA_state

----------------------------------------------------------------------------

(* What the program leaves alone, if the constants say so.  A transfer of the HDMA
   engine writes VRAM on the dot after it reads. *)
Allowed(o) ==
  /\ ~Conflicts /\ DMA_reg' = "vram" /\ (start_DMA' \/ DMA_state') =>
       o # Recv /\ ~(o.kind = "write" /\ o.bus = "vram")
  /\ ~EarlyWrites /\ ~BANK_lock' => ~(o.kind = "write" /\ o.bus = "cart")

Modes == {"blank", "oamScan", "drawing"}

(* What the port does on every dot that clocks the memories. *)
Access ==
  /\ \E mode \in Modes : Mem(mode) /\ Oam(mode)
  /\ DMA_reg' = IF port.kind = "dma" THEN port.page ELSE DMA_reg
  /\ BANK_lock' = (BANK_lock \/ port.kind = "lock")

(* The HDMA engine reads on one dot and writes on the next.  A block begins on
   whichever dot LCD_mode turns 0, and a general purpose transfer on any. *)
Engine ==
  /\ IF hdma = Recv THEN hdma' \in Sends
     ELSE hdma' = Off \/ (hdma' = Recv /\ op'.kind # "stop")
  /\ Allowed(hdma')

(* A dot inside a machine cycle. *)
Dot ==
  /\ hdma = Off /\ op # Stop
  /\ Access
  /\ UNCHANGED <<op, start_DMA, DMA_state, DMA_counter>>
  /\ Engine

(* A dot of the HDMA engine: the processor keeps its access. *)
HdmaDot ==
  /\ hdma # Off
  /\ Access
  /\ UNCHANGED <<op, start_DMA, DMA_state, DMA_counter>>
  /\ Engine

(* The last dot of a machine cycle: cpu_en. *)
CpuDot ==
  /\ hdma = Off /\ op # Stop
  /\ Access /\ Clock
  /\ op' \in Ops /\ Allowed(op')
  /\ Engine

(* The core wakes from stop: cpu_en, for which the PPU is not clocked. *)
Wake ==
  /\ op = Stop
  /\ UNCHANGED <<BANK_lock, DMA_reg, start_DMA, DMA_state, DMA_counter, mem, OAM>>
  /\ op' \in Ops /\ Allowed(op')
  /\ Engine

Init ==
  /\ op = Nothing /\ hdma = Off /\ BANK_lock = FALSE
  /\ DMA_reg = "cart" /\ start_DMA = FALSE /\ DMA_state = FALSE /\ DMA_counter = 0
  /\ mem = [b \in Buses |-> [c \in Cells |-> 0]] /\ OAM = [c \in Cells |-> 0]

Next == Dot \/ HdmaDot \/ CpuDot \/ Wake

GiveBack == HdmaDot /\ hdma' = Off

(* The clock runs, the HDMA engine gives the port back, and a machine cycle that is
   not a stop has a last dot: CpuProgress of module Core.  Nothing says that the core
   ever wakes from stop. *)
Fairness == WF_vars(HdmaDot) /\ SF_vars(GiveBack) /\ SF_vars(CpuDot)

Spec == Init /\ [][Next]_vars /\ Fairness

----------------------------------------------------------------------------

TypeOK ==
  /\ op \in Ops /\ hdma \in HdmaOps /\ BANK_lock \in BOOLEAN
  /\ DMA_reg \in Buses \union {"echo"} /\ start_DMA \in BOOLEAN /\ DMA_state \in BOOLEAN
  /\ DMA_counter \in Cells
  /\ mem \in [Buses -> [Cells -> Bytes]] /\ OAM \in [Cells -> Bytes]

(* PPU.v:669: the accesses of the core have lower priority than those of the PPU
   and of the copy: a write reaches the cell it names, with the byte written, or
   none. *)
NoStray ==
  [][mem' # mem => /\ port.kind = "write"
                   /\ mem' = [mem EXCEPT ![port.bus][port.cell] = port.byte]]_vars

P == INSTANCE PageCopy WITH
       page <- IF busy THEN Bus(DMA_reg) ELSE "no", begun <- DMA_state /\ ~start_DMA,
       oam <- IF busy THEN <<>> ELSE OAM

(* Whatever accesses, HDMA transfers in the middle of one, stops and second requests
   come between, OAM ends as the page asked for last, as that page is then
   (PPU.v:1140-1165, MAC.v:159-178). *)
ImplementsPageCopy == P!Spec

(* When the program stops asking, and does not stay in stop, the copy comes to an
   end (PPU.v:1153; in stop the core gives no cpu_en: Core.v:280). *)
CopyEnds ==
  <>[](op.kind # "dma") /\ []<>(op # Stop) => <>[]~busy
=============================================================================
