# FPGbC in TLA+

A model of the Game Boy Color of this repository: TLA+ modules translated from
the Verilog and from the C++ testbench, TLC runs that check them on
small instances, and TLAPS proofs of what holds for every instance.

## 1. The system

One clock drives everything; `ClockDivider` gives a *dot* enable (always 1 in
`System.v`), and the core derives from it `cpu_en`, one dot per *machine cycle*
(every 4 dots, 2 at double speed). All modules are synchronous: a combinational
block computes the next values, a clock edge stores them. "Concurrency" is many
state machines on one edge, with different enables, joined by wires.

| part | state | operations | talks to |
|---|---|---|---|
| Control unit (`ControlUnit.v`, `PriorityEncoder5.v`) | `IR`, `IR_prefix`, `state`, `intr_state`, `service_interrupt`, `IME`, `ack_IF` | one machine cycle of an instruction or of the interrupt sequence | core: control signals out, `IE`, `IF`, `KEY1`, `wake`, data in |
| Core (`Core.v`) | `cpu_phase`, `IF`, `IE`, `KEY1`, `sig_wake`, HDMA registers and state, HRAM | a dot: count, latch requests, stop/halt/HDMA gating, register writes | bus to all peripherals, `cpu_en`, `stop`, `dbl_spd` |
| Register file, IDU, ALU, condition check | registers, flags | write a register, step an address, compute | driven by the control signals |
| Timer (`Timer.v`) | `SYS_COUNT`, `TIMA`, `TMA`, `TAC`, edge detectors | a machine cycle, register writes, stop | `time_intr`, `div_apu_event` |
| Serial (`Serial.v`) | `SB`, `SC`, divider, bit count | shift, register writes | `seri_intr`, link pins |
| Joypad (`Joypad.v`) | `JOYP` | sample the wires, select | `joyp_intr`, the wires of the testbench |
| PPU (`PPU.v`) | LCD mode and line, OAM, VRAM, palettes, fetcher, FIFOs, OAM DMA | a dot of each mode, register writes, DMA byte | `vblank_intr`, `stat_intr`, `LCD_mode`, MAC |
| MAC (`MAC.v`) | `BANK` lock, `SVBK`, WRAM | route a CPU or DMA access | cartridge bus |
| APU (`APU.v`, `Chan1-4.v`) | channel counters, sequencer | sequencer event, register writes | DACs |
| Software cartridge (`cartridge.cpp`) | bank registers, RAM, MBC3 clock | read, write, latch, save, restore | called by the testbench each dot |
| Testbench (`main.cpp`) | place in the frame buffer, keys, printer's byte, audio accumulator, queue and worker thread | a clock with all its pins, poll, audio worker, the end | all pins, SDL |
| Translators, assembler, scripts | none | text | - |

Where it is hard:

* **Ordering within the interrupt path.** The control unit reads `IE & IF` in
  three different cycles of a service, while requests, acknowledgements, register
  writes and freezes change them on any dot.
* **Sleep.** `halt` and `stop` are left by an *edge* caught in a flag that every
  machine cycle clears.
* **Enables derived from state.** HDMA stops the processor by its own clock
  enable; `KEY1` changes the length of the machine cycle that writes it.
* **Edge detectors.** Timer, APU pacing, serial port and interrupt latch all
  compare a wire with its value one step ago; writes and selector changes forge
  or hide edges.
* **Deadlines and handshakes** in the PPU, **shared buses** under OAM DMA,
  **saturating and wrapping counters** in the APU, **save and restart** of the
  MBC3 clock, **a condition variable** in the audio worker.

What makes each part correct, beyond its type: *control unit*: every opcode has
the cycles and effects of its reference; services only with IME. *Core*: no
request lost, no wake-up lost, cycles of the right length, HDMA moves each byte
once and gives the bus back. *Timer*: exact rate, one interrupt per overflow.
*Serial*: a transfer exchanges exactly one byte. *PPU*: modes reach their
deadlines, FIFOs neither overflow nor wait for ever. *MAC/OAM DMA*: 160 bytes,
each once, one master per bus. *APU*: a disabled channel stays silent, lengths
expire. *Cartridge*: bank in range, the clock advances by the time elapsed.
*Testbench*: pixels, printed bytes and samples are those the console put out, in order;
the worker terminates.

## 2. What is modelled

| module | models | shape |
|---|---|---|
| `Sequencer` | the `casez` table and the interrupt sequence of `ControlUnit.v` | pure operators: an instruction is the tuple of its machine cycles, a cycle a record of control signals |
| `ControlUnit` | its registers and clock edge | `ControlClock`, conjoined by the core to the dot that ends a cycle |
| `Core` | `Core.v` | one step per dot: `Commit`, `Hold`, `HdmaRead`, `HdmaWrite` |
| `Transfer` | what HDMA promises | abstract specification, implemented by `Core` |
| `CoreTiming` | nothing of the code | `Core` with history variables that count dots and cycles |
| `Timer` | `Timer.v` | one step per machine cycle: quiet, stop, or a register write |
| `Interval` | what the timer counter promises | abstract specification, implemented by `Timer` |
| `TimerTiming` | nothing of the code | `Timer` with the ages of its last events |
| `Serial` | `Serial.v` | one step per machine cycle: a cycle of a transfer, quiet, or a register write |
| `Exchange` | what one port promises | abstract specification, implemented by `Serial` |
| `SerialLink` | two consoles on a cable | `Serial` and an instance of it on its pins, each with its own oscillator |
| `Rtc` | the MBC3 clock of `cartridge.cpp` | one step per register write of the program, second of the host, start and end of the emulator |
| `Clock` | what that clock promises | abstract specification, implemented by `Rtc` |
| `SerialPrinter` | the `PRINT_SERIAL` block of `main.cpp` | conjoined to each step of `Serial` |
| `Mbc` | `NoMBC`, `MBC1`, `MBC3`, `MBC5` of `cartridge.cpp` but the clock | one step per register or RAM access; start, end and kill of the emulator |
| `BatteryRam` | what a cartridge promises of its RAM | abstract specification, implemented by `Mbc` |
| `Ppu` | the picture side of `PPU.v` | one step per dot: scan, start of drawing, drawing, hblank, vblank; register writes |
| `Screen` | the frame decoder of `main.cpp` | conjoined to each dot of `Ppu`, and to each clock on which the PPU is frozen |
| `Raster` | what the screen promises | abstract specification, implemented by `Screen` |
| `OamDma` | `MAC.v` and the OAM, VRAM and OAM DMA of `PPU.v` | one step per dot: inside a machine cycle, at its end, or of the HDMA engine; waking from stop |
| `PageCopy` | what OAM DMA promises | abstract specification, implemented by `OamDma` |
| `Testbench` | the loop of `main.cpp` and its audio worker; `Joypad.v` | one step per stage of a pass, or of the worker |
| `AudioStream` | what the audio device is promised | abstract specification, implemented by `Testbench` |
| `*_proofs` | - | theorems |
| `MC_*` | - | instances for TLC |

### Control unit

`Cycles(ir, irp, cc, armed, pending)` is the `casez` statement. Its arguments are
everything the table looks at: the opcode, the CB opcode, the outcome of the
condition, `KEY1[0]`, and whether `IE & IF` is non-empty. A state missing from a
`case (state)` gets `Idle`, the defaults at the head of the block, as the code's
`default:;` does; the eleven unassigned opcodes match nothing and get an empty
tuple, so they fetch nothing for ever. The CB page, the service sequence
(`Serve`) and the final arbitration (`Arbitrate`) are complete. Left out: ALU
operation, flag masks and constants, which decide a byte and never the control.

`vec` is an observer: which source's vector was put in `PCL`. `ack` holds a set,
like the one-hot `ack_IF`, and 7, what `PriorityEncoder5` says of no request.

### Core

A step is one dot. `Frozen`, `CpuEn` and `Enable` are `~cpu_active`, `cpu_en` and
`cpu_en & enable_controller`. `Commit` is the dot with the controller enabled,
and makes every assignment of that edge: request latch, wake flag, phase,
register writes, HDMA command, control unit. `Hold` is every other dot that is
not the engine's. Register writes are combinational in the code and so happen on
every dot of the writing cycle, except HDMA5, which is gated by `cpu_en`.

The environment picks, every dot, the set of raised request lines and whether the
LCD is in mode 0; a fetch finds any opcode of `Program`; a condition is true or
false; a write goes to any register of `Targets`, with any value of the fields it
decodes (`WritesTo`), fixed for the machine cycle (`bus`). Pushes of an interrupt
go to `StackTargets`, since SP may point anywhere.

Reset is only asserted before the first cycle (`main.cpp:389-397`), so it is
`Init` and not an action. Data bytes, HRAM, the addresses in HDMA1-4 and reads are
not part of the state.

### HDMA as a refinement

`Transfer` knows bytes left, kind, and the count software reads. The mapping is
`left = (remaining + 1) * BlockLen - count` while active, 0 otherwise; `cpu` is
the control unit's state. So the refinement says at once that the block and byte
counters never disagree, that no byte is skipped or repeated, that the end is
noticed, that only hblank transfers are called off, and that the processor does
not move during a general-purpose transfer.

### Timer

Everything is a falling-edge detector: a register holds the watched bit of the
last cycle. `Advance` is what every cycle does, the actions add the write. The
tap of each `TAC` selection, and the widths, are constants. `TimaNegedge` is the
pending overflow: the abstract `due` of `Interval`. `dbl_spd` only selects an
output, so `Timer` takes it as an argument of `ApuEvent` and `TimerTiming`
chooses it afresh in every cycle.

### Serial

A port samples `sdi` on rising edges of its clock and counts on falling ones, so
`SB_reg` and `count` agree only between them. `Exchange` knows the bits received
and the bits still to be counted; the mapping takes `count` and the level of the
clock. The port alone takes the two input wires as free choices, with one
assumption, `IdleLow`: the other side's clock is low when a transfer starts.
Without it the transfer ends after `Width - 1` shifts (section 3).

`SerialLink` removes the free choices: the port, A, has that of a second console, B, on its pins.
A machine cycle of A and one of B are separate steps, neither console running more
than `Drift` cycles while the other runs none. A gives the clock and its program starts
only when B is armed, which is up to the programs and not to the port.
`sentA`, `sentB` and `swapping` are history: the bytes to be swapped, and an exchange
that B has not ended.

### MBC3 clock

`Rtc` keeps the registers as the code does (`hidden`, `latched`; the halt, carry
and top day bits of DH as fields) and the host clock only as `age`, the seconds
since `last_update`. `Updated` is `update_time`, with its division towards zero
and its parameters narrowed to `uint8_t`. `Close` is both destructors: `~MBC3`
saves RAM and clock, then `~Cartridge` saves the RAM alone over it if `hasBattery`
is true. That member is never initialised (the constructor's parameter hides it),
so its value is a free choice from `Battery`; likewise the registers when there was no
file (`Garbage`).

`Clock` is a number of seconds modulo its period, and a wrap flag. The
mapping is `Pending`: what the registers would say if they were updated now.

### Cartridges

`Mbc` has one register file for the four classes, with the masks of each; a bank
holds one byte, since an offset in a bank never meets a register. `Start` is a
constructor, `Close` the two destructors, `Kill` any other end. Flags that a
constructor copies from themselves (`has_ram` of `NoMBC` at `cartridge.cpp:19`,
`hasBattery` of all but MBC1) are free choices. `Trap` is the remainder by a
capacity of zero (`:341`), which ends the process. `wanted` is history: the two
halves of the ROM bank as written, the upper one anywhere in 3000-3FFF and at 3000. The mapping to `BatteryRam` takes the RAM
while the power is on, and what the next start will find otherwise.

Assumed of the instance, because the promise does not hold without it: no cartridge
of type 27, whose constructor makes its RAM anew after the base class loaded it
(`:846`), nor of types 8 and 9, whose save is never loaded; no 16 banks of RAM,
which the 16-bit address of `:670` cannot tell apart (`AddrBanks`). A kill in the middle of `save`,
which truncates the file first, is not modelled.

### Picture

`Ppu` follows a line dot by dot. A pixel is named by its place in the maps, so a
wrong tile, row or column shows as a wrong name; tile data, palettes and mixing
are not modelled. The fetcher is a pair of a layer and a step, the FIFOs are
sequences, `pipe` is the four stages the data enables go through. Objects are
counted by the scan; an object's x is chosen when the output arrives there, which
is every placement, found late. `shown` is history, for `TopObject`.

`Screen` conjoins the host's decoder, which sees `de`, `hsync` and `vsync`
and nothing else. The mapping to `Raster` is the decoder's place in the frame;
`Picture` is what a line should hold, from the registers alone. Registers are written and the
LCD is switched off only while no line is drawn. A `stop` that is not armed takes the PPU's
enable away (`SoC.v:66`) while the host's loop goes on (`Frozen`): it holds `de`, `hsync` and `vsync` as they are. `StopModes` are the modes
in which the program may do that; in all but drawing `de` is off and the host only waits (section 3 says what happens in drawing). Three things the code does are
in `Picture` as they are: a window left of the edge (`WX < 7`) starts with its
first pixel at column 0, one right of the screen (`WX >= Width + Lead`; at one less the trigger is still met, with the last column) takes no row of the window, and
one enabled after line `WY` is not shown in that frame. The first
frame after a reset has no line 0, because the LCD starts in hblank of it (`SkipLine`).

### OAM DMA and the memories

`op` is the program's access, the same on all dots of a machine cycle, and `hdma` what the
HDMA engine does with the dot, if it has it; `port` is whichever of the two is on the memories' pins.
A transfer begins on any dot, since the core gives the engine the bus when `LCD_mode` turns 0
(`Core.v:302-312`): between the dots of one access, say after `DMA_reg` was written and before `start_DMA` is set. The
processor keeps its access and the same one goes on afterwards. `Mem` and `Oam` are the
write strobes and address multiplexers of a dot, `Clock` the DMA registers at
`cpu_en`. In `stop` (`Stop`) neither `cpu_en` nor the PPU's enable comes, and only `Wake` leaves it, in
which the PPU has no dot. A bus has the cells of one page; an HDMA read meets whatever the
copy has on its bus and changes no memory, so the byte it sends is a free choice.

`PageCopy` makes the whole copy in one step, at its end. The mapping
hides OAM while the engine is busy. Assumed of the program: it asks for no page
above DF (`Pages`), writes no VRAM while that is copied, nor by an HDMA transfer (`Conflicts`), and no cartridge
register before the boot ROM is locked out (`EarlyWrites`); section 3 says what
happens otherwise. SVBK and VBK stay as they are.

### Testbench

A pass of the loop is cut where another actor can come between: the clock edge,
the audio frame, the notification, and the rest. The worker is cut at the mutex, at
the test of the predicate and at the sleep, which releases the mutex in the same
step; `Locked` is who holds it. `threaded` is `THREAD_AUDIO`, chosen at the start. `Filter` is
`process_frame` and `dac_to_audio`: a frame is the number of its dot, the accumulator counts in units of
1/`Q`. `missed` is history: the worker was between its test and its sleep when the
only notification of the end came.

Keys pressed and released between two polls are not seen, as in the code. The queue
has no bound but the length of the run (`main.cpp:580` pushes without looking).
Frames still queued and samples of a block begun are dropped at the end. `SerialPrinter` and `Screen` are
the other consumers of the pins, each conjoined to the part it watches.

## 3. Runs

| run | instance | asks |
|---|---|---|
| `core_irq` | 3 lines, `ei di halt inc [hl]`, writes to IF and IE | services only under IME; nothing lost between choice of vector and handler |
| `core_hdma` | 4 block values, 3 bytes a block, `nop stop halt ldh [c],a`, writes to HDMA5 and KEY1 | types; `WaitIsForHblank`; no forgotten wake-up; `ImplementsTransfer`, with its fairness; an awake processor's machine cycles go on ending |
| `core_timing` | the 5- and 6-cycle instructions under interrupts and speed changes; no write to HDMA5 | cycle length 4 or 2 dots; latency at most 5 cycle ends |
| `timer` | TIMA of 2 bits, divider of 4, two taps, speed free in every cycle | overflow detection, `ImplementsInterval`, `KeepsOverflowing`, exact tick rate, APU events under speed changes |
| `serial` | 3 bits, clocks of 4 and 8 cycles | `ImplementsExchange`, `TransferEnds`; the printer prints what is sent |
| `serial_link` | 2 bits, drift of 2 cycles | the bytes are swapped; both sides end |
| `rtc` | a minute of 2 s, an hour of 2 min, a day of 1 h, 4 days; 7 s without update | types; `ImplementsClock`, across restarts |
| `mbc` | nine cartridges of the four controllers, four bytes for registers | `ImplementsBatteryRam`; the ROM bank in two halves |
| `screen` | 10 columns, 2 lines and one of vblank, 24 settings of scroll and window, one object; stops and LCD off between lines | `ImplementsRaster` |
| `objects` | one line, two objects, five settings, opaque and patterned rows | the right object on top; the line drawn in time |
| `oam_dma` | 2 cells a page, 2 bytes, three buses | `ImplementsPageCopy`, `NoStray`, under HDMA dots anywhere; the copy ends |
| `testbench` | 11 passes, 5 frames to 2 samples, blocks of 2, a poll every 4 dots, 2 wires | `ImplementsAudioStream`, no sleep over frames, buttons, the join |

Why the bounds are enough. *Lines*: the encoder only compares two sources, and a
third lets one be masked while another is served. *Opcodes*: the core sees an
instruction only through its signals; the programs hold one opcode for each
signal the run is about (service boundary, sleep, stop, IME both ways, a write, a
read-modify-write), and the longest instructions for latency. *Blocks and bytes*:
counters wrap and differ from each other (3 bytes, 4 block values, both a
transfer of one block and of three). *Timer*: the fastest tap of the code and the
slowest bit of the divider; the period of the APU's events is the whole divider, 16 cycles of
double speed, and the speed may change in each of them; the wrap of TIMA, of the divider, and both in one
cycle occur. *Serial*: the bit counter wraps and both clocks have several cycles
per level, which is all an edge detector can tell. *Clock*: each unit is a factor
of its own, a wrap of the days is reached within one update, and `MaxAge` is
more than a day; it stays below 256 days (`Byte` days in the instance), the assumption under which
`add_to_days` can hold the argument. `MaxCount` stops the history counters of `CoreTiming` above every
value a property distinguishes. `core_timing` has no HDMA transfers, whose dots its properties do not count; `core_hdma` has them,
and the theorems of section 4 cover every program. *Cartridges*: `NoMBC`, and each other class without RAM and with
two banks, MBC1 and MBC3 also with one; the bytes 0, 1, 10 and 35 hit and miss the enable value and the masks, and 0
asks for bank 0. Both kinds of address of the upper bank register are written. *Screen*: ten columns hold more than a tile, so a line takes three fetches;
every setting can follow every other on the next line, the second line is also the
last, and the window begins at each kind of place. *Objects*: two objects at the same,
adjacent, overlapping and separate columns, and partly left of the screen; the time of
a line is a bound per object (`DrawBound`), tight in the instance, that leaves 81 dots
with the hardware's ten. *OAM DMA*: two cells
are a first and a last one; the proof is for any number. *Testbench*: two blocks
and both parities of the sample interval; `MAX_CYCLES` is the code's own limit
(`CYCLE_LIMIT`), and polling divides the run unevenly. No other bound is imposed: all counters wrap as
in the code, only narrower.

No run disables the deadlock check: the oscillator never stops, and the ended process
is a state of its own (`Ended`). With `missed` the main thread waits for ever while
the worker may still wake spuriously, which is a step.

### Fairness

`WF_vars(Next)` in `Core`: dots go on happening, which is the clock itself
(`SoC.v:57-72` feeds the core an enable that nothing gates). Which dot happens is
decided by state and inputs, never by fairness. `Timer` has the same for machine
cycles, which is what `CpuProgress` shows of the core. `Serial` has
the same for its cycles, and `TransferEnds` speaks of its own clock only; in
`SerialLink` there is only one weak fairness per oscillator, and the clock of B is A's.
`OamDma` is weakly fair to the HDMA engine's dots and strongly to its giving the
bus back and to the last dot of a machine cycle, which is `CpuProgress` of `Core`, checked there. Like `CpuProgress` it exempts
`stop`: `Wake` has no fairness, and `CopyEnds` supposes that the processor does not stay there.
`Testbench` is weakly fair to each of the two threads, which the system schedules; the mutex is
not fair and a spurious wake-up need never come, and `JoinReturns` uses neither.
`Rtc`, `Mbc` and `Screen` have none: their properties are safety. The abstract `Transfer`
promises progress only for general-purpose transfers; hblank ones wait for an LCD
that may be off.

### Disagreements

Sentences of the repository that its code does not bear out. Each is a definition of its module and
no run's: it fails, and TLC gives the shortest trace with the constants named here.

* `Core!HandlerIsAcknowledged`: VBlank (0) arrives after the vector of STAT (1) was
  chosen and before the acknowledgement: STAT's handler runs, VBlank's flag is
  cleared, STAT runs again and VBlank's handler never does. (`NIrq = 2`, `Program =
  {0, 226, 251}`, `Targets = {"IE"}`.)
* `Core!SleeperWakes`: the request rose one cycle before `halt` slept; only the next
  edge of some line will wake it. (`NIrq = 1`, `Program = {0, 118, 226}`.)
* `Core!AwakeMovesOn`: a line that is not enabled wakes `halt`; the opcode fetched
  enters at S1, and its first cycle is skipped. (`NIrq = 1`, `Program = {0, 4, 118}`.)
* `CoreTiming!StopSwitchesSpeed`: the toggle happens on each dot of the `stop` cycle; after
  an even number of them the speed is what it was. (`TimingSpec`, `Program = {0, 16, 226}`, `Targets =
  {"KEY1"}`, `MaxCount = 7`.)
* `Rtc!ClockSurvives`: the base destructor overwrites the save file without the clock
  whenever the uninitialised `hasBattery` is true. (`Battery = {TRUE, FALSE}`.)
* `Mbc!RomWindow` (in the place of `HalvesApart` in `MC_Mbc.cfg`): `hardware.inc:822` gives the upper
  bank register 3000-3FFF, and the code compares `addr <= 0x3000` (`cartridge.cpp:693`), so that a write above 3000 changes nothing.
* `Ppu!NextIsWindow`: `PPU.v:733` says that the pixel after `WX` is the window's
  first; with `WX = 8` the pixel at `WX` is already. (`Settings <- EdgeSettings` in `MC_Objects`.)
* `OamDma!NoStray` fails with `Conflicts = TRUE`: the strobes of a write to VRAM
  stay set while the copy takes the address (`PPU.v:669` says otherwise), for the program's writes and for the HDMA engine's; and with `EarlyWrites = TRUE`:
  the cartridge is strobed by the address alone, with data 0 (`MAC.v:119`).

For the `Core` ones not otherwise stated: `StackTargets = {"mem"}`, `Lengths = {0}`,
`Blocks = 2`, `BlockLen = 2`, `Prefixes = {0}`. Met while modelling, without a definition: `KEY1_n = alu_out &
~KEY1_mask` with mask `7E` keeps bit 7, so a write changes the speed that
`hardware.inc:578` calls read-only; a host clock set back by a second makes
`update_time` add 255 (`Rtc` with -1 in `Steps`); `main.cpp:585` passes the left
channel twice where `:903` passes both; a `stop` that is not armed while pixels go out holds `de`, and every
pass of the loop writes a pixel and moves the column on (`main.cpp:659-674`): with "drawing" in `StopModes`, `ImplementsRaster` fails.

## 4. Proofs

All proofs are of the modules' own specifications, for all values of the constants within
the assumptions named in the modules (`ControlAssumption`, `CoreAssumption`, `CountAssumption`,
`TimerAssumption`, `TimingAssumption`, `SerialAssumption`, `LinkAssumption`, `RtcAssumption`, `MbcAssumption`,
`PpuAssumption`, `ScreenAssumption`, `OamDmaAssumption`, `TestbenchAssumption`). A theorem that needs more says so in its
statement: `ProgramLegal`, `IdleLow`, `DriftsLittle`, `Faithful`, `Careful`, `CarefulWithLCD`, and those of `Rtc`
and `Core` below.

**`Core_proofs`, the microprogram.** Three facts about the table, by cases over the decoder:
`CyclesTame` (only `di` clears IME, only block 01 and `stop` sleep, a cycle that writes does
nothing else), `WritesFixed` (whether a cycle writes depends on the opcode and state only, not on
the inputs) and `InstructionTurns` (every cycle of an assigned opcode that is no boundary leads to a
later one that exists, so a boundary comes within six cycles).

**`Core_proofs`, interrupts and sleep.** `Typed`: type correctness. `NeedsIME`: `ServiceNeedsIME` is
inductive with types, because the only opcode that clears IME is exempt from
starting a service, and during a service only its last cycle clears it.
`HasRequest` and `KeepsFlag` need `RequestInv`: during a service nothing is waiting to be
acknowledged, and no write to IF or IE is on the bus. The second part is an
assumption about the program, `StackIsMemory` (the stack is not at FF0F or FFFF);
without it a push can cancel the request that is served. `WaitsForHblank` and
`WakeUpIsKept` follow from the shape of single steps.

**`Core_proofs`, HDMA.** `Refines`: initial states map to initial states and every
step to a step of `Transfer` or a stutter. `HeldInv` is the inductive part: while
a general-purpose transfer is active the processor is not in a sleeping cycle, so
every dot belongs to the engine. `LeftPositive` and three lemmas about products
and remainders do the arithmetic. `Transfer`'s fairness stays with TLC.

**`Core_proofs`, time.** `MachineCycleLength`: `CycleInv` ties the dots counted to the phase and to
the speed at which the cycle began; the phase counter wraps after its last value even if a write to
KEY1 changes the limit on the way, which is why the cycle under way keeps its length.
`InterruptsAreTaken`: `LateInv` bounds the wait by the state of the instruction, and `InstructionTurns`
makes the state grow until a boundary, where only `di` can decline. It needs `ProgramLegal`, no
unassigned opcode in the program: such an opcode fetches nothing for ever, in the code as on the
hardware.

**`Timer_proofs`**. `EdgeOverflow`: `EdgeIsOverflow` is inductive with types: a
tick requires `div_tick` and clears it, so the cycle after the tick that wraps
TIMA has no tick. `RefinesInterval` follows step by step. `TicksKeepTheirPeriod`: the age of the
last tick is the phase of the divider within the period of the selected tap (`TickInv`).
`ApuEventsKeepTheirPeriod`: `ApuInv` ties the age of the last event to the phase of both taps, and `ApuTimeInv` the time
since it, counted in cycles of double speed, to that phase and to how often the speed changed. So an event comes when exactly
one period has passed, at either speed; one change moves it by half a period at most, because the
other tap falls at the start of the same period or in its middle.

**`Serial_proofs`**. `RefinesExchange`, under `IdleLow`. The inductive part beyond
types is `ClockInv`: what `sck_reg` and the divider can be between transfers, so that
the first edge of a transfer rises. Counting a bit and shifting it are then two steps
of `Exchange` in the right order. `PrintsTheByte`, of `Serial` with the printer: as many bits are
in `sdata` as the port has clocked out, they are the first of the byte written, and what is left of the
byte stands at the head of SB (`InStep`); between transfers the printer holds nothing (`Blank`).
`LinkSwaps`, of two ports on a cable, for every width, tap and schedule within `DriftsLittle`: neither console runs
more cycles alone than the fast clock stays at a level. `LinkInv` has two parts. `WireInv` is about time: A sees
an edge in the next cycle, and while B has not seen it, fewer cycles have passed since (`Since`) than A has run
alone (`lead`), so B sees it before the level changes again (`EdgesAreSeen`). `AHolds` and `BHolds` are about data: a
register that has shifted n bits holds the rest of its own byte and the first n of the other's (`Holds`), and both
sides have counted the same edges but for the one on the wire; once A has ended, B may wait for the last
edge, be done, or be armed again. The hypothesis cannot be dropped: with a drift of three cycles and two cycles to a
level, TLC shows a lost bit.

**`Rtc_proofs`**. The chain `AddDaysAdds`, `AddHoursAdds`, ... shows that each `add_to_` function
adds its seconds to `Total` up to `Period` times a number of wraps, which is positive
exactly when the carry bit is set; `UpdateKeeps` that an update leaves `Pending` alone. Lengths of
minute, hour and day are arbitrary, so products are handled by `Distribute`,
`Division` and `Wraps`. `StepMaps` is the step-by-step refinement; `RefinesClock`
adds that a closed emulator has saved its clock, which needs `Battery = {FALSE}`,
and all three assume that the host clock is not set back (`Steps = {1}`).

**`Mbc_proofs`**. `MbcTyped`: `MbcInv` adds to the types the shape of the save file and the one flag that
the constructors of MBC1 do set. `HalvesAreApart`: an MBC5's bank register is the low byte last written and the high
bit last written at 3000 (`Selected`), whatever else the program writes. `KeepsBatteryRam`: each step maps to one of `BatteryRam`,
for the cartridges of `Faithful`: without types 8, 9 and 27 and with a RAM size that divides the address
space (section 2 says what the code does with the others). The bank arithmetic is `Remainder`.

**`Ppu_proofs`, deadlines.** `LinesTyped` and `LinesAreInTime`, for any screen, number of objects and
writes between lines. The invariant `LineIInv` is `Shapes` (types, the shapes of the FIFOs and that the slots
an object's row leaves alone exist), `ScanInv` (a dot for each entry looked at and three more for each
object, so the scan is over before dot `ScanDots`), `LineInv` (line and dot counters of each mode) and
`DrawInv`. Its core is `dot_counter + DotsLeft <= ScanDots + DrawBound`: `DotsLeft` adds what is left of columns and
scroll, the dots the objects on the line (`Held`) and the window (`WindowDots`) will still hold the output,
and the stages behind (`Drain`). Every dot takes one off, `LeftMoves`, because nothing else can hold the output: the
background is pushed before the FIFO is empty (`Due < Len(bgr_fifo)`), which is the argument that
the comment at `PPU.v:1074-1084` makes in prose. `PpuAssumption` asks that the sums fit a line; the
hardware's numbers do (40 + 30 < 80 dots of scan; 80 + 160 + 8 + 7 + 4 + 5 + 110 < 456).

**`Ppu_proofs`, the object on top.** `TopObjectIsSent`, for any number of objects and any rows. `TopInv` says that
*every* slot of the object FIFO is right for the column it will be sent with (`SlotsRight`), not only the head
that the property speaks of. `MergeRight` is the heart: a row merged under either priority leaves every
slot right. That needs two things of the past: an object fetched later at the same x is later in OAM and none is fetched
twice (`Passed`), and the slots chosen in the merge step are still the right ones in the push, a dot later (`Merging`).
It needs `DrawInv` as well: the start of a line flushes the FIFO before the first object is pushed.

**`Ppu_proofs`, the screen.** `RefinesRaster`: the initial states and each step of PPU and host map to those of
`Raster`, for any screen, objects and registers that `CarefulWithLCD` admits. `ScreenInv`, on top
of `LineIInv`, follows each background and window pixel from the map to the frame buffer. `StripInv`: a layer is one
strip of pixels, of which `Brought` were fetched and `Taken` have left the FIFO; the FIFO holds those in between, and the
tile at each stage of the fetch is the next of the strip. `ScrolledColumn` is the arithmetic that makes
column `c` pixel `c + SCX % 8` of the strip, round the end of the map too. `RowInv`: the window takes over at
`WX` and not later, and its row is the number of lines that showed it. `CursorInv`: what the pipe holds are
the next pixels of the picture, and between lines the host's cursor and the two syncs agree with `LY`. A step then
puts the pixel that leaves the pipe (`RasterPuts`), presents, skips the line 0 a reset lacks, or rests.
Between lines the pipe is empty, so a frozen PPU leaves the host where it is (`FrozenOnScreen`).
`CarefulWithLCD` leaves out four things, and TLC breaks the property or a conjunct of the invariant with each: the LCD switched off while a line is
drawn; a stop then; `WX = 8` with a scroll that is no multiple of 8 (section 3, `NextIsWindow`); and `WX` in the four columns
behind the last (168 to 171), where the trigger still finds the output and counts a row that no one sees.
The constants of the run satisfy it.

**`OamDma_proofs`**. `CopiesPages` and `NoWriteAstray`, for pages of any size and any bytes, under
`Careful`, the assumptions on the program above. The inductive invariant has two parts
beyond types: `Quiet` (neither the program's
access, kept through a transfer, nor the HDMA engine's writes VRAM while it is copied, or the cartridge before the lock) and `Copied`
(the cells below the counter hold what the page holds now, unless another
page has been asked for). `Copied` is needed because the abstract copy is one step: the last dot must find every
earlier byte still right. `MemStep` says what one dot can do to the memories.

**`Testbench_proofs`**. `NeverSleepsOverFrames` rests on what `TypeInv` remembers of the worker's
last look at the queue. `ShowsButtons` needs that the wires are right at the end of each pass. `StreamsAudio`, for any
ratio of the rates, any block and run: `StreamInv` says that the accumulator is exactly the
frames filtered so far less the samples made (`acc + Count * P = n * Q`, so nothing drifts) and that
the queue and the worker's hand hold the frames in between, none missing or twice. `FrameOf` turns
the equation into the number of the frame a sample is made from.

Only model-checked: `CpuProgress`, `KeepsOverflowing`, `TransferEnds`, `ExchangeEnds`, `CopyEnds`, `JoinReturns`
and the fairness of `Transfer`: liveness under fairness is out of the prover's reach.

## 5. Plan

In this order; each line is a module with what it asks and what is worth proving. The
runs stay a dozen: a component that joins shares a run with what it is composed with.

1. `Machine`: `Core` with `Timer` and the joypad's line, dot by dot: the request of
   an overflow under HDMA freezes and TIMA writes. Would take the place of `timer`.
2. `Microprogram`: symbolic execution of every opcode through `Sequencer`, the
   register file and the IDU, against a reference of operands, stack effect, length
   and successor. Pure operators.
3. The STAT line of `PPU.v` (`Ppu` has its modes), and register writes while a line is drawn.
4. `Apu`: sequencer, length, envelope and sweep units.
5. `Alu`: operators against reference arithmetic.
6. The windows that `CarefulWithLCD` leaves out: say in `Picture` what the code shows there.

## 6. Not modelled

* *APU, ALU, register file*: planned above. In `Core` registers are the names a cycle
  writes, and the outcome of a condition is free.
* *Tile data, palettes, colour mixing, sound mixing*: arithmetic without control.
* *Data bytes in the core's registers and HRAM, addresses in HDMA1-4*: they decide no step.
* *SDL, window, pacing, logs, command line, file errors*: library calls around the loop; a failed
  open or a short file ends or skips the step it is in.
* *`System.v`, `SoC.v`, the clock divider*: wiring, with a ratio of 1 in the only instance.
* *`MBC.v`*: compiled out by `CART_MODULE`.
* *Waveform translators, assembler, scripts, vendored headers*: no state that interacts.
