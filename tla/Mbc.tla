--------------------------------- MODULE Mbc ---------------------------------
(***************************************************************************)
(* The cartridges of cartridge.cpp: the header's choice of a controller,   *)
(* the banking registers of NoMBC, MBC1, MBC3 and MBC5, their RAM, and the *)
(* .sav file across runs of the emulator.  A bank holds one byte: offsets  *)
(* inside a bank never meet the registers.  MBC3's clock is module Rtc.    *)
(***************************************************************************)
EXTENDS Naturals

CONSTANTS
  Cartridges,     \* [type, ram]: header byte 147 and the banks of header byte 149
  RomBanks,       \* banks of 16 KiB in the ROM
  AddrBanks,      \* banks of 8 KiB a uint16_t address can tell apart: 8
  Data,           \* bytes written to registers
  Bytes,          \* bytes written to RAM
  Upper           \* "3000" and "3001", the rest of 3001-3FFF, where ROMB1 is written

(* The types get_cartridge_from_romfile accepts; bytes; the range of ROMB1. *)
ASSUME MbcAssumption ==
  /\ Cartridges \subseteq [type : {0, 8, 9} \union (1..3) \union (15..19) \union (25..27), ram : Nat]
  /\ RomBanks \in Nat \ {0} /\ AddrBanks \in Nat \ {0}
  /\ Data \subseteq 0..255 /\ 0 \in Bytes
  /\ Upper \subseteq {"3000", "3001"}

VARIABLES
  cartridge,
  power,                         \* "on", "off" (closed) or "dead" (killed)
  has_ram, has_battery,          \* NoMBC's flag; the base class's flag hasBattery
  RAM_enable, banking_mode,
  ROM_bank,                      \* MBC1: bank_reg_low
  RAM_bank,                      \* MBC1: bank_reg_high
  RAM,                           \* bank -> byte
  file,                          \* the RAM of the .sav file, zeros if there is none
  dout,                          \* the byte read last
  wanted                         \* history: what the program wrote last to ROMB0 (lo), to
                                 \* ROMB1 (hi), and to ROMB1 at 3000 (at3000)

registers == <<RAM_enable, banking_mode, ROM_bank, RAM_bank>>
fixed     == <<cartridge, power, has_ram, has_battery>>
vars == <<fixed, registers, RAM, file, dout, wanted>>

OpenBus == 255

Kind == CASE cartridge.type \in {0, 8, 9} -> "none"
          [] cartridge.type \in 1..3 -> "MBC1"
          [] cartridge.type \in 15..19 -> "MBC3"
          [] cartridge.type \in 25..27 -> "MBC5"

mbc_has_battery ==
  cartridge.type \in {3, 6, 9, 13, 15, 16, 19, 27, 30, 34, 255}

Clear(n) == [b \in 0..(n - 1) |-> 0]

(* RAM.capacity() in banks. *)
Capacity == CASE Kind = "none" /\ has_ram -> 1
              [] Kind = "none" /\ ~has_ram -> 0
              [] OTHER -> cartridge.ram

(* A constructor leaves the flags that it copies from themselves to chance:
   has_ram in NoMBC, hasBattery in all but MBC1. *)
Start(f) ==
  /\ power' = "on"
  /\ has_ram' \in IF Kind = "none" THEN BOOLEAN ELSE {TRUE}
  /\ has_battery' \in IF Kind = "MBC1" THEN {mbc_has_battery} ELSE BOOLEAN
  /\ RAM_enable' = (Kind \in {"MBC3", "none"}) /\ banking_mode' = 0
  /\ ROM_bank' = 1 /\ RAM_bank' = 0
  /\ RAM' = CASE Kind = "none" -> Clear(IF has_ram' THEN 1 ELSE 0)
              [] Kind = "MBC5" -> Clear(cartridge.ram)
              [] OTHER -> f
  /\ wanted' = [lo |-> 1, hi |-> 0, at3000 |-> 0]
  /\ UNCHANGED <<cartridge, file, dout>>

Open == power # "on" /\ Start(file)

(* A faulty variant: ~MBC3 leaves the saving to the base destructor. *)
CloseBaseOnly ==
  /\ power = "on" /\ power' = "off"
  /\ file' = IF has_battery THEN RAM ELSE file
  /\ UNCHANGED <<cartridge, has_ram, has_battery, registers, RAM, dout, wanted>>

(* ~MBC3 saves whatever the header says; then the base destructor saves, with
   the base class's save, if it finds its flag set. *)
Close ==
  /\ power = "on" /\ power' = "off"
  /\ file' = IF Kind = "MBC3" \/ has_battery THEN RAM ELSE file
  /\ UNCHANGED <<cartridge, has_ram, has_battery, registers, RAM, dout, wanted>>

Kill ==
  /\ power = "on" /\ power' = "dead"
  /\ UNCHANGED <<cartridge, has_ram, has_battery, registers, RAM, file, dout, wanted>>

WriteEnable(d) ==
  /\ power = "on" /\ Kind # "none"
  /\ RAM_enable' = IF Kind = "MBC5" THEN d = 10 ELSE d % 16 = 10
  /\ UNCHANGED <<fixed, banking_mode, ROM_bank, RAM_bank, RAM, file, dout, wanted>>

AtLeast1(n) == IF n = 0 THEN 1 ELSE n

(* A faulty variant: the lower byte replaces the register. *)
RomBankUnmasked(a, d) ==
  CASE Kind = "MBC1" -> AtLeast1(d % 32)
    [] Kind = "MBC3" -> AtLeast1(d % 128)
    [] Kind = "MBC5" /\ a = "2000" -> d
    [] Kind = "MBC5" /\ a = "3000" -> (d % 2) * 256 + (ROM_bank % 256)
    [] OTHER -> ROM_bank

(* MBC5 compares addr <= 0x3000 where it means >=. *)
RomBank(a, d) ==
  CASE Kind = "MBC1" -> AtLeast1(d % 32)
    [] Kind = "MBC3" -> AtLeast1(d % 128)
    [] Kind = "MBC5" /\ a = "2000" -> (ROM_bank \div 256) * 256 + d
    [] Kind = "MBC5" /\ a = "3000" -> (d % 2) * 256 + (ROM_bank % 256)
    [] OTHER -> ROM_bank

WriteROMBank(a, d) ==
  /\ power = "on" /\ Kind # "none"
  /\ ROM_bank' = RomBank(a, d)
  /\ wanted' = [lo |-> IF a = "2000" THEN d ELSE wanted.lo,
                 hi |-> IF a # "2000" THEN d % 2 ELSE wanted.hi,
                 at3000 |-> IF a = "3000" THEN d % 2 ELSE wanted.at3000]
  /\ UNCHANGED <<fixed, RAM_enable, banking_mode, RAM_bank, RAM, file, dout>>

(* A faulty variant: MBC5 takes all eight bits. *)
WriteRAMBankWide(d) ==
  /\ power = "on" /\ Kind # "none"
  /\ RAM_bank' = IF Kind = "MBC1" THEN d % 4 ELSE d
  /\ UNCHANGED <<fixed, RAM_enable, banking_mode, ROM_bank, RAM, file, dout, wanted>>

WriteRAMBank(d) ==
  /\ power = "on" /\ Kind # "none"
  /\ RAM_bank' = CASE Kind = "MBC1" -> d % 4 [] Kind = "MBC5" -> d % 16 [] OTHER -> d
  /\ UNCHANGED <<fixed, RAM_enable, banking_mode, ROM_bank, RAM, file, dout, wanted>>

(* MBC3 latches its clock here. *)
WriteMode(d) ==
  /\ power = "on" /\ Kind = "MBC1"
  /\ banking_mode' = d % 2
  /\ UNCHANGED <<fixed, RAM_enable, ROM_bank, RAM_bank, RAM, file, dout, wanted>>

OnClock == Kind = "MBC3" /\ RAM_bank \in 8..12

(* The bank in A000-BFFF, before it is cut to an address. *)
RamBank == CASE Kind = "none" -> 0
             [] Kind = "MBC1" /\ banking_mode = 0 -> 0
             [] OTHER -> RAM_bank

RamAddr == (RamBank % AddrBanks) % Capacity

Usable == IF Kind = "none" THEN has_ram ELSE RAM_enable

(* Without RAM the remainder by its capacity is a division by zero. *)
Trap == power = "on" /\ Usable /\ ~OnClock /\ Capacity = 0 /\ Kill

WriteRAM(v) ==
  /\ power = "on" /\ Usable /\ ~OnClock /\ Capacity > 0
  /\ RAM' = [RAM EXCEPT ![RamAddr] = v]
  /\ UNCHANGED <<fixed, registers, file, dout, wanted>>

ReadRAM ==
  /\ power = "on" /\ ~OnClock
  /\ Usable => Capacity > 0
  /\ dout' = IF Usable THEN RAM[RamAddr] ELSE OpenBus
  /\ UNCHANGED <<fixed, registers, RAM, file, wanted>>

(* The first start, with a .sav file that an earlier session may have left. *)
Init ==
  /\ cartridge \in Cartridges
  /\ power = "on"
  /\ has_ram \in IF Kind = "none" THEN BOOLEAN ELSE {TRUE}
  /\ has_battery \in IF Kind = "MBC1" THEN {mbc_has_battery} ELSE BOOLEAN
  /\ RAM_enable = (Kind \in {"MBC3", "none"}) /\ banking_mode = 0
  /\ ROM_bank = 1 /\ RAM_bank = 0
  /\ file \in [0..(cartridge.ram - 1) -> Bytes]
  /\ RAM = CASE Kind = "none" -> Clear(Capacity)
             [] Kind = "MBC5" -> Clear(cartridge.ram)
             [] OTHER -> file
  /\ dout = OpenBus
  /\ wanted = [lo |-> 1, hi |-> 0, at3000 |-> 0]

Next ==
  \/ Open \/ Close \/ Kill \/ Trap \/ ReadRAM
  \/ \E d \in Data :
       \/ WriteEnable(d) \/ WriteRAMBank(d) \/ WriteMode(d)
       \/ \E a \in {"2000"} \cup Upper : WriteROMBank(a, d)
  \/ \E v \in Bytes : WriteRAM(v)

Spec == Init /\ [][Next]_vars

(* The banking registers keep within their bits, the memories to their banks. *)
TypeOK ==
  /\ cartridge \in Cartridges
  /\ power \in {"on", "off", "dead"}
  /\ {has_ram, has_battery, RAM_enable} \subseteq BOOLEAN
  /\ banking_mode \in {0, 1}
  /\ ROM_bank \in CASE Kind = "MBC1" -> 1..31 [] Kind = "MBC3" -> 1..127
                    [] Kind = "MBC5" -> 0..511 [] OTHER -> {1}
  /\ RAM_bank \in CASE Kind = "MBC1" -> 0..3 [] Kind = "MBC5" -> 0..15 [] OTHER -> 0..255
  /\ RAM \in [0..(Capacity - 1) -> Bytes]
  /\ dout \in Bytes \cup {OpenBus}

(* What the next start will find in RAM. *)
Kept == IF Kind \in {"MBC1", "MBC3"} THEN file ELSE Clear(cartridge.ram)

(* A write reaches the selected
   bank alone and is read back, in every order of register writes, and what a
   battery holds survives the end of the emulator (cartridge.cpp:102-152,
   320-419, 664-708, 779-857). *)
Ram == INSTANCE BatteryRam WITH
  banks <- 0..(cartridge.ram - 1), battery <- mbc_has_battery,
  enabled <- Usable /\ ~OnClock /\ cartridge.ram > 0,
  bank <- IF cartridge.ram = 0 THEN 0 ELSE RamBank % cartridge.ram,
  mem <- IF power = "on" /\ Kind # "none" THEN RAM ELSE Kept, saved <- Kept

ImplementsBatteryRam == Ram!Spec

(* The bank in MBC5's 4000-7FFF is the one whose halves the program wrote last,
   whatever it wrote of them, wherever, and in either order: a write of one leaves
   the other alone, and one above 3000 both (cartridge.cpp:660, 685-696). *)
HalvesApart ==
  Kind = "MBC5" => ROM_bank % RomBanks = (256 * wanted.at3000 + wanted.lo) % RomBanks

(* hardware.inc:822 gives the high bit of the bank the range 3000-3FFF. *)
RomWindow ==
  Kind = "MBC5" => ROM_bank % RomBanks = (256 * wanted.hi + wanted.lo) % RomBanks
=============================================================================
