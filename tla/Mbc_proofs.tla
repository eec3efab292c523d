----------------------------- MODULE Mbc_proofs -----------------------------
(***************************************************************************)
(* The cartridges' memories for every number of banks, and the promise of  *)
(* BatteryRam for every cartridge that keeps it.                           *)
(***************************************************************************)
EXTENDS Mbc, TLAPS

(* Quotient and remainder are unique. *)
LEMMA Remainder ==
  ASSUME NEW x \in Nat, NEW n \in Nat, NEW d \in Nat \ {0}, NEW r \in 0..(d - 1), x = d * n + r
  PROVE  x \div d = n /\ x % d = r
<1>1. x \div d = n
  BY SMT
<1>2. x % d = x - d * (x \div d)
  BY SMT
<1> QED BY <1>1, <1>2, SMT

LEMMA Divided ==
  ASSUME NEW x \in Nat, NEW d \in Nat \ {0}
  PROVE  x \div d \in Nat /\ x % d \in 0..(d - 1) /\ x = d * (x \div d) + (x % d)
BY SMT

(* Cutting a number to a multiple of d first does not change its remainder. *)
LEMMA CutTwice ==
  ASSUME NEW n \in Nat, NEW m \in Nat \ {0}, NEW d \in Nat \ {0}, m % d = 0
  PROVE  (n % m) % d = n % d
<1>1. PICK q \in Nat, r \in 0..(m - 1) : r = n % m /\ n = m * q + r
  BY Divided
<1>2. PICK k \in Nat : m = d * k
  <2>1. m = d * (m \div d) + (m % d) /\ m \div d \in Nat
    BY Divided
  <2> QED BY <2>1
<1>3. PICK j \in Nat, s \in 0..(d - 1) : s = r % d /\ r = d * j + s
  <2>1. r \in Nat
    BY <1>1
  <2> QED BY <2>1, Divided
<1>4. PICK l \in Nat : l = k * q /\ m * q = d * l
  <2>1. k * q \in Nat /\ (d * k) * q = d * (k * q)
    BY SMT
  <2> QED BY <1>2, <2>1
<1>5. d * (l + j) = d * l + d * j /\ l + j \in Nat /\ n \in Nat
  BY SMT
<1>6. n = d * (l + j) + s
  <2>1. d * l \in Nat /\ d * j \in Nat /\ s \in Nat
    BY SMT
  <2>2. n = d * l + (d * j + s)
    BY <1>1, <1>3, <1>4
  <2> QED BY <1>5, <2>1, <2>2
<1>7. n % d = s
  BY <1>5, <1>6, Remainder
<1> QED BY <1>1, <1>3, <1>7

----------------------------------------------------------------------------

(* The type of the cartridge decides its controller. *)
LEMMA Kinds ==
  ASSUME cartridge \in Cartridges
  PROVE  /\ cartridge.ram \in Nat /\ cartridge.type \in Nat
         /\ Kind \in {"none", "MBC1", "MBC3", "MBC5"}
         /\ Kind = "none" <=> cartridge.type \in {0, 8, 9}
         /\ Kind = "MBC1" <=> cartridge.type \in 1..3
         /\ Kind = "MBC3" <=> cartridge.type \in 15..19
         /\ Kind = "MBC5" <=> cartridge.type \in 25..27
<1> DEFINE t == cartridge.type
           none == t \in {0, 8, 9}
           mbc1 == t \in 1..3
           mbc3 == t \in 15..19
           mbc5 == t \in 25..27
<1>1. cartridge.ram \in Nat /\ t \in Nat /\ (none \/ mbc1 \/ mbc3 \/ mbc5)
  BY MbcAssumption
<1>2. CASE none
  <2>1. ~mbc1 /\ ~mbc3 /\ ~mbc5
    BY <1>2
  <2>2. Kind = "none"
    BY <1>2, <2>1, Zenon DEF Kind
  <2> QED BY <1>1, <1>2, <2>1, <2>2
<1>3. CASE mbc1
  <2>1. ~none /\ ~mbc3 /\ ~mbc5
    BY <1>3
  <2>2. Kind = "MBC1"
    BY <1>3, <2>1, Zenon DEF Kind
  <2> QED BY <1>1, <1>3, <2>1, <2>2
<1>4. CASE mbc3
  <2>1. ~none /\ ~mbc1 /\ ~mbc5
    BY <1>4
  <2>2. Kind = "MBC3"
    BY <1>4, <2>1, Zenon DEF Kind
  <2> QED BY <1>1, <1>4, <2>1, <2>2
<1>5. CASE mbc5
  <2>1. ~none /\ ~mbc1 /\ ~mbc3
    BY <1>5
  <2>2. Kind = "MBC5"
    BY <1>5, <2>1, Zenon DEF Kind
  <2> QED BY <1>1, <1>5, <2>1, <2>2
<1> QED BY <1>1, <1>2, <1>3, <1>4, <1>5

(* How many banks of RAM there are. *)
LEMMA Capacities ==
  ASSUME has_ram \in BOOLEAN
  PROVE  /\ Kind = "none" => Capacity = IF has_ram THEN 1 ELSE 0
         /\ Kind # "none" => Capacity = cartridge.ram
<1>1. CASE Kind = "none" /\ has_ram
  BY <1>1, Zenon DEF Capacity
<1>2. CASE Kind = "none" /\ ~has_ram
  BY <1>2, Zenon DEF Capacity
<1>3. CASE Kind # "none"
  <2>1. Capacity = cartridge.ram
    BY <1>3, Zenon DEF Capacity
  <2> QED BY <1>3, <2>1
<1> QED BY <1>1, <1>2, <1>3

(* What a write to the ROM bank selects. *)
LEMMA RomBanked ==
  ASSUME NEW a, NEW d
  PROVE  /\ Kind = "MBC1" => RomBank(a, d) = AtLeast1(d % 32)
         /\ Kind = "MBC3" => RomBank(a, d) = AtLeast1(d % 128)
         /\ Kind = "MBC5" /\ a = "2000" => RomBank(a, d) = (ROM_bank \div 256) * 256 + d
         /\ Kind = "MBC5" /\ a = "3000" => RomBank(a, d) = (d % 2) * 256 + (ROM_bank % 256)
         /\ Kind = "MBC5" /\ a \notin {"2000", "3000"} => RomBank(a, d) = ROM_bank
<1>1. Kind = "MBC1" => RomBank(a, d) = AtLeast1(d % 32)
  BY Zenon DEF RomBank
<1>2. Kind = "MBC3" => RomBank(a, d) = AtLeast1(d % 128)
  BY Zenon DEF RomBank
<1>3. Kind = "MBC5" /\ a = "2000" => RomBank(a, d) = (ROM_bank \div 256) * 256 + d
  BY Zenon DEF RomBank
<1>4. Kind = "MBC5" /\ a = "3000" => RomBank(a, d) = (d % 2) * 256 + (ROM_bank % 256)
  BY Zenon DEF RomBank
<1>5. Kind = "MBC5" /\ a \notin {"2000", "3000"} => RomBank(a, d) = ROM_bank
  BY Zenon DEF RomBank
<1> QED BY <1>1, <1>2, <1>3, <1>4, <1>5, Zenon

(* What a write to the RAM bank selects. *)
LEMMA RamBanked ==
  ASSUME NEW d, WriteRAMBank(d)
  PROVE  /\ Kind = "MBC1" => RAM_bank' = d % 4
         /\ Kind = "MBC5" => RAM_bank' = d % 16
         /\ Kind \notin {"MBC1", "MBC5"} => RAM_bank' = d
BY Zenon DEF WriteRAMBank

(* Which bank is in A000-BFFF. *)
LEMMA RamWindow ==
  /\ Kind = "none" => RamBank = 0
  /\ Kind # "none" => RamBank = IF Kind = "MBC1" /\ banking_mode = 0 THEN 0 ELSE RAM_bank
<1>1. CASE Kind = "none"
  BY <1>1, Zenon DEF RamBank
<1>2. CASE Kind = "MBC1" /\ banking_mode = 0
  BY <1>2, Zenon DEF RamBank
<1>3. CASE Kind # "none" /\ ~(Kind = "MBC1" /\ banking_mode = 0)
  <2>1. RamBank = RAM_bank
    BY <1>3, Zenon DEF RamBank
  <2> QED BY <1>3, <2>1
<1> QED BY <1>1, <1>2, <1>3

----------------------------------------------------------------------------

(* The banking registers keep within their bits. *)
RegsOK ==
  /\ RAM_enable \in BOOLEAN /\ banking_mode \in {0, 1}
  /\ Kind = "none" => ROM_bank = 1 /\ RAM_bank = 0
  /\ Kind = "MBC1" => ROM_bank \in 1..31 /\ RAM_bank \in 0..3
  /\ Kind = "MBC3" => ROM_bank \in 1..127 /\ RAM_bank \in 0..255
  /\ Kind = "MBC5" => ROM_bank \in 0..511 /\ RAM_bank \in 0..15

(* The memories have as many banks as the header says, the file too where it is
   loaded again; only NoMBC sizes its RAM by its own flag. *)
MemoryOK ==
  /\ RAM \in [0..(Capacity - 1) -> Bytes]
  /\ Kind # "none" => file \in [0..(cartridge.ram - 1) -> Bytes]
  /\ dout \in Bytes \cup {OpenBus}

(* The inductive invariant: TypeOK with the file, and the one flag that every
   constructor of MBC1 does set. *)
MbcInv ==
  /\ cartridge \in Cartridges /\ power \in {"on", "off", "dead"}
  /\ has_ram \in BOOLEAN /\ has_battery \in BOOLEAN
  /\ Kind = "MBC1" => has_battery = mbc_has_battery
  /\ RegsOK /\ MemoryOK

LEMMA InvTypes == MbcInv => TypeOK
<1> SUFFICES ASSUME MbcInv PROVE TypeOK
  OBVIOUS
<1> DEFINE roms == CASE Kind = "MBC1" -> 1..31 [] Kind = "MBC3" -> 1..127
                     [] Kind = "MBC5" -> 0..511 [] OTHER -> {1}
           rams == CASE Kind = "MBC1" -> 0..3 [] Kind = "MBC5" -> 0..15 [] OTHER -> 0..255
<1>1. Kind \in {"none", "MBC1", "MBC3", "MBC5"}
  BY Kinds DEF MbcInv
<1>2. ROM_bank \in roms /\ RAM_bank \in rams
  <2>1. CASE Kind = "none"
    <3>1. roms = {1} /\ rams = 0..255
      BY <2>1, Zenon
    <3> QED BY <2>1, <3>1 DEF MbcInv, RegsOK
  <2>2. CASE Kind = "MBC1"
    <3>1. roms = 1..31 /\ rams = 0..3
      BY <2>2, Zenon
    <3> QED BY <2>2, <3>1 DEF MbcInv, RegsOK
  <2>3. CASE Kind = "MBC3"
    <3>1. roms = 1..127 /\ rams = 0..255
      BY <2>3, Zenon
    <3> QED BY <2>3, <3>1 DEF MbcInv, RegsOK
  <2>4. CASE Kind = "MBC5"
    <3>1. roms = 0..511 /\ rams = 0..15
      BY <2>4, Zenon
    <3> QED BY <2>4, <3>1 DEF MbcInv, RegsOK
  <2> QED BY <1>1, <2>1, <2>2, <2>3, <2>4
<1> HIDE DEF roms, rams
<1>3. {has_ram, has_battery, RAM_enable} \subseteq BOOLEAN /\ banking_mode \in {0, 1}
  BY DEF MbcInv, RegsOK
<1> QED BY <1>2, <1>3, Zenon DEF TypeOK, MbcInv, MemoryOK, roms, rams

(* What a start leaves. *)
Started(f) ==
  /\ power' = "on" /\ cartridge' = cartridge
  /\ has_ram' \in BOOLEAN /\ has_battery' \in BOOLEAN
  /\ Kind = "MBC1" => has_battery' = mbc_has_battery
  /\ RAM_enable' \in BOOLEAN /\ banking_mode' = 0 /\ ROM_bank' = 1 /\ RAM_bank' = 0
  /\ Kind = "none" => RAM' = Clear(IF has_ram' THEN 1 ELSE 0)
  /\ Kind = "MBC5" => RAM' = Clear(cartridge.ram)
  /\ Kind \in {"MBC1", "MBC3"} => RAM' = f
  /\ wanted' = [lo |-> 1, hi |-> 0, at3000 |-> 0]
  /\ file' = file /\ dout' = dout

LEMMA StartShape ==
  ASSUME NEW f, Start(f), cartridge \in Cartridges
  PROVE  Started(f)
<1>1. has_ram' \in BOOLEAN
  BY Zenon DEF Start
<1>2. has_battery' \in BOOLEAN /\ (Kind = "MBC1" => has_battery' = mbc_has_battery)
  <2>1. mbc_has_battery \in BOOLEAN
    BY DEF mbc_has_battery
  <2>2. has_battery' \in IF Kind = "MBC1" THEN {mbc_has_battery} ELSE BOOLEAN
    BY Zenon DEF Start
  <2>3. CASE Kind = "MBC1"
    BY <2>1, <2>2, <2>3
  <2>4. CASE Kind # "MBC1"
    BY <2>2, <2>4
  <2> QED BY <2>3, <2>4
<1>3. RAM_enable' \in BOOLEAN
  <2>1. RAM_enable' = (Kind \in {"MBC3", "none"})
    BY Zenon DEF Start
  <2> QED BY <2>1
<1>4. Kind = "none" => RAM' = Clear(IF has_ram' THEN 1 ELSE 0)
  BY Zenon DEF Start
<1>5. Kind = "MBC5" => RAM' = Clear(cartridge.ram)
  BY Zenon DEF Start
<1>6. Kind \in {"MBC1", "MBC3"} => RAM' = f
  BY Zenon DEF Start
<1>7. /\ power' = "on" /\ cartridge' = cartridge /\ banking_mode' = 0 /\ ROM_bank' = 1
      /\ RAM_bank' = 0 /\ wanted' = [lo |-> 1, hi |-> 0, at3000 |-> 0] /\ file' = file /\ dout' = dout
  BY Zenon DEF Start
<1> QED BY <1>1, <1>2, <1>3, <1>4, <1>5, <1>6, <1>7, Zenon DEF Started

LEMMA Cleared == ASSUME NEW n PROVE Clear(n) \in [0..(n - 1) -> Bytes]
BY MbcAssumption DEF Clear

(* The controller goes with the cartridge. *)
LEMMA SameKind ==
  ASSUME cartridge' = cartridge
  PROVE  Kind' = Kind /\ mbc_has_battery' = mbc_has_battery
BY Zenon DEF Kind, mbc_has_battery

LEMMA SameCapacity ==
  ASSUME cartridge' = cartridge, has_ram' = has_ram
  PROVE  Capacity' = Capacity
BY SameKind, Zenon DEF Capacity

(* The address of a RAM access is a bank of the RAM. *)
LEMMA AddressInRam ==
  ASSUME MbcInv, Capacity > 0
  PROVE  RamBank \in Nat /\ RamAddr \in 0..(Capacity - 1)
<1>1. RamBank \in Nat
  <2>1. RAM_bank \in Nat
    BY Kinds DEF MbcInv, RegsOK
  <2> QED BY <2>1, RamWindow
<1>2. Capacity \in Nat \ {0}
  BY Capacities, Kinds DEF MbcInv
<1>3. RamBank % AddrBanks \in Nat
  BY <1>1, MbcAssumption, Divided
<1> QED BY <1>1, <1>2, <1>3, Divided DEF RamAddr

----------------------------------------------------------------------------

LEMMA InitInv == Init => MbcInv /\ wanted = [lo |-> 1, hi |-> 0, at3000 |-> 0] /\ ROM_bank = 1
<1> SUFFICES ASSUME Init PROVE MbcInv /\ wanted = [lo |-> 1, hi |-> 0, at3000 |-> 0] /\ ROM_bank = 1
  OBVIOUS
<1>1. cartridge \in Cartridges /\ power = "on" /\ banking_mode = 0 /\ ROM_bank = 1
      /\ RAM_bank = 0 /\ file \in [0..(cartridge.ram - 1) -> Bytes] /\ dout = OpenBus
      /\ wanted = [lo |-> 1, hi |-> 0, at3000 |-> 0]
  BY Zenon DEF Init
<1>2. has_ram \in BOOLEAN
  BY Zenon DEF Init
<1>3. has_battery \in BOOLEAN /\ (Kind = "MBC1" => has_battery = mbc_has_battery)
  <2>1. mbc_has_battery \in BOOLEAN
    BY DEF mbc_has_battery
  <2>2. has_battery \in IF Kind = "MBC1" THEN {mbc_has_battery} ELSE BOOLEAN
    BY Zenon DEF Init
  <2>3. CASE Kind = "MBC1"
    BY <2>1, <2>2, <2>3
  <2>4. CASE Kind # "MBC1"
    BY <2>2, <2>4
  <2> QED BY <2>3, <2>4
<1>4. RAM_enable \in BOOLEAN
  <2>1. RAM_enable = (Kind \in {"MBC3", "none"})
    BY Zenon DEF Init
  <2> QED BY <2>1
<1>5. RAM \in [0..(Capacity - 1) -> Bytes]
  <2>1. Kind = "none" => RAM = Clear(Capacity)
    BY Zenon DEF Init
  <2>2. Kind = "MBC5" => RAM = Clear(cartridge.ram)
    BY Zenon DEF Init
  <2>3. Kind \in {"MBC1", "MBC3"} => RAM = file
    BY Zenon DEF Init
  <2> QED BY <1>1, <1>2, <2>1, <2>2, <2>3, Kinds, Capacities, Cleared
<1>6. RegsOK
  BY <1>1, <1>4, Kinds DEF RegsOK
<1> QED BY <1>1, <1>2, <1>3, <1>5, <1>6 DEF MbcInv, MemoryOK

(* A step that leaves flags and memories alone needs only the registers. *)
LEMMA RegistersOnly ==
  ASSUME MbcInv, UNCHANGED <<fixed, RAM, file, dout>>, RegsOK'
  PROVE  MbcInv'
<1>1. /\ cartridge' = cartridge /\ power' = power /\ has_ram' = has_ram
      /\ has_battery' = has_battery /\ RAM' = RAM /\ file' = file /\ dout' = dout
  BY DEF fixed
<1>2. Kind' = Kind /\ mbc_has_battery' = mbc_has_battery /\ Capacity' = Capacity
  BY <1>1, SameKind, SameCapacity
<1> QED BY <1>1, <1>2 DEF MbcInv, MemoryOK

LEMMA SameRegs ==
  ASSUME RegsOK, cartridge' = cartridge, UNCHANGED registers
  PROVE  RegsOK'
BY SameKind DEF RegsOK, registers

LEMMA InvNext == MbcInv /\ [Next]_vars => MbcInv'
<1> SUFFICES ASSUME MbcInv, [Next]_vars PROVE MbcInv'
  OBVIOUS
<1>0. Kind \in {"none", "MBC1", "MBC3", "MBC5"} /\ cartridge.ram \in Nat
  BY Kinds DEF MbcInv
<1>1. CASE Open
  <2>1. PICK f : f = file
    OBVIOUS
  <2>2. Start(f) /\ cartridge \in Cartridges
    BY <1>1, <2>1 DEF Open, MbcInv
  <2>3. Started(f)
    BY <2>2, StartShape
  <2>4. Kind' = Kind /\ mbc_has_battery' = mbc_has_battery
    BY <2>3, SameKind DEF Started
  <2>5. /\ Kind = "none" => Capacity' = IF has_ram' THEN 1 ELSE 0
        /\ Kind # "none" => Capacity' = cartridge.ram
    <3>1. (has_ram \in BOOLEAN)'
      BY <2>3 DEF Started
    <3>2. /\ Kind' = "none" => Capacity' = IF has_ram' THEN 1 ELSE 0
          /\ Kind' # "none" => Capacity' = cartridge.ram'
      <4>1. (/\ Kind = "none" => Capacity = IF has_ram THEN 1 ELSE 0
             /\ Kind # "none" => Capacity = cartridge.ram)'
        BY <3>1, Capacities, PTL
      <4> QED BY <4>1
    <3> QED BY <2>3, <2>4, <3>2 DEF Started
  <2>6. RegsOK'
    BY <1>0, <2>3, <2>4 DEF Started, RegsOK
  <2>7. RAM' \in [0..(Capacity' - 1) -> Bytes]
    <3>1. CASE Kind = "none"
      BY <2>3, <2>5, <3>1, Cleared DEF Started
    <3>2. CASE Kind = "MBC5"
      BY <2>3, <2>5, <3>2, Cleared DEF Started
    <3>3. CASE Kind \in {"MBC1", "MBC3"}
      BY <2>1, <2>3, <2>5, <3>3 DEF Started, MbcInv, MemoryOK
    <3> QED BY <1>0, <3>1, <3>2, <3>3
  <2> QED BY <2>3, <2>4, <2>6, <2>7 DEF Started, MbcInv, MemoryOK
<1>2. CASE Close
  <2>1. /\ cartridge' = cartridge /\ power' = "off" /\ has_ram' = has_ram
        /\ has_battery' = has_battery /\ RAM' = RAM /\ dout' = dout
        /\ file' = (IF Kind = "MBC3" \/ has_battery THEN RAM ELSE file)
        /\ UNCHANGED registers
    BY <1>2 DEF Close
  <2>2. Kind' = Kind /\ mbc_has_battery' = mbc_has_battery /\ Capacity' = Capacity
    BY <2>1, SameKind, SameCapacity
  <2>3. RegsOK'
    BY <2>1, SameRegs DEF MbcInv
  <2>4. Kind # "none" => file' \in [0..(cartridge.ram - 1) -> Bytes]
    BY <2>1, Capacities DEF MbcInv, MemoryOK
  <2> QED BY <2>1, <2>2, <2>3, <2>4 DEF MbcInv, MemoryOK
<1>3. CASE Kill \/ Trap
  <2>1. /\ cartridge' = cartridge /\ power' = "dead" /\ has_ram' = has_ram
        /\ has_battery' = has_battery /\ RAM' = RAM /\ dout' = dout /\ file' = file
        /\ UNCHANGED registers
    BY <1>3 DEF Kill, Trap
  <2>2. Kind' = Kind /\ mbc_has_battery' = mbc_has_battery /\ Capacity' = Capacity
    BY <2>1, SameKind, SameCapacity
  <2>3. RegsOK'
    BY <2>1, SameRegs DEF MbcInv
  <2> QED BY <2>1, <2>2, <2>3 DEF MbcInv, MemoryOK
<1>4. CASE ReadRAM
  <2>1. /\ cartridge' = cartridge /\ power' = power /\ has_ram' = has_ram
        /\ has_battery' = has_battery /\ RAM' = RAM /\ file' = file
        /\ dout' = (IF Usable THEN RAM[RamAddr] ELSE OpenBus)
        /\ (Usable => Capacity > 0) /\ UNCHANGED registers
    BY <1>4 DEF ReadRAM, fixed
  <2>2. Kind' = Kind /\ mbc_has_battery' = mbc_has_battery /\ Capacity' = Capacity
    BY <2>1, SameKind, SameCapacity
  <2>3. RegsOK'
    BY <2>1, SameRegs DEF MbcInv
  <2>4. dout' \in Bytes \cup {OpenBus}
    BY <2>1, AddressInRam DEF MbcInv, MemoryOK
  <2> QED BY <2>1, <2>2, <2>3, <2>4 DEF MbcInv, MemoryOK
<1>5. ASSUME NEW d \in Data, WriteEnable(d) PROVE MbcInv'
  <2>1. UNCHANGED <<fixed, RAM, file, dout, banking_mode, ROM_bank, RAM_bank>>
        /\ RAM_enable' = (IF Kind = "MBC5" THEN d = 10 ELSE d % 16 = 10)
        /\ cartridge' = cartridge
    BY <1>5 DEF WriteEnable, fixed
  <2>2. RAM_enable' \in BOOLEAN
    BY <2>1
  <2>3. RegsOK'
    BY <2>1, <2>2, SameKind DEF MbcInv, RegsOK
  <2> QED BY <2>1, <2>3, RegistersOnly
<1>6. ASSUME NEW d \in Data, WriteRAMBank(d) PROVE MbcInv'
  <2>1. UNCHANGED <<fixed, RAM, file, dout, RAM_enable, banking_mode, ROM_bank>>
        /\ cartridge' = cartridge /\ Kind # "none"
    BY <1>6 DEF WriteRAMBank, fixed
  <2>2. d \in 0..255 /\ d % 4 \in 0..3 /\ d % 16 \in 0..15
    BY MbcAssumption
  <2>3. RegsOK'
    BY <1>0, <1>6, <2>1, <2>2, SameKind, RamBanked DEF MbcInv, RegsOK
  <2> QED BY <2>1, <2>3, RegistersOnly
<1>7. ASSUME NEW d \in Data, WriteMode(d) PROVE MbcInv'
  <2>1. UNCHANGED <<fixed, RAM, file, dout, RAM_enable, ROM_bank, RAM_bank>>
        /\ banking_mode' = d % 2 /\ cartridge' = cartridge
    BY <1>7 DEF WriteMode, fixed
  <2>2. d % 2 \in {0, 1}
    BY MbcAssumption
  <2>3. RegsOK'
    BY <2>1, <2>2, SameKind DEF MbcInv, RegsOK
  <2> QED BY <2>1, <2>3, RegistersOnly
<1>8. ASSUME NEW d \in Data, NEW a \in {"2000"} \cup Upper, WriteROMBank(a, d) PROVE MbcInv'
  <2>1. UNCHANGED <<fixed, RAM, file, dout, RAM_enable, banking_mode, RAM_bank>>
        /\ ROM_bank' = RomBank(a, d) /\ cartridge' = cartridge /\ Kind # "none"
    BY <1>8 DEF WriteROMBank, fixed
  <2>2. d \in 0..255 /\ d % 2 \in 0..1 /\ AtLeast1(d % 32) \in 1..31 /\ AtLeast1(d % 128) \in 1..127
    BY MbcAssumption DEF AtLeast1
  <2>3. Kind = "MBC5" => RomBank(a, d) \in 0..511
    <3> SUFFICES ASSUME Kind = "MBC5" PROVE RomBank(a, d) \in 0..511
      OBVIOUS
    <3>1. ROM_bank \in 0..511 /\ ROM_bank \div 256 \in 0..1 /\ ROM_bank % 256 \in 0..255
      BY DEF MbcInv, RegsOK
    <3>2. CASE a = "2000"
      <4>1. RomBank(a, d) = (ROM_bank \div 256) * 256 + d
        BY <3>2, RomBanked
      <4> QED BY <2>2, <3>1, <4>1
    <3>3. CASE a = "3000"
      <4>1. RomBank(a, d) = (d % 2) * 256 + (ROM_bank % 256)
        BY <3>3, RomBanked
      <4> QED BY <2>2, <3>1, <4>1
    <3>4. CASE a \notin {"2000", "3000"}
      BY <3>1, <3>4, RomBanked
    <3> QED BY <3>2, <3>3, <3>4
  <2>4. RegsOK'
    <3>1. Kind = "MBC1" => ROM_bank' \in 1..31
      BY <2>1, <2>2, RomBanked
    <3>2. Kind = "MBC3" => ROM_bank' \in 1..127
      BY <2>1, <2>2, RomBanked
    <3>3. Kind = "MBC5" => ROM_bank' \in 0..511
      BY <2>1, <2>3
    <3>4. Kind' = Kind /\ RegsOK
      BY <2>1, SameKind DEF MbcInv
    <3> QED BY <2>1, <3>1, <3>2, <3>3, <3>4 DEF RegsOK
  <2> QED BY <2>1, <2>4, RegistersOnly
<1>9. ASSUME NEW v \in Bytes, WriteRAM(v) PROVE MbcInv'
  <2>1. /\ cartridge' = cartridge /\ power' = power /\ has_ram' = has_ram
        /\ has_battery' = has_battery /\ file' = file /\ dout' = dout
        /\ RAM' = [RAM EXCEPT ![RamAddr] = v] /\ UNCHANGED registers
    BY <1>9 DEF WriteRAM, fixed
  <2>2. Kind' = Kind /\ mbc_has_battery' = mbc_has_battery /\ Capacity' = Capacity
    BY <2>1, SameKind, SameCapacity
  <2>3. RegsOK'
    BY <2>1, SameRegs DEF MbcInv
  <2> QED BY <2>1, <2>2, <2>3 DEF MbcInv, MemoryOK
<1>10. CASE UNCHANGED vars
  <2>1. UNCHANGED <<fixed, RAM, file, dout>> /\ UNCHANGED registers /\ cartridge' = cartridge
    BY <1>10 DEF vars, fixed
  <2>2. RegsOK'
    BY <2>1, SameRegs DEF MbcInv
  <2> QED BY <2>1, <2>2, RegistersOnly
<1> QED BY <1>1, <1>2, <1>3, <1>4, <1>5, <1>6, <1>7, <1>8, <1>9, <1>10 DEF Next

(* Type correctness of the cartridges: registers within their bits, RAM and save
   file of the size the header gives (cartridge.cpp:26-158, 310-419, 641-858). *)
THEOREM MbcTyped == Spec => []TypeOK
BY InitInv, InvNext, InvTypes, PTL DEF Spec

----------------------------------------------------------------------------

(* The register holds exactly what was written to its halves. *)
Selected ==
  /\ wanted \in [lo : 0..255, hi : {0, 1}, at3000 : {0, 1}]
  /\ Kind = "MBC5" => ROM_bank = 256 * wanted.at3000 + wanted.lo

LEMMA SelectedNext == MbcInv /\ Selected /\ [Next]_vars => Selected'
<1> SUFFICES ASSUME MbcInv, Selected, [Next]_vars PROVE Selected'
  OBVIOUS
<1>1. CASE Open
  <2>1. PICK f : f = file
    OBVIOUS
  <2>2. Start(f) /\ cartridge \in Cartridges
    BY <1>1, <2>1 DEF Open, MbcInv
  <2>3. /\ cartridge' = cartridge /\ ROM_bank' = 1
        /\ wanted' = [lo |-> 1, hi |-> 0, at3000 |-> 0]
    BY <2>2, StartShape DEF Started
  <2> QED BY <2>3, SameKind DEF Selected
<1>2. ASSUME NEW d \in Data, NEW a \in {"2000"} \cup Upper, WriteROMBank(a, d) PROVE Selected'
  <2>1. /\ cartridge' = cartridge /\ ROM_bank' = RomBank(a, d)
        /\ wanted' = [lo |-> IF a = "2000" THEN d ELSE wanted.lo,
                      hi |-> IF a # "2000" THEN d % 2 ELSE wanted.hi,
                      at3000 |-> IF a = "3000" THEN d % 2 ELSE wanted.at3000]
    BY <1>2 DEF WriteROMBank, fixed
  <2>2. d \in 0..255 /\ d % 2 \in {0, 1} /\ a \in {"2000", "3000", "3001"}
    BY MbcAssumption
  <2>3. wanted' \in [lo : 0..255, hi : {0, 1}, at3000 : {0, 1}]
    BY <2>1, <2>2 DEF Selected
  <2>4. ASSUME Kind = "MBC5"
        PROVE  ROM_bank' = 256 * wanted'.at3000 + wanted'.lo
    <3>1. /\ wanted.lo \in 0..255 /\ wanted.at3000 \in {0, 1}
          /\ ROM_bank = 256 * wanted.at3000 + wanted.lo
      BY <2>4 DEF Selected
    <3>2. ROM_bank \div 256 = wanted.at3000 /\ ROM_bank % 256 = wanted.lo
      <4>1. CASE wanted.at3000 = 0
        BY <3>1, <4>1
      <4>2. CASE wanted.at3000 = 1
        <5>1. ROM_bank = 256 + wanted.lo /\ wanted.lo \in 0..255
          BY <3>1, <4>2
        <5> QED BY <4>2, <5>1
      <4> QED BY <3>1, <4>1, <4>2
    <3>3. CASE a = "2000"
      <4>1. ROM_bank' = wanted.at3000 * 256 + d
        BY <2>1, <2>4, <3>2, <3>3, RomBanked
      <4>2. wanted'.lo = d /\ wanted'.at3000 = wanted.at3000
        BY <2>1, <3>3
      <4> QED BY <2>2, <3>1, <4>1, <4>2
    <3>4. CASE a = "3000"
      <4>1. ROM_bank' = (d % 2) * 256 + wanted.lo
        BY <2>1, <2>4, <3>2, <3>4, RomBanked
      <4>2. wanted'.lo = wanted.lo /\ wanted'.at3000 = d % 2
        BY <2>1, <3>4
      <4> QED BY <2>2, <3>1, <4>1, <4>2
    <3>5. CASE a = "3001"
      <4>1. ROM_bank' = ROM_bank
        BY <2>1, <2>4, <3>5, RomBanked
      <4>2. wanted'.lo = wanted.lo /\ wanted'.at3000 = wanted.at3000
        BY <2>1, <3>5
      <4> QED BY <3>1, <4>1, <4>2
    <3> QED BY <2>2, <3>3, <3>4, <3>5
  <2> QED BY <2>1, <2>3, <2>4, SameKind DEF Selected
<1>3. ASSUME UNCHANGED <<cartridge, ROM_bank, wanted>> PROVE Selected'
  BY <1>3, SameKind DEF Selected
<1>4. CASE Close \/ Kill \/ Trap \/ ReadRAM
  BY <1>3, <1>4 DEF Close, Kill, Trap, ReadRAM, registers, fixed
<1>5. ASSUME NEW d \in Data, WriteEnable(d) \/ WriteRAMBank(d) \/ WriteMode(d) PROVE Selected'
  BY <1>3, <1>5, Zenon DEF WriteEnable, WriteRAMBank, WriteMode, fixed
<1>6. ASSUME NEW v \in Bytes, WriteRAM(v) PROVE Selected'
  BY <1>3, <1>6 DEF WriteRAM, registers, fixed
<1>7. CASE UNCHANGED vars
  BY <1>3, <1>7 DEF vars, registers, fixed
<1> QED BY <1>1, <1>2, <1>4, <1>5, <1>6, <1>7 DEF Next

(* An MBC5's ROM window shows the bank whose halves were written last, in any order
   and wherever in 2000-3FFF, whatever the program writes and at any ROM size
   (cartridge.cpp:660, 685-696).  The upper half is the one written at 3000: that
   the rest of 3001-3FFF would set it too is what TLC refutes. *)
THEOREM HalvesAreApart == Spec => []HalvesApart
<1>1. Init => MbcInv /\ Selected
  BY InitInv DEF Selected
<1>2. MbcInv /\ Selected /\ [Next]_vars => MbcInv' /\ Selected'
  BY InvNext, SelectedNext
<1>3. Selected => HalvesApart
  BY DEF Selected, HalvesApart
<1> QED BY <1>1, <1>2, <1>3, PTL DEF Spec

----------------------------------------------------------------------------

(* Cartridges that keep the promise: types 8, 9 and 27 are given no RAM from the
   file, the ROM-only type has none to offer, and a number of banks that does not
   divide the address space of uint16_t aliases. *)
Faithful ==
  \A c \in Cartridges :
    /\ c.type \notin {8, 9, 27} /\ (c.type = 0 => c.ram = 0)
    /\ c.ram = 0 \/ AddrBanks % c.ram = 0

(* The abstract state. *)
Banks   == 0..(cartridge.ram - 1)
Enabled == Usable /\ ~OnClock /\ cartridge.ram > 0
Bank    == IF cartridge.ram = 0 THEN 0 ELSE RamBank % cartridge.ram
Mem     == IF power = "on" /\ Kind # "none" THEN RAM ELSE Kept

LEMMA KeptValue ==
  /\ Kind \in {"MBC1", "MBC3"} => Kept = file
  /\ Kind \notin {"MBC1", "MBC3"} => Kept = Clear(cartridge.ram)
BY DEF Kept

LEMMA AbstractTypes ==
  MbcInv => /\ Enabled \in BOOLEAN /\ Bank \in Banks \cup {0}
            /\ Mem \in [Banks -> Bytes] /\ Kept \in [Banks -> Bytes]
<1> SUFFICES ASSUME MbcInv
             PROVE  /\ Enabled \in BOOLEAN /\ Bank \in Banks \cup {0}
                    /\ Mem \in [Banks -> Bytes] /\ Kept \in [Banks -> Bytes]
  OBVIOUS
<1>1. cartridge.ram \in Nat /\ Kind \in {"none", "MBC1", "MBC3", "MBC5"}
  BY Kinds DEF MbcInv
<1>2. RamBank \in Nat
  <2>1. RAM_bank \in Nat
    BY <1>1 DEF MbcInv, RegsOK
  <2> QED BY <2>1, RamWindow
<1>3. Bank \in Banks \cup {0}
  <2>1. CASE cartridge.ram = 0
    BY <2>1 DEF Bank
  <2>2. CASE cartridge.ram # 0
    <3>1. RamBank % cartridge.ram \in 0..(cartridge.ram - 1)
      BY <1>1, <1>2, <2>2, Divided
    <3> QED BY <2>2, <3>1 DEF Bank, Banks
  <2> QED BY <2>1, <2>2
<1>4. Kept \in [Banks -> Bytes]
  BY <1>1, KeptValue, Cleared DEF MbcInv, MemoryOK, Banks
<1>5. Mem \in [Banks -> Bytes]
  BY <1>4, Capacities DEF Mem, MbcInv, MemoryOK, Banks
<1>6. Enabled \in BOOLEAN
  BY DEF Enabled
<1> QED BY <1>3, <1>4, <1>5, <1>6

(* The steps of BatteryRam, in the terms of the cartridge. *)
LEMMA Selects ==
  ASSUME MbcInv', cartridge' = cartridge, power = "on", power' = "on",
         Mem' = Mem, Kept' = Kept, dout' = dout
  PROVE  Ram!Next
<1>1. Enabled' \in BOOLEAN /\ Bank' \in Banks' \cup {0}
  <2>1. (Enabled \in BOOLEAN /\ Bank \in Banks \cup {0})'
    BY AbstractTypes, PTL
  <2> QED BY <2>1
<1>2. Banks' = Banks /\ mbc_has_battery' = mbc_has_battery
  BY SameKind DEF Banks
<1>3. Ram!Select
  BY <1>1, <1>2 DEF Ram!Select, Enabled, Bank, Banks, Mem
<1> QED BY <1>2, <1>3 DEF Ram!Next, Banks

LEMMA PowersOn ==
  ASSUME MbcInv', cartridge' = cartridge, power # "on", power' = "on",
         Mem' = Mem, Kept' = Kept, dout' = dout
  PROVE  Ram!Next
<1>1. Enabled' \in BOOLEAN /\ Bank' \in Banks' \cup {0}
  <2>1. (Enabled \in BOOLEAN /\ Bank \in Banks \cup {0})'
    BY AbstractTypes, PTL
  <2> QED BY <2>1
<1>2. Banks' = Banks /\ mbc_has_battery' = mbc_has_battery
  BY SameKind DEF Banks
<1>3. Ram!PowerOn
  BY <1>1, <1>2 DEF Ram!PowerOn, Enabled, Bank, Banks, Mem
<1> QED BY <1>2, <1>3 DEF Ram!Next, Banks

(* Without a register write the selection stays. *)
LEMMA SameSelection ==
  ASSUME cartridge' = cartridge, has_ram' = has_ram, UNCHANGED registers
  PROVE  Enabled' = Enabled /\ Bank' = Bank /\ Banks' = Banks
         /\ mbc_has_battery' = mbc_has_battery
<1>1. Kind' = Kind /\ mbc_has_battery' = mbc_has_battery
  BY SameKind
<1>2. RAM_enable' = RAM_enable /\ banking_mode' = banking_mode /\ RAM_bank' = RAM_bank
  BY DEF registers
<1>3. RamBank' = RamBank
  BY <1>1, <1>2, Zenon DEF RamBank
<1>4. Usable' = Usable /\ OnClock' = OnClock
  BY <1>1, <1>2 DEF Usable, OnClock
<1> QED BY <1>1, <1>3, <1>4 DEF Enabled, Bank, Banks

LEMMA Writes ==
  ASSUME cartridge' = cartridge, has_ram' = has_ram, UNCHANGED registers,
         power = "on", power' = "on", Enabled, Kept' = Kept, dout' = dout,
         NEW v \in Bytes, Mem' = [Mem EXCEPT ![Bank] = v]
  PROVE  Ram!Next
<1>1. Enabled' = Enabled /\ Bank' = Bank /\ Banks' = Banks
      /\ mbc_has_battery' = mbc_has_battery
  BY SameSelection
<1>2. Ram!Write
  BY <1>1 DEF Ram!Write, Enabled, Bank, Banks, Mem
<1> QED BY <1>1, <1>2 DEF Ram!Next, Banks

LEMMA Reads ==
  ASSUME cartridge' = cartridge, has_ram' = has_ram, UNCHANGED registers,
         power = "on", power' = "on", Kept' = Kept, Mem' = Mem,
         Enabled => dout' = Mem[Bank]
  PROVE  Ram!Next
<1>1. Enabled' = Enabled /\ Bank' = Bank /\ Banks' = Banks
      /\ mbc_has_battery' = mbc_has_battery
  BY SameSelection
<1>2. Ram!Read
  BY <1>1 DEF Ram!Read, Enabled, Bank, Banks, Mem
<1> QED BY <1>1, <1>2 DEF Ram!Next, Banks

LEMMA Closes ==
  ASSUME cartridge' = cartridge, has_ram' = has_ram, UNCHANGED registers,
         power = "on", power' = "off", dout' = dout,
         Kept' \in {Mem, Kept}, mbc_has_battery => Kept' = Mem
  PROVE  Ram!Next
<1>1. Enabled' = Enabled /\ Bank' = Bank /\ Banks' = Banks
      /\ mbc_has_battery' = mbc_has_battery
  BY SameSelection
<1>2. Mem' = Kept'
  BY DEF Mem
<1>3. Ram!PowerOff
  BY <1>1, <1>2 DEF Ram!PowerOff, Enabled, Bank, Banks, Mem
<1> QED BY <1>1, <1>3 DEF Ram!Next, Banks

LEMMA Dies ==
  ASSUME cartridge' = cartridge, has_ram' = has_ram, UNCHANGED registers,
         power = "on", power' = "dead", dout' = dout, Kept' = Kept
  PROVE  Ram!Next
<1>1. Enabled' = Enabled /\ Bank' = Bank /\ Banks' = Banks
      /\ mbc_has_battery' = mbc_has_battery
  BY SameSelection
<1>2. Mem' = Kept
  BY DEF Mem
<1>3. Ram!Die
  BY <1>1, <1>2 DEF Ram!Die, Enabled, Bank, Banks, Mem
<1> QED BY <1>1, <1>3 DEF Ram!Next, Banks

(* What a faithful cartridge is. *)
LEMMA FaithfulCartridge ==
  ASSUME Faithful, MbcInv
  PROVE  /\ Kind = "none" => cartridge.ram = 0
         /\ Kind \in {"none", "MBC5"} => ~mbc_has_battery
         /\ cartridge.ram > 0 => AddrBanks % cartridge.ram = 0
<1>1. cartridge \in Cartridges
  BY DEF MbcInv
<1>2. cartridge.ram \in Nat /\ cartridge.type \notin {8, 9, 27}
      /\ (cartridge.type = 0 => cartridge.ram = 0)
      /\ (cartridge.ram = 0 \/ AddrBanks % cartridge.ram = 0)
  BY <1>1, Kinds DEF Faithful
<1>3. Kind = "none" => cartridge.ram = 0
  BY <1>1, <1>2, Kinds
<1>4. Kind \in {"none", "MBC5"} => ~mbc_has_battery
  BY <1>1, <1>2, Kinds DEF mbc_has_battery
<1> QED BY <1>2, <1>3, <1>4

(* Cutting the bank to an address first makes no difference. *)
LEMMA AddressIsBank ==
  ASSUME Faithful, MbcInv, Kind # "none", Capacity > 0
  PROVE  RamAddr = Bank /\ cartridge.ram > 0
<1>1. Capacity = cartridge.ram /\ cartridge.ram \in Nat \ {0}
  BY Capacities, Kinds DEF MbcInv
<1>2. AddrBanks % cartridge.ram = 0 /\ AddrBanks \in Nat \ {0}
  BY <1>1, FaithfulCartridge, MbcAssumption
<1>3. RamBank \in Nat
  BY AddressInRam
<1>4. (RamBank % AddrBanks) % cartridge.ram = RamBank % cartridge.ram
  BY <1>1, <1>2, <1>3, CutTwice
<1> QED BY <1>1, <1>4 DEF RamAddr, Bank

LEMMA StepImplements ==
  ASSUME Faithful
  PROVE  MbcInv /\ MbcInv' /\ [Next]_vars => [Ram!Next]_(Ram!vars)
<1> SUFFICES ASSUME MbcInv, MbcInv', [Next]_vars PROVE [Ram!Next]_(Ram!vars)
  OBVIOUS
<1>0. /\ Kind \in {"none", "MBC1", "MBC3", "MBC5"} /\ cartridge.ram \in Nat
      /\ Kind = "none" => cartridge.ram = 0
      /\ Kind \in {"none", "MBC5"} => ~mbc_has_battery
  BY Kinds, FaithfulCartridge DEF MbcInv
<1>1. CASE Open
  <2>1. PICK f : f = file
    OBVIOUS
  <2>2. Start(f) /\ cartridge \in Cartridges /\ power # "on"
    BY <1>1, <2>1 DEF Open, MbcInv
  <2>3. Started(f)
    BY <2>2, StartShape
  <2>4. cartridge' = cartridge /\ power' = "on" /\ dout' = dout /\ file' = file /\ Kind' = Kind
    BY <2>3, SameKind DEF Started
  <2>5. Kept' = Kept
    BY <2>4 DEF Kept
  <2>6. Kind # "none" => RAM' = Kept
    BY <1>0, <2>1, <2>3, KeptValue DEF Started
  <2>7. Mem' = Mem
    BY <2>2, <2>4, <2>5, <2>6 DEF Mem
  <2> QED BY <2>2, <2>4, <2>5, <2>7, PowersOn
<1>2. CASE Close
  <2>1. /\ cartridge' = cartridge /\ power = "on" /\ power' = "off" /\ has_ram' = has_ram
        /\ file' = (IF Kind = "MBC3" \/ has_battery THEN RAM ELSE file)
        /\ dout' = dout /\ UNCHANGED registers
    BY <1>2 DEF Close
  <2>2. Kind' = Kind
    BY <2>1, SameKind
  <2>3. Kept' \in {Mem, Kept} /\ (mbc_has_battery => Kept' = Mem)
    <3>1. CASE Kind = "MBC3"
      BY <2>1, <2>2, <3>1 DEF Kept, Mem
    <3>2. CASE Kind = "MBC1"
      BY <2>1, <2>2, <3>2 DEF Kept, Mem, MbcInv
    <3>3. CASE Kind \in {"none", "MBC5"}
      BY <1>0, <2>1, <2>2, <3>3 DEF Kept
    <3> QED BY <1>0, <3>1, <3>2, <3>3
  <2> QED BY <2>1, <2>3, Closes
<1>3. CASE Kill \/ Trap
  <2>1. /\ cartridge' = cartridge /\ power = "on" /\ power' = "dead" /\ has_ram' = has_ram
        /\ file' = file /\ dout' = dout /\ UNCHANGED registers
    BY <1>3 DEF Kill, Trap
  <2>2. Kept' = Kept
    BY <2>1, SameKind DEF Kept
  <2> QED BY <2>1, <2>2, Dies
<1>4. CASE ReadRAM
  <2>1. /\ cartridge' = cartridge /\ power = "on" /\ power' = "on" /\ has_ram' = has_ram
        /\ file' = file /\ RAM' = RAM /\ UNCHANGED registers
        /\ dout' = (IF Usable THEN RAM[RamAddr] ELSE OpenBus)
        /\ (Usable => Capacity > 0)
    BY <1>4 DEF ReadRAM, fixed
  <2>2. Kept' = Kept /\ Mem' = Mem
    BY <2>1, SameKind DEF Kept, Mem
  <2>3. Enabled => dout' = Mem[Bank]
    <3> SUFFICES ASSUME Enabled PROVE dout' = Mem[Bank]
      OBVIOUS
    <3>1. Usable /\ cartridge.ram > 0
      BY DEF Enabled
    <3>2. Kind # "none"
      BY <1>0, <3>1
    <3>3. RamAddr = Bank
      BY <2>1, <3>1, <3>2, AddressIsBank
    <3> QED BY <2>1, <3>1, <3>2, <3>3 DEF Mem
  <2> QED BY <2>1, <2>2, <2>3, Reads
<1>5. ASSUME UNCHANGED <<fixed, RAM, file, dout>>, power = "on" PROVE Ram!Next
  <2>1. /\ cartridge' = cartridge /\ power' = "on"
        /\ RAM' = RAM /\ file' = file /\ dout' = dout
    BY <1>5 DEF fixed
  <2>2. Kept' = Kept /\ Mem' = Mem
    BY <1>5, <2>1, SameKind DEF Kept, Mem
  <2> QED BY <1>5, <2>1, <2>2, Selects
<1>6. ASSUME NEW d \in Data, WriteEnable(d) \/ WriteRAMBank(d) \/ WriteMode(d) PROVE Ram!Next
  <2>1. UNCHANGED <<fixed, RAM, file, dout>> /\ power = "on"
    BY <1>6, Zenon DEF WriteEnable, WriteRAMBank, WriteMode
  <2> QED BY <1>5, <2>1
<1>7. ASSUME NEW d \in Data, NEW a \in {"2000"} \cup Upper, WriteROMBank(a, d) PROVE Ram!Next
  <2>1. UNCHANGED <<fixed, RAM, file, dout>> /\ power = "on"
    BY <1>7, Zenon DEF WriteROMBank
  <2> QED BY <1>5, <2>1
<1>8. ASSUME NEW v \in Bytes, WriteRAM(v) PROVE Ram!Next
  <2>1. /\ cartridge' = cartridge /\ power = "on" /\ power' = "on" /\ has_ram' = has_ram
        /\ file' = file /\ dout' = dout /\ UNCHANGED registers
        /\ RAM' = [RAM EXCEPT ![RamAddr] = v]
        /\ Usable /\ ~OnClock /\ Capacity > 0
    BY <1>8 DEF WriteRAM, fixed
  <2>2. Kind' = Kind /\ Kept' = Kept
    BY <2>1, SameKind DEF Kept
  <2>3. CASE Kind = "none"
    <3>1. Mem' = Mem /\ ~Enabled
      BY <1>0, <2>1, <2>2, <2>3 DEF Mem, Enabled
    <3> QED BY <2>1, <2>2, <3>1, Reads
  <2>4. CASE Kind # "none"
    <3>1. RamAddr = Bank /\ Enabled
      BY <2>1, <2>4, AddressIsBank DEF Enabled
    <3>2. Mem' = [Mem EXCEPT ![Bank] = v]
      BY <2>1, <2>2, <2>4, <3>1 DEF Mem
    <3> QED BY <2>1, <2>2, <3>1, <3>2, Writes
  <2> QED BY <2>3, <2>4
<1>9. CASE UNCHANGED vars
  <2>1. /\ cartridge' = cartridge /\ power' = power /\ has_ram' = has_ram
        /\ RAM' = RAM /\ file' = file /\ dout' = dout /\ UNCHANGED registers
    BY <1>9 DEF vars, fixed
  <2>2. Kept' = Kept /\ Mem' = Mem
    BY <2>1, SameKind DEF Kept, Mem
  <2>3. Enabled' = Enabled /\ Bank' = Bank /\ Banks' = Banks
        /\ mbc_has_battery' = mbc_has_battery
    BY <2>1, SameSelection
  <2> QED BY <2>1, <2>2, <2>3 DEF Ram!vars, Enabled, Bank, Banks, Mem
<1> QED BY <1>1, <1>2, <1>3, <1>4, <1>6, <1>7, <1>8, <1>9 DEF Next

(* The cartridge keeps the promise of BatteryRam: a write reaches the selected
   bank alone and is read back, and what has a battery survives the emulator's
   end, for any number of banks, for the cartridges of Faithful
   (cartridge.cpp:102-152, 320-419, 664-708, 779-857; cartridge.hpp:20-36). *)
THEOREM KeepsBatteryRam ==
  ASSUME Faithful
  PROVE  Spec => ImplementsBatteryRam
<1>1. Init => Ram!Init
  <2> SUFFICES ASSUME Init PROVE Ram!Init
    OBVIOUS
  <2>1. MbcInv /\ power = "on"
    BY InitInv, Zenon DEF Init
  <2>2. /\ Enabled \in BOOLEAN /\ Bank \in Banks \cup {0}
        /\ Mem \in [Banks -> Bytes] /\ Kept \in [Banks -> Bytes]
    BY <2>1, AbstractTypes
  <2>3. mbc_has_battery => Kept = Mem
    <3> SUFFICES ASSUME mbc_has_battery PROVE Kept = Mem
      OBVIOUS
    <3>1. Kind \in {"MBC1", "MBC3"}
      BY <2>1, Kinds, FaithfulCartridge DEF MbcInv
    <3>2. RAM = file
      BY <3>1, Zenon DEF Init
    <3> QED BY <2>1, <3>1, <3>2, KeptValue DEF Mem
  <2> QED BY <2>1, <2>2, <2>3 DEF Ram!Init, Enabled, Bank, Banks, Mem
<1>2. MbcInv /\ [Next]_vars => MbcInv'
  BY InvNext
<1>3. MbcInv /\ MbcInv' /\ [Next]_vars => [Ram!Next]_(Ram!vars)
  BY StepImplements
<1>4. Init => MbcInv
  BY InitInv
<1> QED BY <1>1, <1>2, <1>3, <1>4, PTL DEF Spec, ImplementsBatteryRam, Ram!Spec
=============================================================================
