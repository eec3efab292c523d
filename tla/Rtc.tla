-------------------------------- MODULE Rtc ---------------------------------
(***************************************************************************)
(* class MBC3 of cartridge.cpp: the clock registers, their latch, and what *)
(* becomes of them when the emulator is closed and opened again.  The host *)
(* clock appears only as the whole seconds since last_update.              *)
(***************************************************************************)
EXTENDS Integers

CONSTANTS
  SecPerMin, MinPerHour, HourPerDay,      \* 60, 60, 24
  Byte,                                   \* 256: the range of uint8_t and of DL
  MaxAge,         \* the longest time without an update, console on or off
  Steps,          \* of the host clock: 1, and -1 where it may be set back
  Battery,        \* values the uninitialised member hasBattery may have
  Banks,          \* the values of RAM_bank the program uses
  Data,           \* bytes it writes to S, M, H and DL
  Garbage         \* register contents when no clock was saved

Minute == SecPerMin
Hour   == SecPerMin * MinPerHour
Day    == SecPerMin * MinPerHour * HourPerDay
MaxDays == 2 * Byte                       \* max_days
Period == Day * MaxDays

RtcBanks == {"S", "M", "H", "DL", "DH"}

Registers == [S : Nat, M : Nat, H : Nat, DL : 0..(Byte - 1), day8 : {0, 1},
              halt : BOOLEAN, carry : BOOLEAN]

ASSUME RtcAssumption ==
  /\ SecPerMin \in 1..Byte /\ MinPerHour \in 1..Byte /\ HourPerDay \in 1..Byte
  /\ Byte \in Nat \ {0, 1}
  /\ MaxAge \in Nat /\ MaxAge < Day * Byte
  /\ Steps \subseteq {1, -1}
  /\ Battery \in SUBSET BOOLEAN
  /\ Banks \subseteq RtcBanks \cup {"RAM"}
  /\ Data \subseteq 0..(Byte - 1)
  /\ Garbage \subseteq Registers

VARIABLES
  on,             \* the emulator runs
  saved,          \* the save file holds a clock
  hidden,         \* hidden_regs, in the file while the emulator is closed
  latched,        \* latched_regs, likewise
  is_latched, enabled, bank,
  age             \* now - last_update, or since the file's time stamp

vars == <<on, saved, hidden, latched, is_latched, enabled, bank, age>>

GetDay(r) == r.DL + Byte * r.day8

(* A faulty variant: the days go on past the ninth bit. *)
AddDaysUnwrapped(r, n) ==
  LET day == GetDay(r) + (n % Byte)
  IN  [r EXCEPT !.DL = day % Byte, !.day8 = day \div Byte]

AddDays(r, n) ==
  LET day == GetDay(r) + (n % Byte)
      new == IF day >= MaxDays THEN day - MaxDays ELSE day
  IN  [r EXCEPT !.DL = new % Byte, !.day8 = (new \div Byte) % 2,
                !.carry = @ \/ day >= MaxDays]

AddHours(r, n) ==
  LET H == r.H + (n % Byte)
  IN  IF H >= HourPerDay THEN AddDays([r EXCEPT !.H = H - HourPerDay], 1)
      ELSE [r EXCEPT !.H = H]

AddMinutes(r, n) ==
  LET M == r.M + (n % Byte)
  IN  IF M >= MinPerHour THEN AddHours([r EXCEPT !.M = M - MinPerHour], 1)
      ELSE [r EXCEPT !.M = M]

AddSeconds(r, n) ==
  LET S == r.S + (n % Byte)
  IN  IF S >= SecPerMin THEN AddMinutes([r EXCEPT !.S = S - SecPerMin], 1)
      ELSE [r EXCEPT !.S = S]

(* C++ division: towards zero. *)
Rem(a, b)  == IF a >= 0 THEN a % b ELSE -((-a) % b)
Quot(a, b) == IF a >= 0 THEN a \div b ELSE -((-a) \div b)

Advanced(r, t) ==
  LET seconds == Rem(t, Minute)
      minutes == Rem(t - seconds, Hour)
      hours   == Rem(t - seconds - minutes, Day)
      days    == t - seconds - minutes - hours
  IN  AddDays(AddHours(AddMinutes(AddSeconds(r, seconds), Quot(minutes, Minute)),
                       Quot(hours, Hour)),
              Quot(days, Day))

Updated == IF hidden.halt THEN hidden ELSE Advanced(hidden, age)

(* A faulty variant: a halted clock keeps its time stamp. *)
UpdateAgeHalted == age' = IF hidden.halt THEN age ELSE 0

UpdateAge == age' = 0

HostTime ==
  /\ \E step \in Steps : age + step \in -MaxAge..MaxAge /\ age' = age + step
  /\ UNCHANGED <<on, saved, hidden, latched, is_latched, enabled, bank>>

WriteEnable(v) ==
  /\ on
  /\ enabled' = v
  /\ UNCHANGED <<on, saved, hidden, latched, is_latched, bank, age>>

WriteBank(b) ==
  /\ on
  /\ bank' = b
  /\ UNCHANGED <<on, saved, hidden, latched, is_latched, enabled, age>>

(* Only a rising bit latches. *)
WriteLatch(bit) ==
  /\ on
  /\ is_latched' = bit
  /\ IF bit /\ ~is_latched
     THEN hidden' = Updated /\ latched' = Updated /\ UpdateAge
     ELSE UNCHANGED <<hidden, latched, age>>
  /\ UNCHANGED <<on, saved, enabled, bank>>

(* A program's byte in the selected register. *)
Stored(r, d) ==
  CASE bank = "S"  -> [r EXCEPT !.S = d]
    [] bank = "M"  -> [r EXCEPT !.M = d]
    [] bank = "H"  -> [r EXCEPT !.H = d]
    [] bank = "DL" -> [r EXCEPT !.DL = d]
    [] OTHER -> r

WriteReg(d) ==
  /\ on /\ enabled
  /\ bank # "DH"
  /\ hidden' = Stored(Updated, d) /\ latched' = Stored(latched, d)
  /\ UpdateAge
  /\ UNCHANGED <<on, saved, is_latched, enabled, bank>>

WriteDH(day8, halt, carry) ==
  /\ on /\ enabled
  /\ bank = "DH"
  /\ hidden' = [Updated EXCEPT !.day8 = day8, !.halt = halt, !.carry = carry]
  /\ latched' = [latched EXCEPT !.day8 = day8, !.halt = halt, !.carry = carry]
  /\ UpdateAge
  /\ UNCHANGED <<on, saved, is_latched, enabled, bank>>

(* ~MBC3 saves the clock; the base destructor then writes the file again,
   without it, when hasBattery happens to be true. *)
Close ==
  /\ on
  /\ on' = FALSE
  /\ hidden' = Updated /\ UpdateAge
  /\ \E b \in Battery : saved' = ~b
  /\ UNCHANGED <<latched, is_latched, enabled, bank>>

Opened ==
  /\ on' = TRUE
  /\ is_latched' = FALSE /\ enabled' = TRUE /\ bank' = "RAM"
  /\ UNCHANGED saved

Open ==
  /\ ~on
  /\ Opened
  /\ \/ /\ saved
        /\ age' = IF age < 0 THEN 0 ELSE age
        /\ UNCHANGED <<hidden, latched>>
     \/ /\ ~saved
        /\ hidden' \in Garbage /\ latched' \in Garbage
        /\ age' \in 0..MaxAge

(* The first start: there is no file. *)
Init ==
  /\ on = TRUE /\ saved = FALSE
  /\ hidden \in Garbage /\ latched \in Garbage /\ age \in 0..MaxAge
  /\ is_latched = FALSE /\ enabled = TRUE /\ bank = "RAM"

Next ==
  \/ HostTime
  \/ \E v \in BOOLEAN : WriteEnable(v)
  \/ \E b \in Banks : WriteBank(b)
  \/ \E bit \in BOOLEAN : WriteLatch(bit)
  \/ \E d \in Data : WriteReg(d)
  \/ \E day8 \in {0, 1}, halt, carry \in BOOLEAN : WriteDH(day8, halt, carry)
  \/ Close
  \/ Open

Spec == Init /\ [][Next]_vars

TypeOK ==
  /\ on \in BOOLEAN /\ saved \in BOOLEAN /\ is_latched \in BOOLEAN /\ enabled \in BOOLEAN
  /\ hidden \in Registers /\ latched \in Registers
  /\ bank \in RtcBanks \cup {"RAM"}
  /\ age \in -MaxAge..MaxAge

Total(r) == r.S + Minute * r.M + Hour * r.H + Day * GetDay(r)

Pending == Total(hidden) + (IF hidden.halt THEN 0 ELSE age)

(* Seconds are neither lost nor gained by an update, a latch, a halt, a write
   elsewhere, or by closing and opening the emulator; the carry bit is set
   exactly by the wrap of the days; the program reads the time of its last
   latch (cartridge.cpp:270-287, 371-378, 425-443). *)
RtcClock == INSTANCE Clock WITH
  value <- Pending % Period, running <- ~hidden.halt,
  overflow <- hidden.carry \/ Pending >= Period,
  selected <- on /\ enabled /\ bank \in RtcBanks, shown <- Total(latched) % Period

ImplementsClock == RtcClock!Spec

(* A clock that was saved is there after the next start, as the test "Basic
   load" expects (cartridge.cpp:619-622). *)
ClockSurvives == ~on => saved
=============================================================================
