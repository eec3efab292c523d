----------------------------- MODULE Rtc_proofs -----------------------------
(***************************************************************************)
(* update_time adds the elapsed seconds, for every length of minute, hour  *)
(* and day and whatever the registers hold; hence the clock of the         *)
(* cartridge implements Clock, as long as the host clock does not run      *)
(* backwards and no update is more than 256 days late.                     *)
(***************************************************************************)
EXTENDS Rtc, TLAPS

(* Products distribute. *)
LEMMA Distribute ==
  ASSUME NEW a \in Int, NEW b \in Int, NEW c \in Int
  PROVE  /\ a * b \in Int /\ a * c \in Int
         /\ a * (b + c) = a * b + a * c
         /\ a * (b - c) = a * b - a * c
         /\ (b + c) * a = b * a + c * a
OBVIOUS

(* A number determines its quotient and its remainder. *)
LEMMA Division ==
  ASSUME NEW b \in Nat \ {0}, NEW q \in Nat, NEW r \in 0..(b - 1)
  PROVE  (b * q + r) \div b = q /\ (b * q + r) % b = r
<1>1. b * q \in Nat
  BY SMT
<1> QED BY <1>1, SMT

LEMMA Divided ==
  ASSUME NEW a \in Nat, NEW b \in Nat \ {0}
  PROVE  /\ a \div b \in Nat /\ a % b \in 0..(b - 1)
         /\ a = b * (a \div b) + (a % b)
BY SMT

(* Seconds in a minute, an hour, a day. *)
LEMMA Units ==
  /\ SecPerMin \in Nat \ {0} /\ MinPerHour \in Nat \ {0} /\ HourPerDay \in Nat \ {0}
  /\ Byte \in Nat \ {0, 1}
  /\ SecPerMin \in 1..Byte /\ MinPerHour \in 1..Byte /\ HourPerDay \in 1..Byte
  /\ Minute \in Nat \ {0} /\ Hour \in Nat \ {0} /\ Day \in Nat \ {0}
  /\ Hour = Minute * MinPerHour /\ Day = Hour * HourPerDay
<1>1. /\ SecPerMin \in Nat \ {0} /\ MinPerHour \in Nat \ {0} /\ HourPerDay \in Nat \ {0}
      /\ SecPerMin \in 1..Byte /\ MinPerHour \in 1..Byte /\ HourPerDay \in 1..Byte
      /\ Byte \in Nat \ {0, 1}
  BY RtcAssumption
<1>2. SecPerMin * MinPerHour \in Nat \ {0}
  BY <1>1, SMT
<1>3. SecPerMin * MinPerHour * HourPerDay \in Nat \ {0}
  BY <1>1, <1>2, SMT
<1> QED BY <1>1, <1>2, <1>3 DEF Minute, Hour, Day

LEMMA Periods ==
  /\ Day * Byte \in Nat \ {0}
  /\ MaxDays \in Nat \ {0} /\ MaxDays = 2 * Byte
  /\ Period \in Nat \ {0} /\ Period = 2 * (Day * Byte)
<1>1. Day \in Nat \ {0} /\ Byte \in Nat \ {0}
  BY Units
<1>2. Day * Byte \in Nat \ {0} /\ Day * (2 * Byte) = 2 * (Day * Byte)
  BY <1>1, SMT
<1> QED BY <1>1, <1>2 DEF MaxDays, Period

(* q is r, n seconds later: k times the days have wrapped. *)
Adds(r, q, n) ==
  /\ q \in Registers
  /\ q.halt = r.halt
  /\ \E k \in Nat :
       /\ Total(q) + Period * k = Total(r) + n
       /\ (k = 0 /\ q.carry = r.carry) \/ (k > 0 /\ q.carry = TRUE)

LEMMA TotalNat ==
  ASSUME NEW r \in Registers
  PROVE  /\ GetDay(r) \in 0..(MaxDays - 1)
         /\ Minute * r.M \in Nat /\ Hour * r.H \in Nat /\ Day * GetDay(r) \in Nat
         /\ Total(r) \in Nat
         /\ Total(r) = r.S + Minute * r.M + Hour * r.H + Day * GetDay(r)
<1>1. /\ r.S \in Nat /\ r.M \in Nat /\ r.H \in Nat
      /\ r.DL \in 0..(Byte - 1) /\ r.day8 \in {0, 1}
  BY DEF Registers
<1>2. GetDay(r) \in 0..(MaxDays - 1)
  BY <1>1, Units DEF GetDay, MaxDays
<1>3. GetDay(r) \in Nat
  BY <1>2, Periods
<1>4. Minute * r.M \in Nat /\ Hour * r.H \in Nat /\ Day * GetDay(r) \in Nat
  <2>1. \A a, b \in Nat : a * b \in Nat
    BY SMT
  <2> QED BY <2>1, <1>1, <1>3, Units
<1> QED BY <1>1, <1>2, <1>4 DEF Total

(* Two additions in a row. *)
LEMMA AddsTwice ==
  ASSUME NEW r \in Registers, NEW q \in Registers, NEW s \in Registers,
         NEW n \in Nat, NEW m \in Nat, Adds(r, q, n), Adds(q, s, m)
  PROVE  Adds(r, s, n + m)
<1>1. PICK k \in Nat : /\ Total(q) + Period * k = Total(r) + n
                       /\ (k = 0 /\ q.carry = r.carry) \/ (k > 0 /\ q.carry = TRUE)
  BY DEF Adds
<1>2. PICK l \in Nat : /\ Total(s) + Period * l = Total(q) + m
                       /\ (l = 0 /\ s.carry = q.carry) \/ (l > 0 /\ s.carry = TRUE)
  BY DEF Adds
<1>3. Total(r) \in Nat /\ Total(q) \in Nat /\ Total(s) \in Nat
  BY TotalNat
<1>4. /\ Period * k \in Int /\ Period * l \in Int
      /\ Period * (k + l) = Period * k + Period * l
  BY Periods, Distribute
<1>5. Total(s) + Period * (k + l) = Total(r) + (n + m)
  BY <1>1, <1>2, <1>3, <1>4
<1>6. (k + l = 0 /\ s.carry = r.carry) \/ (k + l > 0 /\ s.carry = TRUE)
  BY <1>1, <1>2
<1>7. s.halt = r.halt /\ k + l \in Nat
  BY DEF Adds
<1> QED BY <1>5, <1>6, <1>7 DEF Adds

(* A number below twice a byte is its low byte and one more bit. *)
LEMMA NineBits ==
  ASSUME NEW b \in Nat \ {0}, NEW v \in 0..(2 * b - 1)
  PROVE  /\ v % b \in 0..(b - 1) /\ (v \div b) % 2 \in {0, 1}
         /\ (v % b) + b * ((v \div b) % 2) = v
<1>1. CASE v < b
  <2>1. v \div b = 0 /\ v % b = v
    BY <1>1
  <2> QED BY <2>1, <1>1
<1>2. CASE v >= b
  <2> DEFINE w == v - b
  <2>1. w \in 0..(b - 1) /\ v = b * 1 + w
    BY <1>2
  <2> HIDE DEF w
  <2>2. (b * 1 + w) \div b = 1 /\ (b * 1 + w) % b = w
    BY <2>1, Division
  <2>3. v \div b = 1 /\ v % b = w
    BY <2>1, <2>2
  <2> QED BY <2>1, <2>3
<1> QED BY <1>1, <1>2

LEMMA AddDaysAdds ==
  ASSUME NEW r \in Registers, NEW n \in 0..(Byte - 1)
  PROVE  AddDays(r, n) \in Registers /\ Adds(r, AddDays(r, n), Day * n)
<1> DEFINE day == GetDay(r) + (n % Byte)
           wraps == day >= MaxDays
           new == IF wraps THEN day - MaxDays ELSE day
           q == AddDays(r, n)
<1>1. n % Byte = n /\ Byte \in Nat \ {0} /\ n \in Nat /\ Day \in Nat
  BY Units
<1>2. GetDay(r) \in 0..(MaxDays - 1) /\ MaxDays = 2 * Byte
  BY TotalNat, Periods
<1>3. new \in 0..(MaxDays - 1)
  BY <1>1, <1>2
<1>4. /\ new % Byte \in 0..(Byte - 1) /\ (new \div Byte) % 2 \in {0, 1}
      /\ (new % Byte) + Byte * ((new \div Byte) % 2) = new
  BY <1>1, <1>2, <1>3, NineBits
<1>5. q = [r EXCEPT !.DL = new % Byte, !.day8 = (new \div Byte) % 2, !.carry = @ \/ wraps]
  BY DEF AddDays
<1>6. /\ q \in Registers
      /\ q.S = r.S /\ q.M = r.M /\ q.H = r.H /\ q.halt = r.halt
      /\ q.DL = new % Byte /\ q.day8 = (new \div Byte) % 2
      /\ q.carry = (r.carry \/ wraps)
  BY <1>4, <1>5, Zenon DEF Registers
<1>7. GetDay(q) = new
  BY <1>4, <1>6 DEF GetDay
<1> HIDE DEF q
<1>8. r.carry \in BOOLEAN
  BY DEF Registers
<1>9. /\ Total(r) \in Nat /\ Total(q) \in Nat
      /\ Total(q) - Day * new = Total(r) - Day * GetDay(r)
  <2>1. /\ Total(r) = r.S + Minute * r.M + Hour * r.H + Day * GetDay(r)
        /\ Total(q) = r.S + Minute * r.M + Hour * r.H + Day * new
        /\ r.S \in Nat /\ Minute * r.M \in Nat /\ Hour * r.H \in Nat
        /\ Day * GetDay(r) \in Nat /\ Day * new \in Nat
    BY TotalNat, <1>6, <1>7 DEF Registers
  <2> QED BY <2>1, TotalNat, <1>6
<1>10. ASSUME wraps PROVE Adds(r, q, Day * n)
  <2>1. Day * new = Day * (GetDay(r) + n) - Day * MaxDays
    <3>1. new = (GetDay(r) + n) - MaxDays
      BY <1>10, <1>1
    <3> HIDE DEF new
    <3> QED BY <3>1, <1>1, <1>2, Distribute, Periods
  <2>2. Day * (GetDay(r) + n) = Day * GetDay(r) + Day * n
    BY <1>1, <1>2, Distribute
  <2>3. Day * GetDay(r) \in Int /\ Day * n \in Int /\ Day * new \in Int /\ Day * MaxDays = Period /\ Period \in Nat
    BY <1>1, <1>2, <1>3, Distribute, Periods DEF Period
  <2>4. Total(q) + Period * 1 = Total(r) + Day * n
    BY <2>1, <2>2, <2>3, <1>9
  <2>5. q.carry = TRUE
    BY <1>6, <1>10
  <2> HIDE DEF new, wraps
  <2> QED BY <1>6, <2>4, <2>5 DEF Adds
<1>11. ASSUME ~wraps PROVE Adds(r, q, Day * n)
  <2>1. Day * new = Day * GetDay(r) + Day * n
    BY <1>1, <1>2, <1>11, Distribute
  <2>2. Day * GetDay(r) \in Int /\ Day * n \in Int /\ Day * new \in Int /\ Period \in Nat
    BY <1>1, <1>2, <1>3, Distribute, Periods
  <2>3. Total(q) + Period * 0 = Total(r) + Day * n
    BY <2>1, <2>2, <1>9
  <2>4. q.carry = r.carry
    BY <1>6, <1>8, <1>11
  <2> HIDE DEF new, wraps
  <2> QED BY <1>6, <2>3, <2>4 DEF Adds
<1> QED BY <1>6, <1>10, <1>11 DEF q

(* What carries into the next unit. *)
LEMMA Carried ==
  ASSUME NEW r \in Registers, NEW q \in Registers, NEW s \in Registers, NEW u, NEW n,
         Adds(q, s, u), q.halt = r.halt, q.carry = r.carry, Total(q) + u = Total(r) + n
  PROVE  Adds(r, s, n)
BY DEF Adds

LEMMA AddHoursAdds ==
  ASSUME NEW r \in Registers, NEW n \in 0..(Byte - 1)
  PROVE  AddHours(r, n) \in Registers /\ Adds(r, AddHours(r, n), Hour * n)
<1> DEFINE H == r.H + n
<1>1. /\ n % Byte = n /\ n \in Nat /\ r.H \in Nat /\ 1 \in 0..(Byte - 1)
      /\ Hour \in Nat /\ HourPerDay \in Nat /\ Day \in Nat /\ Hour * HourPerDay = Day
  BY Units DEF Registers
<1>2. ASSUME NEW new \in Nat
      PROVE  LET q == [r EXCEPT !.H = new] IN
             /\ q \in Registers /\ q.halt = r.halt /\ q.carry = r.carry
             /\ Total(q) \in Nat /\ Total(r) \in Nat
             /\ Hour * new \in Int /\ Hour * r.H \in Int
             /\ Total(q) - Hour * new = Total(r) - Hour * r.H
  <2> DEFINE q == [r EXCEPT !.H = new]
  <2>1. q \in Registers /\ q.halt = r.halt /\ q.carry = r.carry
    BY DEF Registers
  <2>2. Hour * new \in Int /\ Hour * r.H \in Int
    BY <1>1, Distribute
  <2>3. /\ Total(q) = r.S + Minute * r.M + Hour * new + Day * GetDay(r)
        /\ Total(r) = r.S + Minute * r.M + Hour * r.H + Day * GetDay(r)
        /\ r.S \in Nat /\ Minute * r.M \in Nat /\ Hour * r.H \in Nat /\ Day * GetDay(r) \in Nat
        /\ Total(q) \in Nat /\ Total(r) \in Nat
    BY <2>1, TotalNat DEF Total, GetDay, Registers
  <2> QED BY <2>1, <2>2, <2>3
<1>3. CASE H >= HourPerDay
  <2> DEFINE q == [r EXCEPT !.H = H - HourPerDay]
             s == AddDays(q, 1)
  <2>1. H - HourPerDay \in Nat
    BY <1>1, <1>3
  <2>2. q \in Registers /\ q.halt = r.halt /\ q.carry = r.carry
    BY <1>2, <2>1
  <2>3. s \in Registers /\ Adds(q, s, Day * 1)
    BY <1>1, <2>2, AddDaysAdds
  <2>4. Hour * (H - HourPerDay) = Hour * r.H + Hour * n - Day
    <3>1. Hour * (H - HourPerDay) = Hour * H - Hour * HourPerDay
      BY <1>1, Distribute
    <3>2. Hour * H = Hour * r.H + Hour * n
      BY <1>1, Distribute
    <3>3. Hour * r.H \in Int /\ Hour * n \in Int
      BY <1>1, Distribute
    <3> HIDE DEF H
    <3> QED BY <1>1, <3>1, <3>2, <3>3
  <2>5. Hour * n \in Nat
    BY <1>1, SMT
  <2>6. Total(q) + Day * 1 = Total(r) + Hour * n
    BY <1>1, <1>2, <2>1, <2>4, <2>5
  <2>7. AddHours(r, n) = s
    BY <1>1, <1>3 DEF AddHours
  <2> HIDE DEF q, s
  <2>8. Adds(r, s, Hour * n)
    BY <2>2, <2>3, <2>6, Carried
  <2> QED BY <2>3, <2>7, <2>8
<1>4. CASE ~(H >= HourPerDay)
  <2> DEFINE q == [r EXCEPT !.H = H]
  <2>1. H \in Nat
    BY <1>1
  <2>2. /\ q \in Registers /\ q.halt = r.halt /\ q.carry = r.carry
        /\ Total(q) \in Nat /\ Total(r) \in Nat
        /\ Total(q) - Hour * H = Total(r) - Hour * r.H
        /\ Hour * H \in Int /\ Hour * r.H \in Int
    BY <1>2, <2>1
  <2>3. Hour * H = Hour * r.H + Hour * n /\ Hour * n \in Int
    BY <1>1, Distribute
  <2>4. Total(q) + Period * 0 = Total(r) + Hour * n
    BY <2>2, <2>3, Periods
  <2>5. AddHours(r, n) = q
    BY <1>1, <1>4 DEF AddHours
  <2> HIDE DEF q
  <2>6. Adds(r, q, Hour * n)
    BY <2>2, <2>4 DEF Adds
  <2> QED BY <2>2, <2>5, <2>6
<1> QED BY <1>3, <1>4

LEMMA AddMinutesAdds ==
  ASSUME NEW r \in Registers, NEW n \in 0..(Byte - 1)
  PROVE  AddMinutes(r, n) \in Registers /\ Adds(r, AddMinutes(r, n), Minute * n)
<1> DEFINE M == r.M + n
<1>1. /\ n % Byte = n /\ n \in Nat /\ r.M \in Nat /\ 1 \in 0..(Byte - 1)
      /\ Minute \in Nat /\ MinPerHour \in Nat /\ Hour \in Nat /\ Minute * MinPerHour = Hour
  BY Units DEF Registers
<1>2. ASSUME NEW new \in Nat
      PROVE  LET q == [r EXCEPT !.M = new] IN
             /\ q \in Registers /\ q.halt = r.halt /\ q.carry = r.carry
             /\ Total(q) \in Nat /\ Total(r) \in Nat
             /\ Minute * new \in Int /\ Minute * r.M \in Int
             /\ Total(q) - Minute * new = Total(r) - Minute * r.M
  <2> DEFINE q == [r EXCEPT !.M = new]
  <2>1. q \in Registers /\ q.halt = r.halt /\ q.carry = r.carry
    BY DEF Registers
  <2>2. Minute * new \in Int /\ Minute * r.M \in Int
    BY <1>1, Distribute
  <2>3. /\ Total(q) = r.S + Minute * new + Hour * r.H + Day * GetDay(r)
        /\ Total(r) = r.S + Minute * r.M + Hour * r.H + Day * GetDay(r)
        /\ r.S \in Nat /\ Minute * r.M \in Nat /\ Hour * r.H \in Nat /\ Day * GetDay(r) \in Nat
        /\ Total(q) \in Nat /\ Total(r) \in Nat
    BY <2>1, TotalNat DEF Total, GetDay, Registers
  <2> QED BY <2>1, <2>2, <2>3
<1>3. CASE M >= MinPerHour
  <2> DEFINE q == [r EXCEPT !.M = M - MinPerHour]
             s == AddHours(q, 1)
  <2>1. M - MinPerHour \in Nat
    BY <1>1, <1>3
  <2>2. q \in Registers /\ q.halt = r.halt /\ q.carry = r.carry
    BY <1>2, <2>1
  <2>3. s \in Registers /\ Adds(q, s, Hour * 1)
    BY <1>1, <2>2, AddHoursAdds
  <2>4. Minute * (M - MinPerHour) = Minute * r.M + Minute * n - Hour
    <3>1. Minute * (M - MinPerHour) = Minute * M - Minute * MinPerHour
      BY <1>1, Distribute
    <3>2. Minute * M = Minute * r.M + Minute * n
      BY <1>1, Distribute
    <3>3. Minute * r.M \in Int /\ Minute * n \in Int
      BY <1>1, Distribute
    <3> HIDE DEF M
    <3> QED BY <1>1, <3>1, <3>2, <3>3
  <2>5. Minute * n \in Nat
    BY <1>1, SMT
  <2>6. Total(q) + Hour * 1 = Total(r) + Minute * n
    BY <1>1, <1>2, <2>1, <2>4, <2>5
  <2>7. AddMinutes(r, n) = s
    BY <1>1, <1>3 DEF AddMinutes
  <2> HIDE DEF q, s
  <2>8. Adds(r, s, Minute * n)
    BY <2>2, <2>3, <2>6, Carried
  <2> QED BY <2>3, <2>7, <2>8
<1>4. CASE ~(M >= MinPerHour)
  <2> DEFINE q == [r EXCEPT !.M = M]
  <2>1. M \in Nat
    BY <1>1
  <2>2. /\ q \in Registers /\ q.halt = r.halt /\ q.carry = r.carry
        /\ Total(q) \in Nat /\ Total(r) \in Nat
        /\ Total(q) - Minute * M = Total(r) - Minute * r.M
        /\ Minute * M \in Int /\ Minute * r.M \in Int
    BY <1>2, <2>1
  <2>3. Minute * M = Minute * r.M + Minute * n /\ Minute * n \in Int
    BY <1>1, Distribute
  <2>4. Total(q) + Period * 0 = Total(r) + Minute * n
    BY <2>2, <2>3, Periods
  <2>5. AddMinutes(r, n) = q
    BY <1>1, <1>4 DEF AddMinutes
  <2> HIDE DEF q
  <2>6. Adds(r, q, Minute * n)
    BY <2>2, <2>4 DEF Adds
  <2> QED BY <2>2, <2>5, <2>6
<1> QED BY <1>3, <1>4

LEMMA AddSecondsAdds ==
  ASSUME NEW r \in Registers, NEW n \in 0..(Byte - 1)
  PROVE  AddSeconds(r, n) \in Registers /\ Adds(r, AddSeconds(r, n), n)
<1> DEFINE S == r.S + n
<1>1. /\ n % Byte = n /\ n \in Nat /\ r.S \in Nat /\ 1 \in 0..(Byte - 1)
      /\ Minute \in Nat /\ SecPerMin = Minute
  BY Units DEF Registers, Minute
<1>2. ASSUME NEW new \in Nat
      PROVE  LET q == [r EXCEPT !.S = new] IN
             /\ q \in Registers /\ q.halt = r.halt /\ q.carry = r.carry
             /\ Total(q) \in Nat /\ Total(r) \in Nat
             /\ Total(q) - new = Total(r) - r.S
  <2> DEFINE q == [r EXCEPT !.S = new]
  <2>1. q \in Registers /\ q.halt = r.halt /\ q.carry = r.carry
    BY DEF Registers
  <2>2. /\ Total(q) = new + Minute * r.M + Hour * r.H + Day * GetDay(r)
        /\ Total(r) = r.S + Minute * r.M + Hour * r.H + Day * GetDay(r)
        /\ Minute * r.M \in Nat /\ Hour * r.H \in Nat /\ Day * GetDay(r) \in Nat
        /\ Total(q) \in Nat /\ Total(r) \in Nat
    BY <2>1, TotalNat DEF Total, GetDay, Registers
  <2> QED BY <1>1, <2>1, <2>2
<1>3. CASE S >= SecPerMin
  <2> DEFINE q == [r EXCEPT !.S = S - SecPerMin]
             s == AddMinutes(q, 1)
  <2>1. S - SecPerMin \in Nat
    BY <1>1, <1>3
  <2>2. q \in Registers /\ q.halt = r.halt /\ q.carry = r.carry
    BY <1>2, <2>1
  <2>3. s \in Registers /\ Adds(q, s, Minute * 1)
    BY <1>1, <2>2, AddMinutesAdds
  <2>4. Total(q) + Minute * 1 = Total(r) + n
    <3>1. /\ Total(q) \in Nat /\ Total(r) \in Nat
          /\ Total(q) - (S - SecPerMin) = Total(r) - r.S
      BY <1>2, <2>1
    <3> HIDE DEF q
    <3> QED BY <3>1, <1>1
  <2>5. AddSeconds(r, n) = s
    BY <1>1, <1>3 DEF AddSeconds
  <2> HIDE DEF q, s
  <2>6. Adds(r, s, n)
    BY <2>2, <2>3, <2>4, Carried
  <2> QED BY <2>3, <2>5, <2>6
<1>4. CASE ~(S >= SecPerMin)
  <2> DEFINE q == [r EXCEPT !.S = S]
  <2>1. S \in Nat
    BY <1>1
  <2>2. /\ q \in Registers /\ q.halt = r.halt /\ q.carry = r.carry
        /\ Total(q) \in Nat /\ Total(r) \in Nat /\ Total(q) - S = Total(r) - r.S
    BY <1>2, <2>1
  <2>3. AddSeconds(r, n) = q
    BY <1>1, <1>4 DEF AddSeconds
  <2> HIDE DEF q
  <2>4. Total(q) + Period * 0 = Total(r) + n
    BY <1>1, <2>2, Periods
  <2>5. Adds(r, q, n)
    BY <2>2, <2>4 DEF Adds
  <2> QED BY <2>2, <2>3, <2>5
<1> QED BY <1>3, <1>4

(* A multiple of a unit, cut to less than the next unit. *)
LEMMA CutToNext ==
  ASSUME NEW u \in Nat \ {0}, NEW p \in Nat \ {0}, NEW x \in Nat
  PROVE  /\ (u * x) % (u * p) = u * (x % p)
         /\ u * x - u * (x % p) = (u * p) * (x \div p)
         /\ (u * (x % p)) \div u = x % p
<1> DEFINE y == x \div p
           z == x % p
<1>1. y \in Nat /\ z \in 0..(p - 1) /\ x = p * y + z
  BY Divided
<1> HIDE DEF y, z
<1>2. u * x = u * (p * y) + u * z /\ u * (p * y) = (u * p) * y /\ u * p \in Nat \ {0}
  BY <1>1, SMT
<1>3. u * z \in 0..(u * p - 1)
  <2>1. u * z \in Nat
    BY <1>1, SMT
  <2>2. u * (p - z) = u * p - u * z /\ u * (p - z) >= 1
    BY <1>1, SMT
  <2> QED BY <2>1, <2>2, <1>2
<1>4. ((u * p) * y + u * z) % (u * p) = u * z
  BY <1>1, <1>2, <1>3, Division
<1>5. (u * z + 0) \div u = z
  BY <1>1, Division
<1> QED BY <1>1, <1>2, <1>3, <1>4, <1>5 DEF y, z

(* update_time: the elapsed seconds, whatever they are made of. *)
LEMMA AdvancedAdds ==
  ASSUME NEW r \in Registers, NEW t \in 0..MaxAge
  PROVE  Advanced(r, t) \in Registers /\ Adds(r, Advanced(r, t), t)
<1> DEFINE s == t % Minute
           x == t \div Minute
           m == x % MinPerHour
           y == x \div MinPerHour
           h == y % HourPerDay
           d == y \div HourPerDay
<1>1. /\ SecPerMin \in 1..Byte /\ MinPerHour \in 1..Byte /\ HourPerDay \in 1..Byte
      /\ Byte \in Nat \ {0, 1}
      /\ Minute \in Nat \ {0} /\ Hour \in Nat \ {0} /\ Day \in Nat \ {0}
      /\ MinPerHour \in Nat \ {0} /\ HourPerDay \in Nat \ {0}
      /\ Hour = Minute * MinPerHour /\ Day = Hour * HourPerDay /\ Minute = SecPerMin
      /\ t \in Nat /\ t < Day * Byte /\ Day * Byte \in Nat
  BY Units, Periods, RtcAssumption DEF Minute
<1>2. s \in 0..(Minute - 1) /\ x \in Nat /\ t = Minute * x + s
  BY <1>1, Divided
<1>3. m \in 0..(MinPerHour - 1) /\ y \in Nat
  BY <1>1, <1>2, Divided
<1>4. h \in 0..(HourPerDay - 1) /\ d \in Nat
  BY <1>1, <1>3, Divided
<1> HIDE DEF s, x
<1>5. /\ (Minute * x) % Hour = Minute * m
      /\ Minute * x - Minute * m = Hour * y
      /\ (Minute * m) \div Minute = m
  <2>1. /\ (Minute * x) % (Minute * MinPerHour) = Minute * m
        /\ Minute * x - Minute * m = (Minute * MinPerHour) * y
        /\ (Minute * m) \div Minute = m
    <3>1. Minute \in Nat \ {0} /\ MinPerHour \in Nat \ {0} /\ x \in Nat
      BY <1>1, <1>2
    <3> QED BY <3>1, CutToNext
  <2> HIDE DEF m, y
  <2> QED BY <2>1, <1>1, Zenon
<1> HIDE DEF m, y
<1>6. /\ (Hour * y) % Day = Hour * h
      /\ Hour * y - Hour * h = Day * d
      /\ (Hour * h) \div Hour = h
  <2>1. /\ (Hour * y) % (Hour * HourPerDay) = Hour * h
        /\ Hour * y - Hour * h = (Hour * HourPerDay) * d
        /\ (Hour * h) \div Hour = h
    <3>1. Hour \in Nat \ {0} /\ HourPerDay \in Nat \ {0} /\ y \in Nat
      BY <1>1, <1>3
    <3> QED BY <3>1, CutToNext
  <2> HIDE DEF h, d
  <2> QED BY <2>1, <1>1, Zenon
<1> HIDE DEF h, d
<1>7. (Day * d + 0) \div Day = d
  BY <1>1, <1>4, Division
<1>8. /\ Minute * x \in Nat /\ Minute * m \in Nat /\ Hour * y \in Nat /\ Hour * h \in Nat
      /\ Day * d \in Nat
  <2>1. \A a, b \in Nat : a * b \in Nat
    BY SMT
  <2> QED BY <2>1, <1>1, <1>2, <1>3, <1>4
<1>9. d \in 0..(Byte - 1)
  <2>1. Day * d < Day * Byte
    BY <1>1, <1>2, <1>5, <1>6, <1>8
  <2>2. SUFFICES ASSUME d >= Byte PROVE FALSE
    BY <1>1, <1>4
  <2>3. Day * (d - Byte) = Day * d - Day * Byte /\ Day * (d - Byte) >= 0
    BY <1>1, <1>4, <2>2, SMT
  <2> QED BY <1>1, <1>8, <2>1, <2>3
<1> DEFINE r1 == AddSeconds(r, s)
           r2 == AddMinutes(r1, m)
           r3 == AddHours(r2, h)
           r4 == AddDays(r3, d)
<1>10. r1 \in Registers /\ Adds(r, r1, s)
  BY <1>1, <1>2, AddSecondsAdds
<1>11. r2 \in Registers /\ Adds(r1, r2, Minute * m)
  <2> HIDE DEF r1
  <2> QED BY <1>1, <1>3, <1>10, AddMinutesAdds
<1>12. r3 \in Registers /\ Adds(r2, r3, Hour * h)
  <2> HIDE DEF r2
  <2> QED BY <1>1, <1>4, <1>11, AddHoursAdds
<1>13. r4 \in Registers /\ Adds(r3, r4, Day * d)
  <2> HIDE DEF r3
  <2> QED BY <1>1, <1>9, <1>12, AddDaysAdds
<1>14. Advanced(r, t) = r4
  <2>1. Rem(t, Minute) = s
    BY <1>1 DEF Rem, s
  <2>2. t - s = Minute * x /\ t - s >= 0
    BY <1>1, <1>2, <1>8
  <2>3. Rem(t - s, Hour) = Minute * m
    BY <2>2, <1>5 DEF Rem
  <2>4. t - s - Minute * m = Hour * y /\ t - s - Minute * m >= 0
    BY <2>2, <1>5, <1>8
  <2>5. Rem(t - s - Minute * m, Day) = Hour * h
    BY <2>4, <1>6 DEF Rem
  <2>6. t - s - Minute * m - Hour * h = Day * d
    BY <2>4, <1>6, <1>8
  <2>7. /\ Quot(Minute * m, Minute) = m /\ Quot(Hour * h, Hour) = h /\ Quot(Day * d, Day) = d
    BY <1>1, <1>5, <1>6, <1>7, <1>8 DEF Quot
  <2> QED BY <2>1, <2>3, <2>5, <2>6, <2>7, Zenon DEF Advanced
<1> HIDE DEF r1, r2, r3, r4
<1>15. Adds(r, r2, s + Minute * m)
  BY <1>2, <1>1, <1>8, <1>10, <1>11, AddsTwice
<1>16. Adds(r, r3, s + Minute * m + Hour * h)
  BY <1>2, <1>1, <1>8, <1>11, <1>12, <1>15, AddsTwice
<1>17. Adds(r, r4, s + Minute * m + Hour * h + Day * d)
  BY <1>2, <1>1, <1>8, <1>12, <1>13, <1>16, AddsTwice
<1>18. s + Minute * m + Hour * h + Day * d = t
  BY <1>1, <1>2, <1>5, <1>6, <1>8
<1> QED BY <1>13, <1>14, <1>17, <1>18

(* Remainders of the period. *)
LEMMA Wraps ==
  ASSUME NEW a \in Nat, NEW b \in Nat, NEW p \in Nat \ {0}, NEW k \in Nat, b + p * k = a
  PROVE  b % p = a % p /\ (k > 0 => a >= p) /\ a % p \in 0..(p - 1)
<1> DEFINE q == b \div p
           r == b % p
<1>1. q \in Nat /\ r \in 0..(p - 1) /\ b = p * q + r
  BY Divided
<1> HIDE DEF q, r
<1>2. a = p * (q + k) + r /\ q + k \in Nat
  BY <1>1, SMT
<1>3. (p * q + r) % p = r
  BY <1>1, Division
<1>4. (p * (q + k) + r) % p = r
  BY <1>1, <1>2, Division
<1>5. k > 0 => p * k >= p
  <2>1. SUFFICES ASSUME k > 0 PROVE p * k >= p
    OBVIOUS
  <2>2. p * (k - 1) = p * k - p /\ p * (k - 1) >= 0 /\ p * k \in Int
    BY <2>1, SMT
  <2> QED BY <2>2
<1>6. p * k \in Nat
  BY SMT
<1>7. k > 0 => a >= p
  BY <1>5, <1>6
<1> QED BY <1>1, <1>2, <1>3, <1>4, <1>7

(* Half a period more, or less, is half a period more. *)
LEMMA HalfMore ==
  ASSUME NEW a \in Nat, NEW b \in Nat, NEW n \in Nat \ {0}, b = a + n \/ b = a - n
  PROVE  b % (2 * n) = ((a % (2 * n)) + n) % (2 * n)
<1> DEFINE p == 2 * n
           q == a \div p
           r == a % p
<1>1. p \in Nat \ {0} /\ p = 2 * n
  OBVIOUS
<1> HIDE DEF p
<1>2. q \in Nat /\ r \in 0..(p - 1) /\ a = p * q + r
  BY <1>1, Divided
<1> HIDE DEF q, r
<1>3. CASE r < n
  <2>1. r + n \in 0..(p - 1) /\ (r + n) % p = r + n
    BY <1>1, <1>2, <1>3
  <2>2. CASE b = a + n
    <3>1. b = p * q + (r + n)
      <4>1. p * q \in Nat
        BY <1>1, <1>2, SMT
      <4> QED BY <4>1, <1>2, <2>2
    <3> QED BY <3>1, <2>1, <1>1, <1>2, Division DEF r, p
  <2>3. CASE b = a - n
    <3>1. q > 0
      <4>1. q = 0 => p * q = 0
        BY <1>1, SMT
      <4> QED BY <4>1, <1>2, <1>3, <2>3
    <3>2. b = p * (q - 1) + (r + n) /\ q - 1 \in Nat
      <4>1. p * (q - 1) = p * q - p /\ p * q \in Nat
        BY <1>1, <1>2, SMT
      <4> QED BY <3>1, <4>1, <1>1, <1>2, <2>3
    <3> QED BY <3>2, <2>1, <1>1, <1>2, Division DEF r, p
  <2> QED BY <2>2, <2>3
<1>4. CASE r >= n
  <2>1. /\ r - n \in 0..(p - 1)
        /\ (r + n) % p = r - n
    <3>1. r + n = p * 1 + (r - n) /\ r - n \in 0..(p - 1)
      BY <1>1, <1>2, <1>4
    <3>2. (p * 1 + (r - n)) % p = r - n
      BY <3>1, <1>1, Division
    <3> QED BY <3>1, <3>2
  <2>2. CASE b = a + n
    <3>1. b = p * (q + 1) + (r - n) /\ q + 1 \in Nat
      <4>1. p * (q + 1) = p * q + p /\ p * q \in Nat
        BY <1>1, <1>2, SMT
      <4> QED BY <4>1, <1>1, <1>2, <2>2
    <3> QED BY <3>1, <2>1, <1>1, <1>2, Division DEF r, p
  <2>3. CASE b = a - n
    <3>1. b = p * q + (r - n)
      <4>1. p * q \in Nat
        BY <1>1, <1>2, SMT
      <4> QED BY <4>1, <1>2, <2>3
    <3> QED BY <3>1, <2>1, <1>1, <1>2, Division DEF r, p
  <2> QED BY <2>2, <2>3
<1> QED BY <1>2, <1>3, <1>4

(* An update leaves the time, the halt bit and the overflow what they were. *)
LEMMA UpdateKeeps ==
  ASSUME hidden \in Registers, age \in 0..MaxAge
  PROVE  /\ Updated \in Registers /\ Updated.halt = hidden.halt
         /\ Pending \in Nat /\ Total(Updated) \in Nat
         /\ Total(Updated) % Period = Pending % Period
         /\ (Updated.carry \/ Total(Updated) >= Period)
              = (hidden.carry \/ Pending >= Period)
<1>1. /\ Total(hidden) \in Nat /\ age \in Nat /\ Period \in Nat \ {0}
      /\ hidden.halt \in BOOLEAN /\ hidden.carry \in BOOLEAN
  BY TotalNat, Periods, RtcAssumption DEF Registers
<1>2. Pending \in Nat
  BY <1>1 DEF Pending
<1>3. CASE hidden.halt
  <2>1. Updated = hidden /\ Pending = Total(hidden)
    BY <1>1, <1>3 DEF Updated, Pending
  <2> QED BY <1>1, <2>1
<1>4. CASE ~hidden.halt
  <2>1. Updated = Advanced(hidden, age) /\ Pending = Total(hidden) + age
    BY <1>4 DEF Updated, Pending
  <2>2. Updated \in Registers /\ Adds(hidden, Updated, age)
    BY <2>1, AdvancedAdds
  <2>3. PICK k \in Nat : /\ Total(Updated) + Period * k = Pending
                         /\ (k = 0 /\ Updated.carry = hidden.carry) \/ (k > 0 /\ Updated.carry = TRUE)
    BY <2>1, <2>2 DEF Adds
  <2>4. Total(Updated) \in Nat /\ Updated.carry \in BOOLEAN /\ Updated.halt = hidden.halt
    BY <2>2, TotalNat DEF Adds, Registers
  <2>5. Total(Updated) % Period = Pending % Period /\ (k > 0 => Pending >= Period)
    BY <1>1, <1>2, <2>3, <2>4, Wraps
  <2>6. CASE k = 0
    <3>1. Period * k = 0
      BY <1>1, <2>6
    <3>2. Total(Updated) = Pending /\ Updated.carry = hidden.carry
      BY <3>1, <2>3, <2>4, <1>2, <2>6
    <3> QED BY <3>2, <1>2, <2>2, <2>4, <2>5
  <2>7. CASE k > 0
    <3>1. Updated.carry = TRUE /\ Pending >= Period
      BY <2>3, <2>5, <2>7
    <3> QED BY <3>1, <1>2, <2>2, <2>4, <2>5
  <2> QED BY <2>3, <2>6, <2>7
<1> QED BY <1>1, <1>3, <1>4

(* The host clock never runs backwards. *)
Inv == TypeOK /\ age >= 0

LEMMA InitInv == Init => Inv
<1> SUFFICES ASSUME Init PROVE Inv
  OBVIOUS
<1>1. Garbage \subseteq Registers /\ MaxAge \in Nat
  BY RtcAssumption
<1>2. hidden \in Registers /\ latched \in Registers
  BY <1>1 DEF Init
<1>3. age \in -MaxAge..MaxAge /\ age >= 0
  BY <1>1 DEF Init
<1>4. /\ on \in BOOLEAN /\ saved \in BOOLEAN /\ is_latched \in BOOLEAN
      /\ enabled \in BOOLEAN /\ bank = "RAM"
  BY Zenon DEF Init
<1> QED BY <1>2, <1>3, <1>4 DEF Inv, TypeOK

LEMMA StepInv == Steps = {1} /\ Inv /\ [Next]_vars => Inv'
<1> SUFFICES ASSUME Steps = {1}, Inv, [Next]_vars PROVE Inv'
  OBVIOUS
<1>1. /\ Garbage \subseteq Registers /\ MaxAge \in Nat /\ Battery \subseteq BOOLEAN
      /\ Banks \subseteq RtcBanks \cup {"RAM"}
  BY RtcAssumption
<1>2. hidden \in Registers /\ latched \in Registers /\ age \in 0..MaxAge /\ 0 \in 0..MaxAge
  BY <1>1 DEF Inv, TypeOK
<1>3. Updated \in Registers
  BY <1>2, UpdateKeeps
<1>4. CASE HostTime
  <2>1. age' = age + 1 /\ age' \in -MaxAge..MaxAge
    BY <1>4 DEF HostTime
  <2> QED BY <1>2, <1>4, <2>1 DEF HostTime, Inv, TypeOK
<1>5. ASSUME NEW v \in BOOLEAN, WriteEnable(v) PROVE Inv'
  BY <1>5 DEF WriteEnable, Inv, TypeOK
<1>6. ASSUME NEW b \in Banks, WriteBank(b) PROVE Inv'
  BY <1>1, <1>6 DEF WriteBank, Inv, TypeOK
<1>7. ASSUME NEW bit \in BOOLEAN, WriteLatch(bit) PROVE Inv'
  BY <1>1, <1>3, <1>7 DEF WriteLatch, UpdateAge, Inv, TypeOK
<1>8. ASSUME NEW d \in Data, WriteReg(d) PROVE Inv'
  <2>1. ASSUME NEW r \in Registers PROVE Stored(r, d) \in Registers
    <3>1. d \in Nat /\ d \in 0..(Byte - 1)
      BY RtcAssumption
    <3>2. CASE bank = "S"
      BY <3>1, <3>2 DEF Stored, Registers
    <3>3. CASE bank = "M"
      BY <3>1, <3>3 DEF Stored, Registers
    <3>4. CASE bank = "H"
      BY <3>1, <3>4 DEF Stored, Registers
    <3>5. CASE bank = "DL"
      BY <3>1, <3>5 DEF Stored, Registers
    <3>6. CASE bank \notin {"S", "M", "H", "DL"}
      <4>1. Stored(r, d) = r
        BY <3>6, Zenon DEF Stored
      <4> QED BY <4>1
    <3> QED BY <3>2, <3>3, <3>4, <3>5, <3>6
  <2> QED BY <1>1, <1>2, <1>3, <1>8, <2>1 DEF WriteReg, UpdateAge, Inv, TypeOK
<1>9. ASSUME NEW day8 \in {0, 1}, NEW halt \in BOOLEAN, NEW carry \in BOOLEAN,
             WriteDH(day8, halt, carry)
      PROVE  Inv'
  <2>1. ASSUME NEW r \in Registers
        PROVE  [r EXCEPT !.day8 = day8, !.halt = halt, !.carry = carry] \in Registers
    BY DEF Registers
  <2>2. hidden' \in Registers /\ latched' \in Registers
    <3>1. /\ hidden' = [Updated EXCEPT !.day8 = day8, !.halt = halt, !.carry = carry]
          /\ latched' = [latched EXCEPT !.day8 = day8, !.halt = halt, !.carry = carry]
      BY <1>9 DEF WriteDH
    <3> QED BY <1>2, <1>3, <2>1, <3>1
  <2>3. age' = 0 /\ UNCHANGED <<on, saved, is_latched, enabled, bank>>
    BY <1>9 DEF WriteDH, UpdateAge
  <2> QED BY <1>1, <1>2, <2>2, <2>3 DEF Inv, TypeOK
<1>10. CASE Close
  <2>1. hidden' \in Registers /\ age' = 0 /\ on' \in BOOLEAN
        /\ UNCHANGED <<latched, is_latched, enabled, bank>>
    BY <1>3, <1>10 DEF Close, UpdateAge
  <2>2. saved' \in BOOLEAN
    <3>1. PICK b \in Battery : saved' = ~b
      BY <1>10 DEF Close
    <3> QED BY <3>1, Zenon
  <2> QED BY <1>1, <1>2, <2>1, <2>2 DEF Inv, TypeOK
<1>11. CASE Open
  <2>1. hidden' \in Registers /\ latched' \in Registers /\ age' \in 0..MaxAge
    BY <1>1, <1>2, <1>11 DEF Open
  <2>2. /\ on' \in BOOLEAN /\ is_latched' \in BOOLEAN /\ enabled' \in BOOLEAN
        /\ bank' = "RAM" /\ UNCHANGED saved
    <3>1. on' = TRUE /\ is_latched' = FALSE /\ enabled' = TRUE /\ bank' = "RAM" /\ saved' = saved
      BY <1>11, Zenon DEF Open, Opened
    <3> QED BY <3>1, Zenon
  <2> QED BY <1>1, <2>1, <2>2 DEF Inv, TypeOK
<1>12. CASE UNCHANGED vars
  BY <1>12 DEF vars, Inv, TypeOK
<1> QED BY <1>4, <1>5, <1>6, <1>7, <1>8, <1>9, <1>10, <1>11, <1>12 DEF Next

(* Each step of the cartridge and of the host is one of Clock, or none. *)
LEMMA StepMaps ==
  ASSUME Steps = {1}, Inv, [Next]_vars, on \/ saved
  PROVE  RtcClock!Next \/ UNCHANGED RtcClock!vars
<1> DEFINE Value == Pending % Period
           Over  == hidden.carry \/ Pending >= Period
           Sel   == on /\ enabled /\ bank \in RtcBanks
           Shown == Total(latched) % Period
<1>1. /\ hidden \in Registers /\ latched \in Registers /\ age \in 0..MaxAge
      /\ hidden' \in Registers /\ latched' \in Registers
      /\ hidden.halt \in BOOLEAN /\ hidden.carry \in BOOLEAN
      /\ hidden'.halt \in BOOLEAN /\ hidden'.carry \in BOOLEAN
      /\ Period \in Nat \ {0} /\ Day * Byte \in Nat \ {0} /\ Period = 2 * (Day * Byte)
  BY StepInv, Periods, RtcAssumption DEF Inv, TypeOK, Registers
<1>2. /\ Updated \in Registers /\ Updated.halt = hidden.halt
      /\ Pending \in Nat /\ Total(Updated) \in Nat
      /\ Total(Updated) % Period = Value
      /\ (Updated.carry \/ Total(Updated) >= Period) = Over
  BY <1>1, UpdateKeeps
<1>3. ASSUME age' = 0 PROVE Pending' = Total(hidden')
  <2>1. Total(hidden') \in Nat
    BY <1>1, TotalNat
  <2> QED BY <1>3, <2>1 DEF Pending
<1>4. ASSUME hidden' = Updated, age' = 0
      PROVE  Value' = Value /\ Over' = Over /\ hidden'.halt = hidden.halt
  BY <1>2, <1>3, <1>4
<1>5. CASE HostTime
  <2>1. age' = age + 1 /\ UNCHANGED <<on, hidden, latched, enabled, bank>>
    BY <1>5 DEF HostTime
  <2>2. CASE hidden.halt
    <3>1. Pending' = Pending
      BY <2>1, <2>2 DEF Pending
    <3> QED BY <2>1, <3>1 DEF RtcClock!vars
  <2>3. CASE ~hidden.halt
    <3>1. Pending' = Pending + 1
      BY <1>1, <2>1, <2>3, TotalNat DEF Pending
    <3>2. Value' = (Value + 1) % Period
      BY <1>1, <1>2, <3>1
    <3>3. Over' = (Over \/ Value = Period - 1)
      <4>1. CASE Pending >= Period
        BY <1>1, <1>2, <2>1, <3>1, <4>1
      <4>2. CASE Pending < Period
        <5>1. Value = Pending
          BY <1>1, <1>2, <4>2
        <5> QED BY <1>1, <1>2, <2>1, <3>1, <4>2, <5>1
      <4> QED BY <1>1, <1>2, <4>1, <4>2
    <3> QED BY <2>1, <2>3, <3>2, <3>3 DEF RtcClock!Next, RtcClock!Second
  <2> QED BY <2>2, <2>3
<1>6. ASSUME UNCHANGED <<hidden, latched, age>>
      PROVE  RtcClock!Next \/ UNCHANGED RtcClock!vars
  <2>1. Pending' = Pending /\ Sel' \in BOOLEAN
    BY <1>6 DEF Pending
  <2> QED BY <1>6, <2>1 DEF RtcClock!Next, RtcClock!Select
<1>7. ASSUME NEW bit \in BOOLEAN, WriteLatch(bit)
      PROVE  RtcClock!Next \/ UNCHANGED RtcClock!vars
  <2>1. CASE bit /\ ~is_latched
    <3>1. hidden' = Updated /\ latched' = Updated /\ age' = 0 /\ UNCHANGED <<on, enabled, bank>>
      BY <1>7, <2>1 DEF WriteLatch, UpdateAge
    <3>2. Shown' = Value
      BY <1>2, <3>1
    <3> QED BY <1>4, <3>1, <3>2 DEF RtcClock!Next, RtcClock!Latch
  <2>2. CASE ~(bit /\ ~is_latched)
    BY <1>6, <1>7, <2>2 DEF WriteLatch
  <2> QED BY <2>1, <2>2
<1>8. ASSUME NEW d \in Data, WriteReg(d)
      PROVE  RtcClock!Next \/ UNCHANGED RtcClock!vars
  <2>1. /\ hidden' = Stored(Updated, d) /\ latched' = Stored(latched, d) /\ age' = 0
        /\ on /\ enabled /\ UNCHANGED <<on, enabled, bank>>
    BY <1>8 DEF WriteReg, UpdateAge
  <2>2. CASE bank \in {"S", "M", "H", "DL"}
    <3>1. hidden'.halt = hidden.halt
      BY <1>2, <2>1, <2>2 DEF Stored, Registers
    <3>2. Value' \in 0..(Period - 1) /\ Shown' \in 0..(Period - 1) /\ Over' \in BOOLEAN
      <4>1. Total(hidden') \in Nat /\ Total(latched') \in Nat
        BY <1>1, TotalNat
      <4> QED BY <1>1, <1>3, <2>1, <4>1
    <3>3. Sel /\ Sel'
      BY <2>1, <2>2 DEF RtcBanks
    <3> QED BY <3>1, <3>2, <3>3 DEF RtcClock!Next, RtcClock!Set
  <2>3. CASE bank \notin {"S", "M", "H", "DL"}
    <3>1. hidden' = Updated /\ latched' = latched
      BY <2>1, <2>3, Zenon DEF Stored
    <3> QED BY <1>4, <2>1, <3>1 DEF RtcClock!vars
  <2> QED BY <2>2, <2>3
<1>9. ASSUME NEW day8 \in {0, 1}, NEW halt \in BOOLEAN, NEW carry \in BOOLEAN,
             WriteDH(day8, halt, carry)
      PROVE  RtcClock!Next \/ UNCHANGED RtcClock!vars
  <2> DEFINE Top(r) == [r EXCEPT !.day8 = day8, !.halt = halt, !.carry = carry]
  <2>1. /\ hidden' = Top(Updated) /\ latched' = Top(latched) /\ age' = 0
        /\ on /\ enabled /\ bank = "DH" /\ UNCHANGED <<on, enabled, bank>>
    BY <1>9 DEF WriteDH, UpdateAge
  <2>2. ASSUME NEW r \in Registers
        PROVE  Total(Top(r)) % Period \in {Total(r) % Period, ((Total(r) % Period) + Day * Byte) % Period}
    <3> DEFINE q == Top(r)
    <3>1. q \in Registers /\ q.S = r.S /\ q.M = r.M /\ q.H = r.H /\ q.DL = r.DL /\ q.day8 = day8
      BY DEF Registers
    <3> HIDE DEF q
    <3>2. r.day8 \in {0, 1} /\ r.DL \in Nat /\ Byte \in Nat /\ Day \in Nat
      BY Units DEF Registers
    <3>3. /\ Total(r) \in Nat /\ Total(q) \in Nat
          /\ Total(q) - Day * GetDay(q) = Total(r) - Day * GetDay(r)
          /\ Day * GetDay(q) \in Nat /\ Day * GetDay(r) \in Nat
      <4>1. /\ Total(r) = r.S + Minute * r.M + Hour * r.H + Day * GetDay(r)
            /\ Total(q) = r.S + Minute * r.M + Hour * r.H + Day * GetDay(q)
            /\ r.S \in Nat /\ Minute * r.M \in Nat /\ Hour * r.H \in Nat
            /\ Day * GetDay(r) \in Nat /\ Day * GetDay(q) \in Nat
        BY <3>1, TotalNat DEF Registers
      <4> QED BY <4>1, TotalNat, <3>1
    <3>4. /\ r.day8 = day8 => GetDay(q) = GetDay(r)
          /\ r.day8 = 0 /\ day8 = 1 => GetDay(q) = GetDay(r) + Byte
          /\ r.day8 = 1 /\ day8 = 0 => GetDay(q) = GetDay(r) - Byte
      BY <3>1, <3>2 DEF GetDay
    <3>5. CASE r.day8 = day8
      BY <3>3, <3>4, <3>5 DEF q
    <3>6. CASE r.day8 # day8
      <4>1. Day * GetDay(q) = Day * GetDay(r) + Day * Byte \/ Day * GetDay(q) = Day * GetDay(r) - Day * Byte
        <5>1. GetDay(r) \in Int
          BY TotalNat, Periods
        <5> QED BY <3>2, <3>4, <3>6, <5>1, Distribute
      <4>2. Total(q) = Total(r) + Day * Byte \/ Total(q) = Total(r) - Day * Byte
        BY <1>1, <3>3, <4>1
      <4>3. Total(q) % (2 * (Day * Byte)) = ((Total(r) % (2 * (Day * Byte))) + Day * Byte) % (2 * (Day * Byte))
        BY <1>1, <3>3, <4>2, HalfMore
      <4> QED BY <1>1, <4>3 DEF q
    <3> QED BY <3>5, <3>6
  <2>3. RtcClock!Half = Day * Byte
    BY <1>1 DEF RtcClock!Half
  <2>4. Value' \in {Value, (Value + Day * Byte) % Period}
    <3>1. Total(Top(Updated)) % Period \in {Value, (Value + Day * Byte) % Period}
      BY <1>2, <2>2
    <3> QED BY <1>3, <2>1, <3>1
  <2>5. Shown' \in {Shown, (Shown + Day * Byte) % Period}
    BY <1>1, <2>1, <2>2
  <2>6. Sel /\ Sel' /\ Over' \in BOOLEAN /\ (~hidden.halt)' \in BOOLEAN
    BY <2>1 DEF RtcBanks
  <2> QED BY <2>3, <2>4, <2>5, <2>6 DEF RtcClock!Next, RtcClock!SetTop
<1>10. CASE Close
  <2>1. hidden' = Updated /\ latched' = latched /\ age' = 0
    BY <1>10 DEF Close, UpdateAge
  <2>2. Sel' \in BOOLEAN
    OBVIOUS
  <2> QED BY <1>4, <2>1, <2>2 DEF RtcClock!Next, RtcClock!Select
<1>11. CASE Open
  <2>1. saved /\ age' = age /\ UNCHANGED <<hidden, latched>>
    BY <1>1, <1>11 DEF Open
  <2> QED BY <1>6, <2>1
<1>12. ASSUME NEW v \in BOOLEAN, WriteEnable(v) PROVE UNCHANGED <<hidden, latched, age>>
  BY <1>12 DEF WriteEnable
<1>13. ASSUME NEW b \in Banks, WriteBank(b) PROVE UNCHANGED <<hidden, latched, age>>
  BY <1>13 DEF WriteBank
<1>14. CASE UNCHANGED vars
  BY <1>6, <1>14 DEF vars
<1> QED BY <1>5, <1>6, <1>7, <1>8, <1>9, <1>10, <1>11, <1>12, <1>13, <1>14 DEF Next

(* The registers keep their shapes, for every length of minute, hour and day. *)
THEOREM RtcTyped == Steps = {1} => (Spec => []TypeOK)
<1> SUFFICES ASSUME Steps = {1} PROVE Spec => []TypeOK
  OBVIOUS
<1>1. Init => Inv
  BY InitInv
<1>2. Inv /\ [Next]_vars => Inv'
  BY StepInv
<1>3. Inv => TypeOK
  BY DEF Inv
<1> QED BY <1>1, <1>2, <1>3, PTL DEF Spec

(* If the uninitialised hasBattery is false, the clock loses no second and
   gains none, on or off. *)
THEOREM RefinesClock == Steps = {1} /\ Battery = {FALSE} => (Spec => ImplementsClock)
<1> SUFFICES ASSUME Steps = {1}, Battery = {FALSE} PROVE Spec => ImplementsClock
  OBVIOUS
<1> DEFINE Kept == Inv /\ (on \/ saved)
<1>1. Init => Kept
  BY InitInv DEF Init
<1>2. Kept /\ [Next]_vars => Kept'
  <2> SUFFICES ASSUME Kept, [Next]_vars PROVE on' \/ saved'
    BY StepInv
  <2>1. CASE Close
    BY <2>1 DEF Close
  <2>2. CASE ~Close
    BY <2>2 DEF Next, HostTime, WriteEnable, WriteBank, WriteLatch, WriteReg, WriteDH, Open, Opened, vars
  <2> QED BY <2>1, <2>2
<1>3. Kept /\ [Next]_vars => [RtcClock!Next]_RtcClock!vars
  BY StepMaps
<1>4. Init => RtcClock!Init
  <2> SUFFICES ASSUME Init PROVE RtcClock!Init
    OBVIOUS
  <2>1. /\ hidden \in Registers /\ latched \in Registers /\ age \in Nat
        /\ hidden.halt \in BOOLEAN /\ hidden.carry \in BOOLEAN /\ Period \in Nat \ {0}
    BY InitInv, Periods, RtcAssumption DEF Inv, TypeOK, Registers
  <2>2. Total(hidden) \in Nat /\ Total(latched) \in Nat
    BY <2>1, TotalNat
  <2>3. Pending \in Nat
    BY <2>1, <2>2 DEF Pending
  <2>4. Pending % Period \in 0..(Period - 1) /\ Total(latched) % Period \in 0..(Period - 1)
    BY <2>1, <2>2, <2>3
  <2>5. (~hidden.halt) \in BOOLEAN /\ (hidden.carry \/ Pending >= Period) \in BOOLEAN
    OBVIOUS
  <2>6. bank \notin RtcBanks
    BY DEF Init, RtcBanks
  <2> QED BY <2>4, <2>5, <2>6 DEF RtcClock!Init
<1> QED BY <1>1, <1>2, <1>3, <1>4, PTL DEF Spec, ImplementsClock, RtcClock!Spec
=============================================================================
