----------------------------- MODULE BatteryRam -----------------------------
(***************************************************************************)
(* What a cartridge promises of its RAM: a write goes to the selected bank *)
(* and no other, a read gives back what was written there, and with a      *)
(* battery the contents are those of the last time the power was cut.      *)
(***************************************************************************)
EXTENDS Naturals

CONSTANT Bytes

VARIABLES
  banks, battery, \* of this cartridge: its RAM banks, and whether it has a battery
  power,          \* "on", "off", or "dead": the emulator did not end by itself
  enabled,
  bank,           \* the selected bank, if there is RAM
  mem,            \* bank -> byte, what the program finds when the power is on
  saved,          \* bank -> byte, what survives
  dout            \* the byte the program read last

vars == <<banks, battery, power, enabled, bank, mem, saved, dout>>

Init ==
  /\ power = "on" /\ enabled \in BOOLEAN /\ bank \in banks \cup {0}
  /\ mem \in [banks -> Bytes] /\ saved \in [banks -> Bytes]
  /\ battery => saved = mem

Select ==
  /\ power = "on" /\ power' = "on"
  /\ enabled' \in BOOLEAN /\ bank' \in banks \cup {0}
  /\ UNCHANGED <<mem, saved, dout>>

Write ==
  /\ power = "on" /\ enabled
  /\ \E v \in Bytes : mem' = [mem EXCEPT ![bank] = v]
  /\ UNCHANGED <<power, enabled, bank, saved, dout>>

Read ==
  /\ power = "on"
  /\ enabled /\ bank \in banks => dout' = mem[bank]
  /\ UNCHANGED <<power, enabled, bank, mem, saved>>

PowerOff ==
  /\ power = "on" /\ power' = "off"
  /\ saved' \in {mem, saved}
  /\ battery => saved' = mem
  /\ mem' = saved'
  /\ UNCHANGED <<enabled, bank, dout>>

PowerOn ==
  /\ power # "on" /\ power' = "on"
  /\ enabled' \in BOOLEAN /\ bank' \in banks \cup {0}
  /\ UNCHANGED <<mem, saved, dout>>

(* The emulator dies: what was written since the last start is lost. *)
Die ==
  /\ power = "on" /\ power' = "dead"
  /\ mem' = saved
  /\ UNCHANGED <<enabled, bank, saved, dout>>

Next ==
  /\ Select \/ Write \/ Read \/ PowerOff \/ PowerOn \/ Die
  /\ UNCHANGED <<banks, battery>>

Spec == Init /\ [][Next]_vars
=============================================================================
