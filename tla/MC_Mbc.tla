------------------------------- MODULE MC_Mbc -------------------------------
(* A cartridge of every kind.  The header bytes of MBC5 stop short of 1B, MBC5
   with a battery, and those of NoMBC at 00: see the README. *)
EXTENDS Mbc

MCCartridges == {[type |-> 0, ram |-> 0], [type |-> 1, ram |-> 0],
                 [type |-> 2, ram |-> 1], [type |-> 3, ram |-> 2],
                 [type |-> 15, ram |-> 0], [type |-> 16, ram |-> 2],
                 [type |-> 18, ram |-> 1],
                 [type |-> 25, ram |-> 0], [type |-> 26, ram |-> 2]}
=============================================================================
