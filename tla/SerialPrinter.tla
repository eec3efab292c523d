--------------------------- MODULE SerialPrinter ---------------------------
(***************************************************************************)
(* The port with the printer of main.cpp (PRINT_SERIAL) on its pins: the   *)
(* loop samples sck_o after each clock edge, shifts sdo in when it rises,  *)
(* and prints when it has a byte.  The pins change only with the machine   *)
(* cycle, so it is enough to look once in a cycle.                         *)
(***************************************************************************)
EXTENDS Serial

VARIABLES
  prev_sck,
  sdata,      \* the bits shifted in; serial_counter is their number
  owed        \* history: the byte of a transfer on the port's clock, till printed

pvars == <<vars, prev_sck, sdata, owed>>

sck_rising == prev_sck = 0 /\ sck_o' = 1

Prints == sck_rising /\ Len(sdata) = Width - 1

Sample ==
  /\ prev_sck' = sck_o'
  /\ sdata' = CASE Prints -> <<>>
                [] sck_rising /\ ~Prints -> Append(sdata, sdo')
                [] OTHER -> sdata
  /\ owed' = CASE ~transfer /\ transfer' /\ internal' -> SB_reg
               [] Prints -> <<>>
               [] OTHER -> owed

PInit == Init /\ prev_sck = 0 /\ sdata = <<>> /\ owed = <<>>
PSpec == PInit /\ [][Next /\ Sample]_pvars /\ WF_pvars(Next /\ Sample)

(* What is printed is the byte each transfer on the port's own clock began with,
   once and before the transfer is over; transfers on the other side's clock print
   nothing and shift no byte out of step (main.cpp:688-706, Serial.v:80-120). *)
PrintsWhatIsSent ==
  [][ /\ Prints => Append(sdata, sdo') = owed
      /\ ~transfer' => sdata' = <<>> /\ owed' = <<>> ]_pvars
=============================================================================
