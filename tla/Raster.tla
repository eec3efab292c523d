------------------------------- MODULE Raster -------------------------------
(***************************************************************************)
(* What the screen promises: the cells of a frame are written in order,    *)
(* each once and with the pixel the picture has there, and a frame is      *)
(* presented when it is complete.  The picture may change between lines.   *)
(* The first frame after a reset lacks its first line.                     *)
(***************************************************************************)
EXTENDS Naturals

CONSTANTS Width, Lines

VARIABLES
  next,      \* the cell to be written next
  picture,   \* column -> pixel, of the line being written
  wrote,     \* the cell and pixel written last
  first      \* no frame was presented yet

vars == <<next, picture, wrote, first>>

Init == next = 0 /\ first = TRUE

Put ==
  /\ next < Width * Lines
  /\ wrote' = <<next, picture[next % Width]>>
  /\ next' = next + 1
  /\ UNCHANGED <<picture, first>>

Present ==
  /\ next = Width * Lines
  /\ next' = 0 /\ first' = FALSE
  /\ UNCHANGED wrote

SkipLine ==
  /\ first /\ next = 0
  /\ next' = Width
  /\ UNCHANGED <<wrote, first>>

Change == next % Width = 0 /\ UNCHANGED <<next, wrote, first>>

Next == Put \/ Present \/ SkipLine \/ Change

Spec == Init /\ [][Next]_vars
=============================================================================
