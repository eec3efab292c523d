------------------------------- MODULE Screen -------------------------------
(***************************************************************************)
(* The frame decoder of main.cpp behind the PPU: after each rising edge of *)
(* the clock it reads de, hsync and vsync, writes the pixel into the frame *)
(* buffer, and presents the buffer when vsync falls.  prev_hsync and       *)
(* prev_vsync are the outputs before the edge.                             *)
(***************************************************************************)
EXTENDS Ppu

CONSTANT
  StopModes       \* modes in which the program may execute a stop that is not armed

ASSUME ScreenAssumption == StopModes \subseteq Modes

VARIABLES
  cur_x, cur_y,
  wrote,          \* the cell of framebuf written last, and its pixel
  first,          \* history: no frame was presented yet
  win_lines       \* history: lines of this frame that showed the window

screen == <<cur_x, cur_y, wrote, first, win_lines>>
allvars == <<vars, screen>>

hsync_falling == hsync = 1 /\ hsync' = 0
vsync_falling == vsync = 1 /\ vsync' = 0

(* The window is on a line if it is enabled and its trigger comes while the line
   is drawn, and it starts there or was on an earlier line of the frame; its rows
   follow one another.  With WX one short of Width + Lead it takes a row of its
   own, though its first column is right of the screen. *)
ShowsWindow == WIN_EN /\ WX_reg < Width + Lead /\ (LY_reg = WY_reg \/ win_lines > 0)

WindowLeft == IF WX_reg < 7 THEN 0 ELSE WX_reg - 7

Picture == [c \in 0..(Width - 1) |->
              IF ShowsWindow /\ c >= WindowLeft
                THEN Pixel("win", win_lines, c - WindowLeft)
                ELSE Pixel("bgr", LY_reg, (c + SCX_reg) % 256)]

(* vsync is looked at before de, and de before hsync. *)
Decode ==
  LET x == IF vsync_falling THEN 0 ELSE cur_x
      y == IF vsync_falling THEN 0 ELSE cur_y
      framebuf_idx == y * Width + x
      de == pipe'[4] # None
  IN /\ first' = (first /\ ~vsync_falling)
     /\ wrote' = IF de /\ framebuf_idx < Lines * Width
                   THEN <<framebuf_idx, pipe'[4]>> ELSE wrote
     /\ cur_x' = IF hsync_falling THEN 0 ELSE IF de THEN x + 1 ELSE x
     /\ cur_y' = IF hsync_falling THEN y + 1 ELSE y

(* The PPU without a dot: its enable is off in a stop, and its outputs stay what
   they are; or the LCD is off. *)
Frozen == (LCD_EN => mode \in StopModes) /\ UNCHANGED vars

(* The host's loop goes on whether the PPU does or not. *)
Cycle ==
  /\ \/ /\ Dot
        /\ win_lines' = CASE mode = "vblank" -> 0
                          [] LineDrawn /\ mode = "drawing" /\ ShowsWindow -> win_lines + 1
                          [] OTHER -> win_lines
     \/ Frozen /\ UNCHANGED win_lines
  /\ Decode

SInit == Init /\ cur_x = 0 /\ cur_y = 0 /\ wrote = <<0, None>> /\ first = TRUE /\ win_lines = 0
SNext == Cycle \/ ((WriteRegisters \/ SwitchLCD) /\ UNCHANGED screen)
SSpec == SInit /\ [][SNext]_allvars

----------------------------------------------------------------------------

R == INSTANCE Raster WITH next <- cur_y * Width + cur_x, picture <- Picture

(* Every frame that is presented has had each of its cells written once, in order,
   with the background or window pixel that belongs there: the dots the fetcher,
   the objects and the window take, and the sync edges the host counts lines by,
   never tear it (PPU.v:840-1100, main.cpp:596-686). *)
ImplementsRaster == R!Spec
=============================================================================
