-------------------------------- MODULE Ppu --------------------------------
(***************************************************************************)
(* The picture side of PPU.v, dot by dot: the mode machine, the OAM scan,  *)
(* the background, window and object fetcher, the two pixel FIFOs and the  *)
(* output stage.  A pixel is named by the place in the maps it comes from; *)
(* colours, palettes and the tile data behind it are not modelled.  The    *)
(* objects of a line are counted by the scan, and an object's x is chosen  *)
(* when the output gets there.                                             *)
(***************************************************************************)
EXTENDS Naturals, FiniteSets, SequencesExt

CONSTANTS
  Width,            \* visible columns: 160
  Lines, AllLines,  \* visible lines and lines of a frame: 144 and 154
  LineDots,         \* dots of a line: 456
  ScanDots,         \* dots of the OAM scan: 80
  Entries, MaxObjs, \* objects in OAM and objects on a line: 40 and 10
  Settings,         \* register values the program writes
  Patterns,         \* which pixels of an object's row are opaque
  OffModes          \* modes in which the program may switch the LCD off

VARIABLES
  LCD_EN, SCX_reg, WX_reg, WY_reg, WIN_EN, OBJ_EN, OBJ_PRI_MODE,
  mode, dot_counter, LY_reg,
  oamScan_substate, oam_idx, objs_on_scanline,
  fetcher_state, fetcher_return,     \* <<layer, step>>
  fetch_counter, win_x, win_y, win_y_cond,
  tile_addr, tile_idx, data,         \* the tile being fetched, at three stages
  bgr_fifo, bgr_fifo_flush,
  obj_fifo, obj_fifo_flush,          \* of [obj, opaque]
  ahead, here,                       \* valid objects not reached yet; those at output_x
  current_obj, obj_bits, obj_fifo_merge,
  output_x, discard_x,
  pipe,                              \* what de2, de1, de0 and de enable
  hsync, vsync,
  shown                              \* history: objects overlapping output_x, as fetched

registers == <<SCX_reg, WX_reg, WY_reg, WIN_EN, OBJ_EN, OBJ_PRI_MODE>>
scan      == <<oamScan_substate, oam_idx, objs_on_scanline>>
fetcher   == <<fetcher_state, fetcher_return, fetch_counter, tile_addr, tile_idx, data,
               current_obj, obj_bits, obj_fifo_merge>>
window    == <<win_x, win_y, win_y_cond>>
fifos     == <<bgr_fifo, bgr_fifo_flush, obj_fifo, obj_fifo_flush>>
output    == <<output_x, discard_x>>
objects   == <<ahead, here, shown>>
vars == <<LCD_EN, registers, mode, dot_counter, LY_reg, scan, fetcher, window, fifos,
          output, objects, pipe, hsync, vsync>>

Lead == 8                     \* columns left of the screen
Tile == 8                     \* pixels a fetch brings
None == <<"none", 0, 0>>      \* also a pixel register that is not enabled

Objs  == 1..MaxObjs
Modes == {"hblank", "vblank", "oamScan", "drawing"}
Pixel(layer, row, col) == <<layer, row, col>>

(* The scan ends before the dot it is waited for, and the slowest line, with the
   window and all its objects, before dot LineDots; the counter has nine bits. *)
ASSUME PpuAssumption ==
  /\ Width \in Nat /\ Entries \in Nat \ {0} /\ MaxObjs \in Nat \ {0}
  /\ Lines \in Nat \ {0} /\ AllLines \in Nat /\ Lines < AllLines
  /\ ScanDots \in Nat /\ Entries + 3 * MaxObjs < ScanDots
  /\ LineDots \in 1..512 /\ ScanDots + Width + Lead + 7 + 4 + 5 + 11 * MaxObjs < LineDots
  /\ Settings \subseteq [SCX : 0..255, WX : 0..255, WY : 0..255, WIN_EN : BOOLEAN,
                         OBJ_EN : BOOLEAN, OPRI : {0, 1}]
  /\ Patterns \subseteq SUBSET (1..Tile)
  /\ OffModes \subseteq Modes

(* The steps of a fetch, one dot each. *)
Steps    == <<"map", "read", "data", "low", "high", "push">>
ObjSteps == <<"wait", "data", "low", "high", "merge", "push">>

----------------------------------------------------------------------------

layer == fetcher_state[1]
step  == fetcher_state[2]
obj_state == layer = "obj"
win_state == layer = "win"

obj_trigger == here # {}
win_trigger == output_x = WX_reg /\ (LY_reg = WY_reg \/ win_y_cond) /\ WIN_EN

(* The window takes the fetcher over. *)
TakeOver == mode = "drawing" /\ win_trigger /\ ~win_state /\ ~obj_trigger /\ ~obj_state

(* What the output stage does with a dot: it advances left of the screen, drops
   a pixel scrolled out, sends a pixel, or stalls. *)
Advances == mode = "drawing" /\ ~obj_trigger /\ ~obj_state
leads    == Advances /\ output_x < Lead
discards == Advances /\ output_x >= Lead /\ discard_x > 0
sends    == /\ Advances /\ output_x >= Lead /\ discard_x = 0
            /\ ~bgr_fifo_flush /\ bgr_fifo # <<>>

bgr_fifo_read == sends \/ (discards /\ ~win_state)

(* A faulty variant: the last pixel need not be on its way out. *)
PushOverLast == mode = "drawing" /\ ~obj_state /\ step = "push" /\ Len(bgr_fifo) <= 1

bgr_fifo_push == /\ mode = "drawing" /\ ~obj_state /\ step = "push"
                 /\ bgr_fifo = <<>> \/ (Len(bgr_fifo) = 1 /\ bgr_fifo_read)

obj_fifo_read == leads \/ sends
obj_fifo_push == mode = "drawing" /\ obj_state /\ step = "push"

Popped(fifo) == IF fifo = <<>> THEN fifo ELSE Tail(fifo)

(* Flush before push before read. *)
Clocked(fifo, flush, push, pixels, read) ==
  CASE flush -> <<>> [] ~flush /\ push -> pixels
    [] ~flush /\ ~push /\ read -> Popped(fifo) [] OTHER -> fifo

(* The row of the object fetched last, merged into the FIFO where the merge step
   said so. *)
Merged == [i \in 1..Tile |-> IF i \in obj_fifo_merge
                               THEN [obj |-> current_obj, opaque |-> i \in obj_bits]
                               ELSE obj_fifo[i]]

(* A faulty variant: the last slot still in use is taken as well. *)
OverwrittenOneMore ==
  {i \in 1..Tile :
     \/ i >= Len(obj_fifo)
     \/ IF OBJ_PRI_MODE = 0
          THEN IF obj_fifo[i].opaque /\ i \in obj_bits
                 THEN current_obj < obj_fifo[i].obj
                 ELSE ~obj_fifo[i].opaque
          ELSE ~obj_fifo[i].opaque /\ i \in obj_bits}

(* Slots the object's row takes: empty ones, and those where it has priority,
   by OAM order or by x as OPRI says. *)
Overwritten ==
  {i \in 1..Tile :
     \/ i > Len(obj_fifo)
     \/ IF OBJ_PRI_MODE = 0
          THEN IF obj_fifo[i].opaque /\ i \in obj_bits
                 THEN current_obj < obj_fifo[i].obj
                 ELSE ~obj_fifo[i].opaque
          ELSE ~obj_fifo[i].opaque /\ i \in obj_bits}

Fifos(starts) ==
  /\ bgr_fifo' = Clocked(bgr_fifo, bgr_fifo_flush, bgr_fifo_push,
                         [i \in 1..Tile |-> Pixel(data[1], data[2], data[3] + i - 1)],
                         bgr_fifo_read)
  /\ obj_fifo' = Clocked(obj_fifo, obj_fifo_flush, obj_fifo_push, Merged, obj_fifo_read)
  /\ bgr_fifo_flush' = (starts \/ TakeOver) /\ obj_fifo_flush' = starts

----------------------------------------------------------------------------

StepAfter(s, steps) == steps[1 + CHOOSE i \in 1..5 : steps[i] = s]

(* Background and window steps.  An object waits for the push step, pushed or
   not; the fetch under way is resumed after it. *)
NextFetch ==
  IF step # "push" THEN <<layer, StepAfter(step, Steps)>>
  ELSE IF bgr_fifo_push THEN <<layer, "map">> ELSE fetcher_state

NextObjFetch ==
  CASE step # "push" -> <<"obj", StepAfter(step, ObjSteps)>>
    [] step = "push" /\ obj_trigger -> <<"obj", "wait">>
    [] OTHER -> fetcher_return

goes_to_obj == ~obj_state /\ step = "push" /\ obj_trigger

Fetch ==
  /\ fetcher_state' = CASE TakeOver -> <<"win", "read">>
                        [] goes_to_obj /\ OBJ_EN -> <<"obj", "data">>
                        [] obj_state -> NextObjFetch
                        [] OTHER -> NextFetch
  /\ fetcher_return' = IF goes_to_obj /\ OBJ_EN THEN NextFetch ELSE fetcher_return
  /\ tile_addr' = CASE TakeOver -> Pixel("win", IF win_y_cond THEN win_y + 1 ELSE 0, 0)
                    [] ~TakeOver /\ step = "map" /\ layer = "bgr" ->
                         Pixel("bgr", LY_reg, (((fetch_counter * Tile + SCX_reg) % 256) \div Tile) * Tile)
                    [] ~TakeOver /\ step = "map" /\ layer = "win" -> Pixel("win", win_y, win_x)
                    [] obj_state /\ step = "data" -> Pixel("obj", current_obj, 0)
                    [] OTHER -> tile_addr
  /\ tile_idx' = IF ~obj_state /\ step = "read" THEN tile_addr ELSE tile_idx
  /\ data' = IF ~obj_state /\ step = "high" THEN tile_idx ELSE data
  /\ fetch_counter' = IF bgr_fifo_push /\ layer = "bgr" THEN fetch_counter + 1
                      ELSE fetch_counter
  /\ win_x' = CASE TakeOver -> 0
                [] ~TakeOver /\ bgr_fifo_push /\ win_state -> win_x + Tile
                [] OTHER -> win_x
  /\ win_y' = CASE TakeOver /\ win_y_cond -> win_y + 1
                [] TakeOver /\ ~win_y_cond -> 0
                [] OTHER -> win_y
  /\ win_y_cond' = (win_y_cond \/ TakeOver)
  /\ current_obj' = IF (goes_to_obj /\ OBJ_EN) \/ (obj_fifo_push /\ obj_trigger)
                      THEN Min(here) ELSE current_obj
  /\ IF obj_state /\ step = "high"
       THEN obj_bits' \in Patterns
       ELSE obj_bits' = obj_bits
  /\ obj_fifo_merge' = IF obj_state /\ step = "merge" THEN Overwritten ELSE obj_fifo_merge

(* A faulty variant: with objects off, one is passed over but stays valid. *)
StillHereOff == IF obj_state /\ step = "merge" THEN here \ {current_obj} ELSE here

(* The valid bits: an object is done with when it is merged, or dropped if
   objects are off; those at the new x count when the output moves. *)
StillHere ==
  CASE obj_state /\ step = "merge" -> here \ {current_obj}
    [] goes_to_obj /\ ~OBJ_EN -> here \ {Min(here)}
    [] OTHER -> here

Output ==
  /\ output_x' = IF leads \/ sends THEN output_x + 1 ELSE output_x
  /\ discard_x' = IF discards THEN discard_x - 1 ELSE discard_x
  /\ here' \in IF output_x' = output_x THEN {StillHere} ELSE SUBSET ahead
  /\ ahead' = ahead \ here'
  /\ shown' = {o \in IF obj_fifo_push
                       THEN shown \union {[obj |-> current_obj, x |-> output_x, bits |-> obj_bits]}
                       ELSE shown : output_x' < o.x + Tile}

(* The colour stages and the data enables de2, de1, de0 and de. *)
Pipe ==
  pipe' = <<IF sends /\ output_x < Width + Lead THEN Head(bgr_fifo) ELSE None>>
            \o SubSeq(pipe, 1, 3)

LineDrawn == output_x >= Width + Lead /\ \A i \in 1..3 : pipe[i] = None

Sync(h, v) == hsync' = h /\ vsync' = v

(* The counter has nine bits. *)
CountDot == dot_counter' = (dot_counter + 1) % 512

DrawDot ==
  /\ mode = "drawing"
  /\ Output /\ Fetch /\ Fifos(FALSE) /\ Pipe /\ Sync(1, 1) /\ CountDot
  /\ mode' = IF LineDrawn THEN "hblank" ELSE "drawing"
  /\ UNCHANGED <<LCD_EN, registers, LY_reg, scan>>

----------------------------------------------------------------------------

(* Every entry of OAM is looked at for a dot, and one on the line for three more
   dots; the tenth object ends the scan. *)
LastEntry == 4 * (Entries - 1)

OnLine ==
  /\ oamScan_substate = "get_y"
  /\ oamScan_substate' = "get_x" /\ oam_idx' = oam_idx + 1
  /\ ahead' = ahead \union {objs_on_scanline + 1}
  /\ UNCHANGED objs_on_scanline

OffLine ==
  /\ oamScan_substate = "get_y"
  /\ IF oam_idx < LastEntry
       THEN oam_idx' = oam_idx + 4 /\ UNCHANGED oamScan_substate
       ELSE oamScan_substate' = "await" /\ UNCHANGED oam_idx
  /\ UNCHANGED <<objs_on_scanline, ahead>>

Copies ==
  /\ oamScan_substate \in {"get_x", "get_tile"}
  /\ oamScan_substate' = IF oamScan_substate = "get_x" THEN "get_tile" ELSE "get_attr"
  /\ oam_idx' = oam_idx + 1
  /\ UNCHANGED <<objs_on_scanline, ahead>>

(* A faulty variant: the scan goes on after the tenth object. *)
CopiedNoLimit ==
  /\ oamScan_substate = "get_attr"
  /\ oamScan_substate' = IF oam_idx < LastEntry THEN "get_y" ELSE "await"
  /\ objs_on_scanline' = objs_on_scanline + 1 /\ oam_idx' = oam_idx + 1
  /\ UNCHANGED ahead

Copied ==
  /\ oamScan_substate = "get_attr"
  /\ oamScan_substate' = IF oam_idx < LastEntry /\ objs_on_scanline < MaxObjs - 1
                           THEN "get_y" ELSE "await"
  /\ objs_on_scanline' = objs_on_scanline + 1 /\ oam_idx' = oam_idx + 1
  /\ UNCHANGED ahead

Idle == UNCHANGED <<fetcher, window, output, LCD_EN, registers>>

ScanDot ==
  /\ mode = "oamScan"
  /\ \/ OnLine \/ OffLine \/ Copies \/ Copied
     \/ oamScan_substate = "await" /\ dot_counter # ScanDots - 1 /\ UNCHANGED <<scan, ahead>>
  /\ UNCHANGED <<mode, LY_reg, here, shown>>
  /\ Idle /\ Fifos(FALSE) /\ Pipe /\ Sync(1, 1) /\ CountDot

StartDrawing ==
  /\ mode = "oamScan" /\ oamScan_substate = "await" /\ dot_counter = ScanDots - 1
  /\ mode' = "drawing"
  /\ fetch_counter' = 0 /\ win_x' = 0 /\ output_x' = 0 /\ discard_x' = SCX_reg % 8
  /\ fetcher_state' = <<"bgr", "map">>
  /\ here' \in SUBSET ahead /\ ahead' = ahead \ here' /\ shown' = {}
  /\ Fifos(TRUE) /\ Pipe /\ Sync(1, 1) /\ CountDot
  /\ UNCHANGED <<LCD_EN, registers, LY_reg, scan, fetcher_return, tile_addr, tile_idx, data,
                 current_obj, obj_bits, obj_fifo_merge, win_y, win_y_cond>>

HBlankDot ==
  /\ mode = "hblank"
  /\ IF dot_counter = LineDots - 1
       THEN /\ dot_counter' = 0 /\ LY_reg' = LY_reg + 1
            /\ mode' = IF LY_reg = Lines - 1 THEN "vblank" ELSE "oamScan"
            /\ oam_idx' = 0 /\ oamScan_substate' = "get_y" /\ objs_on_scanline' = 0
            /\ ahead' = {} /\ here' = {}
       ELSE CountDot /\ UNCHANGED <<LY_reg, mode, scan, ahead, here>>
  /\ Idle /\ UNCHANGED shown /\ Fifos(FALSE) /\ Pipe /\ Sync(0, 1)

VBlankDot ==
  /\ mode = "vblank"
  /\ IF dot_counter = LineDots - 1
       THEN /\ dot_counter' = 0
            /\ IF LY_reg = AllLines - 1
                 THEN LY_reg' = 0 /\ mode' = "oamScan" /\ win_y_cond' = FALSE
                 ELSE LY_reg' = LY_reg + 1 /\ UNCHANGED <<mode, win_y_cond>>
       ELSE CountDot /\ UNCHANGED <<LY_reg, mode, win_y_cond>>
  /\ UNCHANGED <<LCD_EN, registers, scan, fetcher, win_x, win_y, output, objects>>
  /\ Fifos(FALSE) /\ Pipe /\ Sync(1, 0)

Dot == LCD_EN /\ (ScanDot \/ StartDrawing \/ DrawDot \/ HBlankDot \/ VBlankDot)

(* The program's writes to the registers, while no line is drawn: on the last dot
   before a line is, which stands for all writes since the last line. *)
WriteRegisters ==
  /\ mode = "oamScan" /\ dot_counter = ScanDots - 1
  /\ \E s \in Settings :
       /\ SCX_reg' = s.SCX /\ WX_reg' = s.WX /\ WY_reg' = s.WY
       /\ WIN_EN' = s.WIN_EN /\ OBJ_EN' = s.OBJ_EN /\ OBJ_PRI_MODE' = s.OPRI
  /\ UNCHANGED <<LCD_EN, mode, dot_counter, LY_reg, scan, fetcher, window, fifos, output,
                 objects, pipe, hsync, vsync>>

SwitchLCD ==
  /\ LCD_EN => mode \in OffModes
  /\ LCD_EN' = ~LCD_EN
  /\ UNCHANGED <<registers, mode, dot_counter, LY_reg, scan, fetcher, window, fifos, output,
                 objects, pipe, hsync, vsync>>

Init ==
  /\ LCD_EN = FALSE /\ SCX_reg = 0 /\ WX_reg = 0 /\ WY_reg = 0
  /\ WIN_EN = FALSE /\ OBJ_EN = FALSE /\ OBJ_PRI_MODE = 0
  /\ mode = "hblank" /\ dot_counter = 0 /\ LY_reg = 0
  /\ oamScan_substate = "get_y" /\ oam_idx = 0 /\ objs_on_scanline = 0
  /\ fetcher_state = <<"bgr", "map">> /\ fetcher_return = <<"bgr", "map">>
  /\ fetch_counter = 0 /\ win_x = 0 /\ win_y = 0 /\ win_y_cond = FALSE
  /\ tile_addr = Pixel("bgr", 0, 0) /\ tile_idx = Pixel("bgr", 0, 0) /\ data = Pixel("bgr", 0, 0)
  /\ bgr_fifo = <<>> /\ bgr_fifo_flush = FALSE /\ obj_fifo = <<>> /\ obj_fifo_flush = FALSE
  /\ ahead = {} /\ here = {} /\ shown = {}
  /\ current_obj = 1 /\ obj_bits = {} /\ obj_fifo_merge = {}
  /\ output_x = 0 /\ discard_x = 0
  /\ pipe = [i \in 1..4 |-> None] /\ hsync = 1 /\ vsync = 1

Next == Dot \/ WriteRegisters \/ SwitchLCD

Spec == Init /\ [][Next]_vars

----------------------------------------------------------------------------

TypeOK ==
  /\ LCD_EN \in BOOLEAN /\ WIN_EN \in BOOLEAN /\ OBJ_EN \in BOOLEAN /\ OBJ_PRI_MODE \in {0, 1}
  /\ SCX_reg \in 0..255 /\ WX_reg \in 0..255 /\ WY_reg \in 0..255
  /\ mode \in Modes /\ dot_counter \in 0..(LineDots - 1) /\ LY_reg \in 0..(AllLines - 1)
  /\ oamScan_substate \in {"get_y", "get_x", "get_tile", "get_attr", "await"}
  /\ oam_idx \in 0..(4 * Entries) /\ objs_on_scanline \in 0..MaxObjs
  /\ fetcher_state \in ({"bgr", "win"} \X Range(Steps)) \union ({"obj"} \X Range(ObjSteps))
  /\ fetcher_return \in {"bgr", "win"} \X {"map", "push"}
  /\ Len(bgr_fifo) <= Tile /\ Len(obj_fifo) <= Tile
  /\ ahead \subseteq Objs /\ here \subseteq Objs /\ ahead \intersect here = {}
  /\ current_obj \in Objs /\ obj_bits \in Patterns \union {{}} /\ obj_fifo_merge \subseteq 1..Tile
  /\ output_x \in 0..(Width + Lead + 4) /\ discard_x \in 0..7
  /\ Len(pipe) = 4 /\ hsync \in {0, 1} /\ vsync \in {0, 1}

(* The opaque pixels of the objects that cover the column being sent, and the one
   with priority among them: the first in OAM, or the leftmost. *)
Opaque == {o \in shown : output_x - o.x + 1 \in o.bits}

Above(o, p) == IF OBJ_PRI_MODE = 0 THEN o.obj < p.obj
               ELSE o.x < p.x \/ (o.x = p.x /\ o.obj < p.obj)

(* The object pixel sent with a column belongs to the object on top, however the
   objects' fetches, the scroll and the window came between (PPU.v:1024, 317). *)
TopObject ==
  sends =>
    IF Opaque = {} THEN obj_fifo # <<>> => ~Head(obj_fifo).opaque
    ELSE /\ obj_fifo # <<>> /\ Head(obj_fifo).opaque
         /\ \E o \in Opaque : /\ o.obj = Head(obj_fifo).obj
                              /\ \A p \in Opaque \ {o} : Above(o, p)

(* The longest a line may be drawn: a dot per column and pixel scrolled out, the
   stages behind, the window's fetch, and eleven dots for each object; 294 dots
   with the hardware's numbers, of the 375 before dot 455. *)
DrawBound == Width + Lead + (SCX_reg % 8) + 4 + (IF WIN_EN THEN 5 ELSE 0)
               + 11 * objs_on_scanline

(* A line is drawn in time whatever objects and window come upon it: the mode
   machine waits for dot 455 in hblank only (PPU.v:1105), and a line still drawn
   then would take another 512 dots. *)
DrawnInTime == mode = "drawing" => dot_counter < ScanDots + DrawBound

(* PPU.v:733: "if output_x == WX_reg, then the NEXT pixel is part of the window":
   the pixel sent at WX itself is still background. *)
NextIsWindow == sends /\ output_x = WX_reg => Head(bgr_fifo)[1] = "bgr"
=============================================================================
