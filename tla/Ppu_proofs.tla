----------------------------- MODULE Ppu_proofs -----------------------------
(***************************************************************************)
(* A line is drawn in time, for any screen, any number of objects, and     *)
(* whatever the program writes between lines.  The invariant counts the    *)
(* dots that a line being drawn still needs (DotsLeft): a dot for every    *)
(* column and every pixel scrolled out, those that the window and each     *)
(* object will hold the output, and the stages behind.  Every dot takes    *)
(* one off, because the output never waits for the background.  Built on   *)
(* that: the object pixel that is sent belongs to the object on top,       *)
(* because every slot of the object FIFO is right for its column (TopInv); *)
(* and the host's frames are the raster's, because every background and    *)
(* window pixel between the map and the frame buffer is the one its place  *)
(* asks for (ScreenInv).                                                   *)
(***************************************************************************)
EXTENDS Screen, FiniteSetTheorems, SequenceTheorems, WellFoundedInduction, TLAPS

(* The background or window fetch: under way, or to be resumed after the object. *)
Fetching == IF obj_state THEN fetcher_return ELSE fetcher_state
Base     == Fetching[1]

(* Dots until it can push. *)
Away(s) == IF s = "map" THEN 5 ELSE IF s = "read" THEN 4 ELSE IF s = "data" THEN 3
             ELSE IF s = "low" THEN 2 ELSE IF s = "high" THEN 1 ELSE 0
Due == Away(Fetching[2])

(* Dots until the row of an object is pushed. *)
ObjAway(s) == IF s = "wait" THEN 6 ELSE IF s = "data" THEN 5 ELSE IF s = "low" THEN 4
                ELSE IF s = "high" THEN 3 ELSE IF s = "merge" THEN 2 ELSE 1

(* There is no pixel to send. *)
Dry == bgr_fifo_flush \/ bgr_fifo = <<>>

Valid == Cardinality(ahead) + Cardinality(here)

(* Dots that the objects not yet fetched will hold the output: eleven each, less
   what is over of the one it waits for. *)
Held == IF obj_state
          THEN IF step = "push" THEN 1 + 11 * Valid ELSE ObjAway(step) + 11 * (Valid - 1)
          ELSE IF obj_trigger THEN Due + 6 + 11 * (Valid - 1) ELSE 11 * Valid

(* and dots that it will wait for the window's first pixels. *)
WindowDots == IF Base = "bgr" THEN (IF WIN_EN THEN 5 ELSE 0)
                ELSE IF Dry THEN Due + 1 ELSE 0

(* Dots until the pipe behind the last column is empty, and the one that sees it. *)
Drain == IF pipe[1] # None THEN 4 ELSE IF pipe[2] # None THEN 3
           ELSE IF pipe[3] # None THEN 2 ELSE 1

Columns == Width + Lead

(* The most that a line can still take. *)
Left(x, discard, wait, held) == (Columns - x) + discard + 4 + wait + held

DotsLeft == IF output_x >= Columns THEN Drain
              ELSE Left(output_x, discard_x, WindowDots, Held)

(* A line being drawn keeps its deadline.  The background never runs dry: a push
   is due before the FIFO's last pixel is sent, and at the start of the line
   before the output reaches the screen. *)
DrawInv ==
  mode = "drawing" =>
    /\ dot_counter + DotsLeft <= ScanDots + DrawBound
    /\ output_x >= Columns => output_x + Drain <= Columns + 4
    /\ ~Dry => Due < Len(bgr_fifo)
    /\ Dry /\ Base = "bgr" => output_x + Due <= 5
    /\ bgr_fifo_flush => ~obj_state /\ step \in {"map", "read"}
    /\ obj_state /\ step # "push" => current_obj \in here

(* The scan takes a dot for an entry and three more for an object. *)
Part(s) == IF s = "get_x" THEN 1 ELSE IF s = "get_tile" THEN 2
             ELSE IF s = "get_attr" THEN 3 ELSE 0

ScanInv ==
  mode = "oamScan" =>
    /\ dot_counter < ScanDots /\ here = {}
    /\ oamScan_substate # "await" =>
         /\ 4 * dot_counter = oam_idx + 12 * objs_on_scanline + 3 * Part(oamScan_substate)
         /\ oam_idx <= LastEntry + Part(oamScan_substate)
         /\ objs_on_scanline < MaxObjs
    /\ ahead \subseteq 1..(objs_on_scanline + (IF Part(oamScan_substate) = 0 THEN 0 ELSE 1))

LineInv ==
  /\ mode \in {"hblank", "vblank"} => dot_counter < LineDots
  /\ mode # "vblank" => LY_reg < Lines
  /\ mode = "vblank" => /\ LY_reg \in Lines..(AllLines - 1)
                        /\ ahead = {} /\ here = {}
                        /\ oamScan_substate = "get_y" /\ oam_idx = 0 /\ objs_on_scanline = 0

Layers == {"bgr", "win"}
Places == {"bgr", "win", "obj", "none"} \X Nat \X Nat
ObjPixels == [obj : Objs, opaque : BOOLEAN]

(* Types, with what they take to be kept: the shapes of tiles and FIFOs, and that
   the slots an object's row leaves alone are there. *)
RegisterShape ==
  /\ LCD_EN \in BOOLEAN /\ WIN_EN \in BOOLEAN /\ OBJ_EN \in BOOLEAN /\ OBJ_PRI_MODE \in {0, 1}
  /\ SCX_reg \in 0..255 /\ WX_reg \in 0..255 /\ WY_reg \in 0..255
  /\ mode \in Modes /\ dot_counter \in Nat /\ LY_reg \in Nat

ScanShape ==
  /\ oamScan_substate \in {"get_y", "get_x", "get_tile", "get_attr", "await"}
  /\ oam_idx \in 0..(4 * Entries) /\ objs_on_scanline \in 0..MaxObjs

FetcherShape ==
  /\ fetcher_state = <<layer, step>>
  /\ \/ layer \in Layers /\ step \in {"map", "read", "data", "low", "high", "push"}
     \/ layer = "obj" /\ step \in {"wait", "data", "low", "high", "merge", "push"}
  /\ fetcher_return \in Layers \X {"map", "push"}

TileShape ==
  /\ fetch_counter \in Nat /\ win_x \in Nat /\ win_y \in Nat /\ win_y_cond \in BOOLEAN
  /\ tile_addr \in Places /\ tile_idx \in Places /\ data \in Places

FifoShape ==
  /\ bgr_fifo \in Seq(Places) /\ Len(bgr_fifo) <= Tile /\ bgr_fifo_flush \in BOOLEAN
  /\ obj_fifo \in Seq(ObjPixels) /\ Len(obj_fifo) <= Tile /\ obj_fifo_flush \in BOOLEAN
  /\ obj_fifo_flush => bgr_fifo_flush
  /\ (mode = "drawing" /\ obj_state /\ step = "push") =>
       \A i \in 1..Tile : i \notin obj_fifo_merge => i <= Len(obj_fifo)

ObjectShape ==
  /\ ahead \subseteq Objs /\ here \subseteq Objs /\ ahead \intersect here = {}
  /\ current_obj \in Objs /\ obj_bits \in Patterns \union {{}} /\ obj_fifo_merge \subseteq 1..Tile

OutputShape ==
  /\ output_x \in Nat /\ output_x <= Columns + 4 /\ discard_x \in 0..7
  /\ pipe \in Seq(Places) /\ Len(pipe) = 4 /\ hsync \in {0, 1} /\ vsync \in {0, 1}

Shapes == /\ RegisterShape /\ ScanShape /\ FetcherShape /\ TileShape /\ FifoShape
          /\ ObjectShape /\ OutputShape

LineIInv == Shapes /\ ScanInv /\ LineInv /\ DrawInv

(***************************************************************************)
(* Sets of objects.                                                        *)
(***************************************************************************)

(* A set of objects that is not empty has a first one. *)
Earlier == {pair \in Nat \X Nat : pair[1] < pair[2]}

LEMMA EarlierWellFounded == IsWellFoundedOn(Earlier, Nat)
BY NatLessThanWellFounded, Zenon DEF OpToRel, Earlier

LEMMA FirstObject ==
  ASSUME NEW S, S \subseteq Objs, S # {}
  PROVE  Min(S) \in S /\ \A o \in S : Min(S) <= o
<1>1. S \subseteq Nat
  BY PpuAssumption DEF Objs
<1>2. IsWellFoundedOn(Earlier, Nat)
  BY EarlierWellFounded
<1>3. \E x \in S : \A y \in S : <<y, x>> \notin Earlier
  BY <1>1, <1>2, WFMin, Zenon
<1>4. PICK x \in S : \A y \in S : <<y, x>> \notin Earlier
  BY <1>3
<1>5. ASSUME NEW y \in S PROVE x <= y
  <2>1. x \in Nat /\ y \in Nat
    BY <1>1, <1>4
  <2>2. <<y, x>> \in Nat \X Nat /\ <<y, x>> \notin Earlier
    BY <1>4, <2>1
  <2>3. ~(y < x)
    BY <2>1, <2>2, SMT DEF Earlier
  <2> QED BY <2>1, <2>3
<1> QED BY <1>5 DEF Min

(* Counting objects: a set is finite, one that is not empty counts, *)
LEMMA Counted ==
  ASSUME NEW S, S \subseteq Objs
  PROVE  IsFiniteSet(S) /\ Cardinality(S) \in Nat /\ (S # {} => Cardinality(S) >= 1)
                        /\ (S = {} => Cardinality(S) = 0)
<1>1. IsFiniteSet(Objs)
  BY PpuAssumption, FS_Interval DEF Objs
<1>2. IsFiniteSet(S)
  BY <1>1, FS_Subset
<1> QED BY <1>2, FS_CardinalityType, FS_EmptySet

(* it loses one with each object that goes, *)
LEMMA OneLess ==
  ASSUME NEW S, S \subseteq Objs, NEW o \in S
  PROVE  Cardinality(S \ {o}) = Cardinality(S) - 1
BY Counted, FS_RemoveElement

(* and what is moved is not lost. *)
LEMMA Moved ==
  ASSUME NEW S, S \subseteq Objs, NEW T, T \subseteq S
  PROVE  Cardinality(S \ T) + Cardinality(T) = Cardinality(S)
<1>1. IsFiniteSet(S) /\ IsFiniteSet(T) /\ IsFiniteSet(S \ T)
  BY Counted
<1>2. S \intersect T = T
  OBVIOUS
<1>3. Cardinality(S \ T) = Cardinality(S) - Cardinality(T)
  BY <1>1, <1>2, FS_Difference
<1>4. Cardinality(S) \in Nat /\ Cardinality(T) \in Nat
  BY Counted
<1> QED BY <1>3, <1>4

(***************************************************************************)
(* The fetcher.                                                            *)
(***************************************************************************)

(* The order of the steps. *)
LEMMA StepOrder ==
  /\ StepAfter("map", Steps) = "read" /\ StepAfter("read", Steps) = "data"
  /\ StepAfter("data", Steps) = "low" /\ StepAfter("low", Steps) = "high"
  /\ StepAfter("high", Steps) = "push"
  /\ StepAfter("wait", ObjSteps) = "data" /\ StepAfter("data", ObjSteps) = "low"
  /\ StepAfter("low", ObjSteps) = "high" /\ StepAfter("high", ObjSteps) = "merge"
  /\ StepAfter("merge", ObjSteps) = "push"
<1>1. StepAfter("map", Steps) = "read" BY DEF StepAfter, Steps
<1>2. StepAfter("read", Steps) = "data" BY DEF StepAfter, Steps
<1>3. StepAfter("data", Steps) = "low" BY DEF StepAfter, Steps
<1>4. StepAfter("low", Steps) = "high" BY DEF StepAfter, Steps
<1>5. StepAfter("high", Steps) = "push" BY DEF StepAfter, Steps
<1>6. StepAfter("wait", ObjSteps) = "data" BY DEF StepAfter, ObjSteps
<1>7. StepAfter("data", ObjSteps) = "low" BY DEF StepAfter, ObjSteps
<1>8. StepAfter("low", ObjSteps) = "high" BY DEF StepAfter, ObjSteps
<1>9. StepAfter("high", ObjSteps) = "merge" BY DEF StepAfter, ObjSteps
<1>10. StepAfter("merge", ObjSteps) = "push" BY DEF StepAfter, ObjSteps
<1> QED BY <1>1, <1>2, <1>3, <1>4, <1>5, <1>6, <1>7, <1>8, <1>9, <1>10

(* Where a dot of drawing takes the fetcher. *)
LEMMA FetchMoves ==
  ASSUME Fetch
  PROVE  /\ TakeOver => fetcher_state' = <<"win", "read">>
         /\ goes_to_obj /\ OBJ_EN => fetcher_state' = <<"obj", "data">>
         /\ obj_state => fetcher_state' = NextObjFetch
         /\ ~TakeOver /\ ~(goes_to_obj /\ OBJ_EN) /\ ~obj_state => fetcher_state' = NextFetch
         /\ fetcher_return' = IF goes_to_obj /\ OBJ_EN THEN NextFetch ELSE fetcher_return
<1>1. fetcher_state' = CASE TakeOver -> <<"win", "read">>
                         [] goes_to_obj /\ OBJ_EN -> <<"obj", "data">>
                         [] obj_state -> NextObjFetch
                         [] OTHER -> NextFetch
  BY DEF Fetch
<1>2. fetcher_return' = IF goes_to_obj /\ OBJ_EN THEN NextFetch ELSE fetcher_return
  BY DEF Fetch
<1>3. /\ TakeOver => ~obj_state /\ ~goes_to_obj
      /\ goes_to_obj => ~obj_state
  BY DEF TakeOver, goes_to_obj
<1>4. TakeOver => fetcher_state' = <<"win", "read">>
  BY <1>1, <1>3, Zenon
<1>5. goes_to_obj /\ OBJ_EN => fetcher_state' = <<"obj", "data">>
  BY <1>1, <1>3, Zenon
<1>6. obj_state => fetcher_state' = NextObjFetch
  BY <1>1, <1>3, Zenon
<1>7. ~TakeOver /\ ~(goes_to_obj /\ OBJ_EN) /\ ~obj_state => fetcher_state' = NextFetch
  BY <1>1, <1>3, Zenon
<1> QED BY <1>2, <1>4, <1>5, <1>6, <1>7

(* The steps of an object's fetch. *)
LEMMA ObjFetchMoves ==
  /\ step # "push" => NextObjFetch = <<"obj", StepAfter(step, ObjSteps)>>
  /\ step = "push" /\ obj_trigger => NextObjFetch = <<"obj", "wait">>
  /\ step = "push" /\ ~obj_trigger => NextObjFetch = fetcher_return
<1>1. step # "push" => NextObjFetch = <<"obj", StepAfter(step, ObjSteps)>>
  BY Zenon DEF NextObjFetch
<1>2. step = "push" /\ obj_trigger => NextObjFetch = <<"obj", "wait">>
  BY Zenon DEF NextObjFetch
<1>3. step = "push" /\ ~obj_trigger => NextObjFetch = fetcher_return
  BY Zenon DEF NextObjFetch
<1> QED BY <1>1, <1>2, <1>3

(* The fetcher keeps its shape. *)
LEMMA FetcherTyped ==
  ASSUME FetcherShape, Fetch
  PROVE  FetcherShape'
<1>1. \/ layer \in Layers /\ step \in {"map", "read", "data", "low", "high", "push"}
      \/ layer = "obj" /\ step \in {"wait", "data", "low", "high", "merge", "push"}
  BY DEF FetcherShape
<1>2. fetcher_state = <<layer, step>> /\ fetcher_return \in Layers \X {"map", "push"}
  BY DEF FetcherShape
<1>3. ASSUME ~obj_state
      PROVE  /\ NextFetch \in Layers \X {"map", "read", "data", "low", "high", "push"}
             /\ step = "push" => NextFetch \in Layers \X {"map", "push"}
  <2>1. layer \in Layers /\ step \in {"map", "read", "data", "low", "high", "push"}
    BY <1>1, <1>3 DEF obj_state
  <2>2. step # "push" => StepAfter(step, Steps) \in {"read", "data", "low", "high", "push"}
    BY <2>1, StepOrder
  <2> QED BY <1>2, <2>1, <2>2 DEF NextFetch
<1>4. ASSUME obj_state
      PROVE  NextObjFetch \in (Layers \X {"map", "push"})
                \union ({"obj"} \X {"wait", "data", "low", "high", "merge", "push"})
  <2>1. step \in {"wait", "data", "low", "high", "merge", "push"}
    BY <1>1, <1>4 DEF obj_state, Layers
  <2>2. step # "push" => StepAfter(step, ObjSteps) \in {"data", "low", "high", "merge", "push"}
    BY <2>1, StepOrder
  <2>3. CASE step # "push"
    BY <2>2, <2>3, ObjFetchMoves
  <2>4. CASE step = "push" /\ obj_trigger
    BY <2>4, ObjFetchMoves
  <2>5. CASE step = "push" /\ ~obj_trigger
    BY <1>2, <2>5, ObjFetchMoves
  <2> QED BY <2>3, <2>4, <2>5
<1>5. fetcher_return' \in Layers \X {"map", "push"}
  BY <1>2, <1>3, FetchMoves DEF goes_to_obj
<1>6. fetcher_state' \in (Layers \X {"map", "read", "data", "low", "high", "push"})
         \union ({"obj"} \X {"wait", "data", "low", "high", "merge", "push"})
  <2>1. CASE TakeOver
    BY <2>1, FetchMoves DEF Layers
  <2>2. CASE goes_to_obj /\ OBJ_EN
    BY <2>2, FetchMoves
  <2>3. CASE obj_state
    BY <1>4, <2>3, FetchMoves
  <2>4. CASE ~TakeOver /\ ~(goes_to_obj /\ OBJ_EN) /\ ~obj_state
    BY <1>3, <2>4, FetchMoves
  <2> QED BY <2>1, <2>2, <2>3, <2>4
<1>7. /\ fetcher_state' = <<layer', step'>>
      /\ \/ layer' \in Layers /\ step' \in {"map", "read", "data", "low", "high", "push"}
         \/ layer' = "obj" /\ step' \in {"wait", "data", "low", "high", "merge", "push"}
  BY <1>6 DEF layer, step
<1> QED BY <1>5, <1>7 DEF FetcherShape

(* The tile registers keep their shapes. *)
LEMMA TilesTyped ==
  ASSUME Shapes, Fetch
  PROVE  TileShape'
<1>1. /\ fetch_counter \in Nat /\ win_x \in Nat /\ win_y \in Nat /\ win_y_cond \in BOOLEAN
      /\ tile_addr \in Places /\ tile_idx \in Places /\ data \in Places
      /\ LY_reg \in Nat /\ SCX_reg \in Nat /\ current_obj \in Nat
  BY PpuAssumption DEF Shapes, TileShape, RegisterShape, ObjectShape, Objs
<1>2. Tile \in Nat
  BY DEF Tile
<1>3. fetch_counter' \in Nat
  BY <1>1 DEF Fetch
<1>4. win_x' \in Nat
  <2>1. \/ win_x' = 0 \/ win_x' = win_x + Tile \/ win_x' = win_x
    <3>1. win_x' = CASE TakeOver -> 0
                     [] ~TakeOver /\ bgr_fifo_push /\ win_state -> win_x + Tile
                     [] OTHER -> win_x
      BY DEF Fetch
    <3> QED BY <3>1, Zenon
  <2> QED BY <1>1, <1>2, <2>1
<1>5. win_y' \in Nat
  <2>1. win_y' = win_y + 1 \/ win_y' = 0 \/ win_y' = win_y
    <3>1. win_y' = CASE TakeOver /\ win_y_cond -> win_y + 1
                     [] TakeOver /\ ~win_y_cond -> 0
                     [] OTHER -> win_y
      BY DEF Fetch
    <3> QED BY <3>1, Zenon
  <2> QED BY <1>1, <2>1
<1>6. win_y_cond' \in BOOLEAN
  BY <1>1 DEF Fetch, TakeOver
<1>7. tile_addr' \in Places
  <2> DEFINE FromWindow == Pixel("win", IF win_y_cond THEN win_y + 1 ELSE 0, 0)
             Column == (((fetch_counter * Tile + SCX_reg) % 256) \div Tile) * Tile
  <2>1. tile_addr' = CASE TakeOver -> FromWindow
                       [] ~TakeOver /\ step = "map" /\ layer = "bgr" -> Pixel("bgr", LY_reg, Column)
                       [] ~TakeOver /\ step = "map" /\ layer = "win" -> Pixel("win", win_y, win_x)
                       [] obj_state /\ step = "data" -> Pixel("obj", current_obj, 0)
                       [] OTHER -> tile_addr
    BY DEF Fetch
  <2>2. Column \in Nat
    <3>1. fetch_counter * Tile + SCX_reg \in Nat
      BY <1>1 DEF Tile
    <3>2. (fetch_counter * Tile + SCX_reg) % 256 \in Nat
      BY <3>1
    <3>3. ((fetch_counter * Tile + SCX_reg) % 256) \div Tile \in Nat
      BY <3>2 DEF Tile
    <3> QED BY <3>3 DEF Tile
  <2>3. Pixel("bgr", LY_reg, Column) \in Places
    <3> HIDE DEF Column
    <3> QED BY <1>1, <2>2 DEF Pixel, Places
  <2>4. FromWindow \in Places /\ Pixel("win", win_y, win_x) \in Places
        /\ Pixel("obj", current_obj, 0) \in Places
    BY <1>1 DEF Pixel, Places
  <2> HIDE DEF FromWindow, Column
  <2>5. TakeOver => tile_addr' = FromWindow
    <3>1. TakeOver => ~obj_state
      BY DEF TakeOver
    <3> QED BY <2>1, <3>1, Zenon
  <2>6. CASE ~TakeOver /\ step = "map" /\ layer = "bgr"
    <3>1. tile_addr' = Pixel("bgr", LY_reg, Column)
      BY <2>1, <2>6, Zenon DEF obj_state
    <3> QED BY <2>3, <3>1
  <2>7. CASE ~TakeOver /\ step = "map" /\ layer = "win"
    <3>1. tile_addr' = Pixel("win", win_y, win_x)
      BY <2>1, <2>7, Zenon DEF obj_state
    <3> QED BY <2>4, <3>1
  <2>8. CASE ~TakeOver /\ obj_state /\ step = "data"
    <3>1. tile_addr' = Pixel("obj", current_obj, 0)
      BY <2>1, <2>8, Zenon DEF obj_state
    <3> QED BY <2>4, <3>1
  <2>9. CASE /\ ~TakeOver /\ ~(step = "map" /\ layer = "bgr")
             /\ ~(step = "map" /\ layer = "win") /\ ~(obj_state /\ step = "data")
    <3>1. tile_addr' = tile_addr
      BY <2>1, <2>9, Zenon
    <3> QED BY <1>1, <3>1
  <2> QED BY <2>4, <2>5, <2>6, <2>7, <2>8, <2>9
<1>8. tile_idx' \in Places /\ data' \in Places
  BY <1>1 DEF Fetch
<1> QED BY <1>3, <1>4, <1>5, <1>6, <1>7, <1>8 DEF TileShape

(***************************************************************************)
(* The FIFOs.                                                              *)
(***************************************************************************)

(* What a FIFO does with a dot. *)
Becomes(new, fifo, flush, push, pixels, read) ==
  /\ flush => new = <<>>
  /\ ~flush /\ push => new = pixels
  /\ ~flush /\ ~push /\ read => new = Popped(fifo)
  /\ ~flush /\ ~push /\ ~read => new = fifo

LEMMA ClockedIs ==
  ASSUME NEW fifo, NEW flush \in BOOLEAN, NEW push \in BOOLEAN, NEW pixels, NEW read \in BOOLEAN
  PROVE  Becomes(Clocked(fifo, flush, push, pixels, read), fifo, flush, push, pixels, read)
<1>1. flush => Clocked(fifo, flush, push, pixels, read) = <<>>
  BY Zenon DEF Clocked
<1>2. ~flush /\ push => Clocked(fifo, flush, push, pixels, read) = pixels
  BY Zenon DEF Clocked
<1>3. ~flush /\ ~push /\ read => Clocked(fifo, flush, push, pixels, read) = Popped(fifo)
  BY Zenon DEF Clocked
<1>4. ~flush /\ ~push /\ ~read => Clocked(fifo, flush, push, pixels, read) = fifo
  BY Zenon DEF Clocked
<1> QED BY <1>1, <1>2, <1>3, <1>4 DEF Becomes

(* Taking a pixel out leaves a shorter FIFO. *)
LEMMA PoppedIs ==
  ASSUME NEW S, NEW fifo \in Seq(S)
  PROVE  /\ Popped(fifo) \in Seq(S)
         /\ fifo # <<>> => Len(Popped(fifo)) = Len(fifo) - 1
         /\ fifo = <<>> => Popped(fifo) = <<>>
         /\ Len(Popped(fifo)) <= Len(fifo)
         /\ \A i \in 1..Len(Popped(fifo)) : Popped(fifo)[i] = fifo[i + 1]
<1>1. CASE fifo = <<>>
  BY <1>1 DEF Popped
<1>2. CASE fifo # <<>>
  BY <1>2, HeadTailProperties DEF Popped
<1> QED BY <1>1, <1>2

(* A row of pixels as a sequence. *)
LEMMA RowIs ==
  ASSUME NEW S, NEW n \in Nat, NEW f \in [1..n -> S]
  PROVE  f \in Seq(S) /\ Len(f) = n
OBVIOUS

(* A fetch brings a full FIFO. *)
Fetched == [i \in 1..Tile |-> Pixel(data[1], data[2], data[3] + i - 1)]

LEMMA FetchedIs ==
  ASSUME Shapes
  PROVE  Fetched \in Seq(Places) /\ Len(Fetched) = Tile /\ Fetched # <<>>
<1>1. Tile = 8
  BY DEF Tile
<1>2. ASSUME NEW i \in 1..Tile PROVE Pixel(data[1], data[2], data[3] + i - 1) \in Places
  BY <1>1 DEF Shapes, TileShape, Places, Pixel
<1>3. Fetched \in [1..Tile -> Places]
  BY <1>2 DEF Fetched
<1>4. Tile \in Nat /\ Tile # 0
  BY <1>1
<1>5. Fetched \in Seq(Places) /\ Len(Fetched) = Tile
  BY <1>3, <1>4, RowIs
<1>6. Fetched # <<>>
  BY <1>4, <1>5
<1> QED BY <1>5, <1>6

(* An object's row leaves a full FIFO. *)
LEMMA MergedIs ==
  ASSUME Shapes, mode = "drawing", obj_state, step = "push"
  PROVE  Merged \in Seq(ObjPixels) /\ Len(Merged) = Tile /\ Merged # <<>>
<1>1. Tile = 8
  BY DEF Tile
<1>2. ASSUME NEW i \in 1..Tile
      PROVE  (IF i \in obj_fifo_merge THEN [obj |-> current_obj, opaque |-> i \in obj_bits]
              ELSE obj_fifo[i]) \in ObjPixels
  <2>1. CASE i \in obj_fifo_merge
    BY <2>1 DEF Shapes, ObjectShape, ObjPixels
  <2>2. CASE i \notin obj_fifo_merge
    <3>1. i \in 1..Len(obj_fifo)
      BY <1>1, <2>2 DEF Shapes, FifoShape
    <3> QED BY <2>2, <3>1 DEF Shapes, FifoShape
  <2> QED BY <2>1, <2>2
<1>3. Merged \in [1..Tile -> ObjPixels]
  BY <1>2 DEF Merged
<1>4. Tile \in Nat /\ Tile # 0
  BY <1>1
<1>5. Merged \in Seq(ObjPixels) /\ Len(Merged) = Tile
  BY <1>3, <1>4, RowIs
<1>6. Merged # <<>>
  BY <1>4, <1>5
<1> QED BY <1>5, <1>6

(* What the two FIFOs do with a dot. *)
LEMMA FifoMoves ==
  ASSUME Shapes, NEW starts \in BOOLEAN, Fifos(starts)
  PROVE  /\ bgr_fifo_flush => bgr_fifo' = <<>>
         /\ ~bgr_fifo_flush /\ bgr_fifo_push => bgr_fifo' = Fetched
         /\ ~bgr_fifo_flush /\ ~bgr_fifo_push /\ bgr_fifo_read => bgr_fifo' = Popped(bgr_fifo)
         /\ ~bgr_fifo_flush /\ ~bgr_fifo_push /\ ~bgr_fifo_read => bgr_fifo' = bgr_fifo
         /\ obj_fifo_flush => obj_fifo' = <<>>
         /\ ~obj_fifo_flush /\ obj_fifo_push => obj_fifo' = Merged
         /\ ~obj_fifo_flush /\ ~obj_fifo_push /\ obj_fifo_read => obj_fifo' = Popped(obj_fifo)
         /\ ~obj_fifo_flush /\ ~obj_fifo_push /\ ~obj_fifo_read => obj_fifo' = obj_fifo
         /\ (bgr_fifo_flush' <=> (starts \/ TakeOver)) /\ (obj_fifo_flush' <=> starts)
<1>1. /\ bgr_fifo_flush \in BOOLEAN /\ obj_fifo_flush \in BOOLEAN
  BY DEF Shapes, FifoShape
<1>2. /\ bgr_fifo_push \in BOOLEAN /\ bgr_fifo_read \in BOOLEAN
      /\ obj_fifo_push \in BOOLEAN /\ obj_fifo_read \in BOOLEAN
  BY DEF bgr_fifo_push, bgr_fifo_read, obj_fifo_push, obj_fifo_read, sends, discards, leads
<1>3. /\ bgr_fifo' = Clocked(bgr_fifo, bgr_fifo_flush, bgr_fifo_push, Fetched, bgr_fifo_read)
      /\ obj_fifo' = Clocked(obj_fifo, obj_fifo_flush, obj_fifo_push, Merged, obj_fifo_read)
      /\ (bgr_fifo_flush' <=> (starts \/ TakeOver)) /\ (obj_fifo_flush' <=> starts)
  BY DEF Fifos, Fetched
<1>4. Becomes(bgr_fifo', bgr_fifo, bgr_fifo_flush, bgr_fifo_push, Fetched, bgr_fifo_read)
  BY <1>1, <1>2, <1>3, ClockedIs
<1>5. Becomes(obj_fifo', obj_fifo, obj_fifo_flush, obj_fifo_push, Merged, obj_fifo_read)
  BY <1>1, <1>2, <1>3, ClockedIs
<1> QED BY <1>3, <1>4, <1>5 DEF Becomes

(* The FIFOs keep their shapes; they change only while a line is drawn. *)
LEMMA FifosTyped ==
  ASSUME Shapes, NEW starts \in BOOLEAN, Fifos(starts)
  PROVE  /\ bgr_fifo' \in Seq(Places) /\ Len(bgr_fifo') <= Tile /\ bgr_fifo_flush' \in BOOLEAN
         /\ obj_fifo' \in Seq(ObjPixels) /\ Len(obj_fifo') <= Tile /\ obj_fifo_flush' \in BOOLEAN
         /\ obj_fifo_flush' => bgr_fifo_flush'
<1>1. /\ bgr_fifo \in Seq(Places) /\ Len(bgr_fifo) <= Tile /\ Tile = 8
      /\ obj_fifo \in Seq(ObjPixels) /\ Len(obj_fifo) <= Tile
  BY DEF Shapes, FifoShape, Tile
<1> DEFINE Fits(fifo, S) == fifo \in Seq(S) /\ Len(fifo) <= Tile
<1>0. /\ Fits(Fetched, Places) /\ \A S : Fits(<<>>, S)
      /\ Fits(bgr_fifo, Places) /\ Fits(obj_fifo, ObjPixels)
      /\ obj_fifo_push => Fits(Merged, ObjPixels)
      /\ Fits(Popped(bgr_fifo), Places) /\ Fits(Popped(obj_fifo), ObjPixels)
  <2>1. Tile \in Nat
    BY DEF Tile
  <2>2. \A S : <<>> \in Seq(S) /\ Len(<<>>) = 0
    OBVIOUS
  <2>3. \A S : Fits(<<>>, S)
    BY <2>1, <2>2
  <2>4. Fits(Fetched, Places)
    BY <2>1, FetchedIs
  <2>5. obj_fifo_push => Fits(Merged, ObjPixels)
    BY <2>1, MergedIs DEF obj_fifo_push
  <2>6. Fits(Popped(bgr_fifo), Places)
    <3>1. Popped(bgr_fifo) \in Seq(Places) /\ Len(Popped(bgr_fifo)) <= Len(bgr_fifo)
      BY <1>1, PoppedIs
    <3>2. Len(Popped(bgr_fifo)) \in Nat /\ Len(bgr_fifo) \in Nat
      BY <1>1, <3>1
    <3> QED BY <1>1, <2>1, <3>1, <3>2
  <2>7. Fits(Popped(obj_fifo), ObjPixels)
    <3>1. Popped(obj_fifo) \in Seq(ObjPixels) /\ Len(Popped(obj_fifo)) <= Len(obj_fifo)
      BY <1>1, PoppedIs
    <3>2. Len(Popped(obj_fifo)) \in Nat /\ Len(obj_fifo) \in Nat
      BY <1>1, <3>1
    <3> QED BY <1>1, <2>1, <3>1, <3>2
  <2> QED BY <1>1, <2>3, <2>4, <2>5, <2>6, <2>7
<1> HIDE DEF Fits
<1>2. Fits(bgr_fifo', Places)
  <2>1. CASE bgr_fifo' = <<>>
    BY <1>0, <2>1
  <2>2. CASE bgr_fifo' = Fetched
    BY <1>0, <2>2
  <2>3. CASE bgr_fifo' = Popped(bgr_fifo)
    BY <1>0, <2>3
  <2>4. CASE bgr_fifo' = bgr_fifo
    BY <1>0, <2>4
  <2> QED BY <2>1, <2>2, <2>3, <2>4, FifoMoves
<1>3. Fits(obj_fifo', ObjPixels)
  <2>1. CASE obj_fifo' = <<>>
    BY <1>0, <2>1
  <2>2. CASE obj_fifo_push /\ obj_fifo' = Merged
    BY <1>0, <2>2
  <2>3. CASE obj_fifo' = Popped(obj_fifo)
    BY <1>0, <2>3
  <2>4. CASE obj_fifo' = obj_fifo
    BY <1>0, <2>4
  <2> QED BY <2>1, <2>2, <2>3, <2>4, FifoMoves
<1>4. bgr_fifo_flush' \in BOOLEAN /\ obj_fifo_flush' \in BOOLEAN /\ (obj_fifo_flush' => bgr_fifo_flush')
  BY DEF Fifos, TakeOver
<1> QED BY <1>2, <1>3, <1>4 DEF Fits

(* The pipe shifts. *)
LEMMA PipeMoves ==
  ASSUME Shapes, Pipe
  PROVE  /\ pipe' \in Seq(Places) /\ Len(pipe') = 4
         /\ pipe'[1] = IF sends /\ output_x < Width + Lead THEN Head(bgr_fifo) ELSE None
         /\ pipe'[2] = pipe[1] /\ pipe'[3] = pipe[2] /\ pipe'[4] = pipe[3]
<1>1. pipe \in Seq(Places) /\ Len(pipe) = 4 /\ bgr_fifo \in Seq(Places)
  BY DEF Shapes, OutputShape, FifoShape
<1> DEFINE First == IF sends /\ output_x < Width + Lead THEN Head(bgr_fifo) ELSE None
<1>2. First \in Places
  <2>1. None \in Places
    BY DEF None, Places
  <2>2. CASE sends
    BY <1>1, <2>1, <2>2 DEF sends
  <2> QED BY <2>1, <2>2
<1>3. pipe' = <<First>> \o SubSeq(pipe, 1, 3)
  BY DEF Pipe
<1> HIDE DEF First
<1>4. SubSeq(pipe, 1, 3) \in Seq(Places) /\ Len(SubSeq(pipe, 1, 3)) = 3
      /\ \A i \in 1..3 : SubSeq(pipe, 1, 3)[i] = pipe[i]
  <2>1. SubSeq(pipe, 1, 3) = [i \in 1..3 |-> pipe[i]]
    BY <1>1
  <2>2. [i \in 1..3 |-> pipe[i]] \in [1..3 -> Places]
    <3>1. ASSUME NEW i \in 1..3 PROVE pipe[i] \in Places
      <4>1. i \in 1..Len(pipe)
        BY <1>1
      <4> QED BY <1>1, <4>1, ElementOfSeq
    <3> QED BY <3>1
  <2>3. 3 \in Nat
    OBVIOUS
  <2> HIDE <1>1
  <2> QED BY <2>1, <2>2, <2>3, RowIs
<1>5. <<First>> \in Seq(Places) /\ Len(<<First>>) = 1
  BY <1>2
<1>6. pipe' \in Seq(Places) /\ Len(pipe') = 4 /\ pipe'[1] = First
      /\ pipe'[2] = pipe[1] /\ pipe'[3] = pipe[2] /\ pipe'[4] = pipe[3]
  BY <1>3, <1>4, <1>5
<1> QED BY <1>6 DEF First

(***************************************************************************)
(* What a dot of drawing does to each part.                                *)
(***************************************************************************)

(* The valid objects after a dot that does not move the output. *)
LEMMA StillHereIs ==
  /\ obj_state /\ step = "merge" => StillHere = here \ {current_obj}
  /\ goes_to_obj /\ ~OBJ_EN => StillHere = here \ {Min(here)}
  /\ ~(obj_state /\ step = "merge") /\ ~(goes_to_obj /\ ~OBJ_EN) => StillHere = here
<1>1. goes_to_obj => ~obj_state
  BY DEF goes_to_obj
<1>2. obj_state /\ step = "merge" => StillHere = here \ {current_obj}
  BY <1>1, Zenon DEF StillHere
<1>3. goes_to_obj /\ ~OBJ_EN => StillHere = here \ {Min(here)}
  BY <1>1, Zenon DEF StillHere
<1>4. ~(obj_state /\ step = "merge") /\ ~(goes_to_obj /\ ~OBJ_EN) => StillHere = here
  BY <1>1, Zenon DEF StillHere
<1> QED BY <1>2, <1>3, <1>4

(* While an object is due or fetched the output stands still. *)
LEMMA OutputMoves ==
  ASSUME Shapes, Output
  PROVE  /\ obj_state \/ obj_trigger => output_x' = output_x /\ discard_x' = discard_x
         /\ output_x' \in {output_x, output_x + 1} /\ discard_x' \in 0..7
         /\ leads \/ sends => output_x' = output_x + 1 /\ discard_x' = discard_x
         /\ discards => output_x' = output_x /\ discard_x' = discard_x - 1
         /\ ~leads /\ ~sends /\ ~discards => output_x' = output_x /\ discard_x' = discard_x
         /\ output_x' = output_x => here' = StillHere
         /\ output_x' # output_x => here = {} /\ here' \subseteq ahead
         /\ ahead' = ahead \ here'
<1>1. output_x \in Nat /\ discard_x \in 0..7
  BY DEF Shapes, OutputShape
<1>2. /\ output_x' = IF leads \/ sends THEN output_x + 1 ELSE output_x
      /\ discard_x' = IF discards THEN discard_x - 1 ELSE discard_x
      /\ here' \in IF output_x' = output_x THEN {StillHere} ELSE SUBSET ahead
      /\ ahead' = ahead \ here'
  BY DEF Output
<1>3. /\ leads \/ sends \/ discards => ~obj_state /\ here = {}
      /\ leads \/ sends => ~discards
      /\ discards => discard_x > 0
  BY <1>1 DEF leads, sends, discards, Advances, obj_trigger, Lead
<1>4. output_x + 1 # output_x
  BY <1>1
<1> QED BY <1>1, <1>2, <1>3, <1>4 DEF obj_trigger

(* The valid bits stay apart, and none comes back. *)
LEMMA ObjectsMove ==
  ASSUME Shapes, Output
  PROVE  /\ ahead' \subseteq Objs /\ here' \subseteq Objs /\ ahead' \intersect here' = {}
         /\ output_x' = output_x => ahead' = ahead
         /\ output_x' # output_x => Valid' = Valid
<1>1. ahead \subseteq Objs /\ here \subseteq Objs /\ ahead \intersect here = {}
  BY DEF Shapes, ObjectShape
<1>2. StillHere \subseteq here
  BY StillHereIs
<1>3. output_x' = output_x => ahead' = ahead
  BY <1>1, <1>2, OutputMoves
<1>4. ASSUME output_x' # output_x PROVE Valid' = Valid
  <2>1. here = {} /\ here' \subseteq ahead /\ ahead' = ahead \ here'
    BY <1>4, OutputMoves
  <2>2. Cardinality(ahead') + Cardinality(here') = Cardinality(ahead)
    BY <1>1, <2>1, Moved
  <2>3. Cardinality(here) = 0 /\ Cardinality(ahead) \in Nat
    BY <1>1, <2>1, Counted
  <2> QED BY <2>2, <2>3 DEF Valid
<1> QED BY <1>1, <1>2, <1>3, <1>4, OutputMoves

(* The object being fetched is one of those, and its row is one of the patterns. *)
LEMMA ObjectsTyped ==
  ASSUME Shapes, Fetch, Output
  PROVE  ObjectShape'
<1>1. /\ here \subseteq Objs /\ current_obj \in Objs /\ obj_bits \in Patterns \union {{}}
      /\ obj_fifo_merge \subseteq 1..Tile
  BY DEF Shapes, ObjectShape
<1>2. current_obj' \in Objs
  <2>1. CASE (goes_to_obj /\ OBJ_EN) \/ (obj_fifo_push /\ obj_trigger)
    <3>1. here # {} /\ current_obj' = Min(here)
      BY <2>1 DEF Fetch, goes_to_obj, obj_trigger
    <3>2. Min(here) \in here
      BY <1>1, <3>1, FirstObject
    <3> QED BY <1>1, <3>1, <3>2
  <2>2. CASE ~((goes_to_obj /\ OBJ_EN) \/ (obj_fifo_push /\ obj_trigger))
    BY <1>1, <2>2 DEF Fetch
  <2> QED BY <2>1, <2>2
<1>3. obj_bits' \in Patterns \union {{}}
  BY <1>1 DEF Fetch
<1>4. obj_fifo_merge' \subseteq 1..Tile
  BY <1>1 DEF Fetch, Overwritten
<1> QED BY <1>2, <1>3, <1>4, ObjectsMove DEF ObjectShape

(* How the fetch under way goes on, and that of an object. *)
LEMMA FetchingMoves ==
  ASSUME Shapes, Fetch
  PROVE  /\ Base \in Layers /\ Due \in 0..5 /\ Base' \in Layers /\ Due' \in 0..5
         /\ TakeOver => Base = "bgr" /\ Base' = "win" /\ Due' = 4 /\ ~obj_state' /\ step' = "read"
         /\ ~TakeOver => Base' = Base
         /\ ~TakeOver /\ ~obj_state /\ step # "push" => Due' = Due - 1 /\ ~obj_state'
         /\ ~TakeOver /\ ~obj_state /\ step = "push" =>
              /\ Due = 0 /\ Due' = (IF bgr_fifo_push THEN 5 ELSE 0)
              /\ obj_state' <=> (obj_trigger /\ OBJ_EN)
              /\ obj_state' => step' = "data"
         /\ obj_state => Due' = Due
         /\ obj_state /\ step # "push" => obj_state' /\ ObjAway(step') = ObjAway(step) - 1
         /\ obj_state /\ step # "push" => (step' = "push" <=> step = "merge")
         /\ obj_state /\ step = "push" => (obj_state' <=> obj_trigger) /\ (obj_state' => step' = "wait")
<1>1. FetcherShape /\ FetcherShape'
  BY FetcherTyped DEF Shapes
<1>2. Base \in Layers /\ Due \in 0..5
  BY <1>1 DEF FetcherShape, Base, Due, Fetching, Away, Layers, obj_state
<1>3. Base' \in Layers /\ Due' \in 0..5
  BY <1>1 DEF FetcherShape, Base, Due, Fetching, Away, Layers, obj_state
<1>4. CASE TakeOver
  <2>1. fetcher_state' = <<"win", "read">> /\ ~obj_state /\ layer # "win"
    BY <1>4, FetchMoves DEF TakeOver, win_state
  <2>2. layer' = "win" /\ step' = "read"
    BY <2>1 DEF layer, step
  <2>3. ~obj_state' /\ Base' = "win" /\ Due' = 4
    BY <2>1, <2>2 DEF obj_state, Base, Due, Fetching, Away
  <2>4. Base = "bgr"
    BY <1>1, <2>1 DEF FetcherShape, Base, Fetching, Layers, obj_state
  <2> QED BY <1>2, <1>3, <1>4, <2>1, <2>2, <2>3, <2>4
<1>5. CASE ~TakeOver /\ obj_state
  <2>1. ~goes_to_obj /\ fetcher_state' = NextObjFetch /\ fetcher_return' = fetcher_return
    BY <1>5, FetchMoves DEF goes_to_obj
  <2>2. step \in {"wait", "data", "low", "high", "merge", "push"}
    BY <1>1, <1>5 DEF FetcherShape, obj_state, Layers
  <2>3. fetcher_return = <<fetcher_return[1], fetcher_return[2]>>
        /\ fetcher_return[1] \in Layers /\ fetcher_return[2] \in {"map", "push"}
    BY <1>1 DEF FetcherShape
  <2>4. Base = fetcher_return[1] /\ Due = Away(fetcher_return[2])
    BY <1>5 DEF Base, Due, Fetching
  <2>5. CASE step # "push"
    <3>1. fetcher_state' = <<"obj", StepAfter(step, ObjSteps)>>
      BY <2>1, <2>5, ObjFetchMoves
    <3>2. layer' = "obj" /\ step' = StepAfter(step, ObjSteps)
      BY <3>1 DEF layer, step
    <3>3. obj_state' /\ Base' = Base /\ Due' = Due
      BY <2>1, <2>4, <3>2 DEF obj_state, Base, Due, Fetching
    <3>4. ObjAway(step') = ObjAway(step) - 1 /\ (step' = "push" <=> step = "merge")
      BY <2>2, <2>5, <3>2, StepOrder DEF ObjAway
    <3> QED BY <1>2, <1>3, <1>5, <2>5, <3>3, <3>4
  <2>6. CASE step = "push" /\ obj_trigger
    <3>1. fetcher_state' = <<"obj", "wait">>
      BY <2>1, <2>6, ObjFetchMoves
    <3>2. layer' = "obj" /\ step' = "wait"
      BY <3>1 DEF layer, step
    <3>3. obj_state' /\ Base' = Base /\ Due' = Due
      BY <2>1, <2>4, <3>2 DEF obj_state, Base, Due, Fetching
    <3> QED BY <1>2, <1>3, <1>5, <2>6, <3>2, <3>3
  <2>7. CASE step = "push" /\ ~obj_trigger
    <3>1. fetcher_state' = fetcher_return
      BY <2>1, <2>7, ObjFetchMoves
    <3>2. layer' = fetcher_return[1]
      BY <3>1 DEF layer
    <3>3. ~obj_state'
      BY <2>3, <3>2 DEF obj_state, Layers
    <3>4. Base' = Base /\ Due' = Due
      BY <2>4, <3>1, <3>3 DEF Base, Due, Fetching
    <3> QED BY <1>2, <1>3, <1>5, <2>7, <3>3, <3>4
  <2> QED BY <2>5, <2>6, <2>7
<1>6. CASE ~TakeOver /\ ~obj_state
  <2>1. layer \in Layers /\ step \in {"map", "read", "data", "low", "high", "push"}
        /\ fetcher_state = <<layer, step>>
    BY <1>1, <1>6 DEF FetcherShape, obj_state
  <2>2. Base = layer /\ Due = Away(step)
    BY <1>6, <2>1 DEF Base, Due, Fetching
  <2>3. CASE step # "push"
    <3>1. fetcher_state' = NextFetch
      BY <1>6, <2>3, FetchMoves DEF goes_to_obj
    <3>2. fetcher_state' = <<layer, StepAfter(step, Steps)>>
      BY <2>3, <3>1 DEF NextFetch
    <3>3. layer' = layer /\ step' = StepAfter(step, Steps)
      BY <3>2 DEF layer, step
    <3>4. ~obj_state'
      BY <1>6, <3>3 DEF obj_state
    <3>5. Base' = layer /\ Due' = Away(StepAfter(step, Steps))
      BY <3>2, <3>4 DEF Base, Due, Fetching
    <3>6. Away(StepAfter(step, Steps)) = Away(step) - 1
      BY <2>1, <2>3, StepOrder DEF Away
    <3> QED BY <1>2, <1>3, <1>6, <2>2, <2>3, <3>4, <3>5, <3>6
  <2>4. CASE step = "push"
    <3>1. NextFetch = IF bgr_fifo_push THEN <<layer, "map">> ELSE <<layer, "push">>
      BY <2>1, <2>4 DEF NextFetch
    <3>2. Due = 0
      BY <2>2, <2>4 DEF Away
    <3>3. goes_to_obj <=> obj_trigger
      BY <1>6, <2>4 DEF goes_to_obj
    <3>4. CASE obj_trigger /\ OBJ_EN
      <4>1. fetcher_state' = <<"obj", "data">> /\ fetcher_return' = NextFetch
        BY <3>3, <3>4, FetchMoves
      <4>2. layer' = "obj" /\ step' = "data" /\ obj_state'
        BY <4>1 DEF layer, step, obj_state
      <4>3. Base' = layer /\ Due' = IF bgr_fifo_push THEN 5 ELSE 0
        BY <3>1, <4>1, <4>2 DEF Base, Due, Fetching, Away
      <4> QED BY <1>2, <1>3, <1>6, <2>2, <2>4, <3>2, <3>4, <4>2, <4>3
    <3>5. CASE ~(obj_trigger /\ OBJ_EN)
      <4>1. fetcher_state' = NextFetch
        BY <1>6, <3>3, <3>5, FetchMoves
      <4>2. layer' = layer
        BY <3>1, <4>1 DEF layer
      <4>3. ~obj_state'
        BY <1>6, <4>2 DEF obj_state
      <4>4. Base' = layer /\ Due' = IF bgr_fifo_push THEN 5 ELSE 0
        BY <3>1, <4>1, <4>3 DEF Base, Due, Fetching, Away
      <4> QED BY <1>2, <1>3, <1>6, <2>2, <2>4, <3>2, <3>5, <4>3, <4>4
    <3> QED BY <3>4, <3>5
  <2> QED BY <2>3, <2>4
<1> QED BY <1>4, <1>5, <1>6

(* An object holds the output for what Held says of it. *)
LEMMA HeldMoves ==
  ASSUME Shapes, DrawInv, mode = "drawing", Fetch, Output
  PROVE  /\ Held \in Nat /\ Held' \in Int /\ Held' <= Held
         /\ obj_state \/ obj_trigger => Held' <= Held - 1
<1>1. /\ ahead \subseteq Objs /\ here \subseteq Objs
      /\ ahead' \subseteq Objs /\ here' \subseteq Objs
  BY ObjectsMove DEF Shapes, ObjectShape
<1>2. /\ Cardinality(ahead) \in Nat /\ Cardinality(here) \in Nat
      /\ Cardinality(ahead') \in Nat /\ Cardinality(here') \in Nat
      /\ here # {} => Cardinality(here) >= 1
  BY <1>1, Counted
<1>3. /\ Valid \in Nat /\ Valid' \in Nat
      /\ here # {} => Valid >= 1
  BY <1>2 DEF Valid
<1>4. Due \in 0..5 /\ Due' \in 0..5
  BY FetchingMoves
<1>5. ObjAway(step) \in 1..6
  BY DEF ObjAway
<1>6. CASE obj_state /\ step # "push"
  <2>1. current_obj \in here
    BY <1>6 DEF DrawInv
  <2>2. Held = ObjAway(step) + 11 * (Valid - 1)
    BY <1>6 DEF Held
  <2>3. obj_state' /\ ObjAway(step') = ObjAway(step) - 1 /\ (step' = "push" <=> step = "merge")
    BY <1>6, FetchingMoves
  <2>4. ahead' = ahead /\ here' = StillHere
    BY <1>6, OutputMoves, ObjectsMove
  <2>5. CASE step = "merge"
    <3>1. here' = here \ {current_obj}
      BY <1>6, <2>4, <2>5, StillHereIs
    <3>2. Valid' = Valid - 1
      BY <1>1, <1>2, <2>1, <2>4, <3>1, OneLess DEF Valid
    <3>3. Held' = 1 + 11 * Valid'
      BY <2>3, <2>5 DEF Held
    <3>4. ObjAway(step) = 2
      BY <2>5 DEF ObjAway
    <3> QED BY <1>3, <2>1, <2>2, <3>2, <3>3, <3>4
  <2>6. CASE step # "merge"
    <3>1. here' = here
      BY <1>6, <2>4, <2>6, StillHereIs DEF goes_to_obj
    <3>2. Valid' = Valid
      BY <2>4, <3>1 DEF Valid
    <3>3. Held' = ObjAway(step') + 11 * (Valid' - 1)
      BY <2>3, <2>6 DEF Held
    <3> QED BY <1>3, <1>5, <2>1, <2>2, <2>3, <3>2, <3>3
  <2> QED BY <2>5, <2>6
<1>7. CASE obj_state /\ step = "push"
  <2>1. Held = 1 + 11 * Valid
    BY <1>7 DEF Held
  <2>2. ahead' = ahead /\ here' = here
    BY <1>7, OutputMoves, ObjectsMove, StillHereIs DEF goes_to_obj
  <2>3. Valid' = Valid
    BY <2>2 DEF Valid
  <2>4. CASE obj_trigger
    <3>1. obj_state' /\ step' = "wait"
      BY <1>7, <2>4, FetchingMoves
    <3>2. Held' = 6 + 11 * (Valid' - 1)
      BY <3>1 DEF Held, ObjAway
    <3> QED BY <1>3, <2>1, <2>3, <3>2
  <2>5. CASE ~obj_trigger
    <3>1. ~obj_state' /\ ~obj_trigger'
      BY <1>7, <2>2, <2>5, FetchingMoves DEF obj_trigger
    <3>2. Held' = 11 * Valid'
      BY <3>1 DEF Held
    <3> QED BY <1>3, <2>1, <2>3, <3>2
  <2> QED BY <2>4, <2>5
<1>8. CASE ~obj_state /\ obj_trigger
  <2>1. Held = Due + 6 + 11 * (Valid - 1) /\ Valid >= 1 /\ ~TakeOver /\ here # {}
    BY <1>3, <1>8 DEF Held, obj_trigger, TakeOver
  <2>2. ahead' = ahead /\ here' = StillHere
    BY <1>8, OutputMoves, ObjectsMove
  <2>3. CASE step # "push"
    <3>1. here' = here /\ ~obj_state' /\ Due' = Due - 1
      BY <1>8, <2>1, <2>2, <2>3, StillHereIs, FetchingMoves DEF goes_to_obj
    <3>2. Valid' = Valid /\ obj_trigger'
      BY <1>8, <2>2, <3>1 DEF Valid, obj_trigger
    <3>3. Held' = Due' + 6 + 11 * (Valid' - 1)
      BY <3>1, <3>2 DEF Held
    <3> QED BY <1>3, <1>4, <2>1, <3>1, <3>2, <3>3
  <2>4. CASE step = "push" /\ OBJ_EN
    <3>1. here' = here /\ obj_state' /\ step' = "data" /\ Due = 0
      BY <1>8, <2>1, <2>2, <2>4, StillHereIs, FetchingMoves DEF goes_to_obj
    <3>2. Valid' = Valid
      BY <2>2, <3>1 DEF Valid
    <3>3. Held' = 5 + 11 * (Valid' - 1)
      BY <3>1 DEF Held, ObjAway
    <3> QED BY <1>3, <2>1, <3>1, <3>2, <3>3
  <2>5. CASE step = "push" /\ ~OBJ_EN
    <3>1. here' = here \ {Min(here)} /\ ~obj_state' /\ Due = 0
      BY <1>8, <2>1, <2>2, <2>5, StillHereIs, FetchingMoves DEF goes_to_obj
    <3>2. Min(here) \in here
      BY <1>1, <2>1, FirstObject
    <3>3. Valid' = Valid - 1
      BY <1>1, <1>2, <2>2, <3>1, <3>2, OneLess DEF Valid
    <3>4. Held' = Due' + 6 + 11 * (Valid' - 1) \/ Held' = 11 * Valid'
      BY <3>1 DEF Held
    <3> QED BY <1>3, <1>4, <2>1, <3>1, <3>3, <3>4
  <2> QED BY <2>3, <2>4, <2>5
<1>9. CASE ~obj_state /\ ~obj_trigger
  <2>1. Held = 11 * Valid
    BY <1>9 DEF Held
  <2>2. ~obj_state'
    <3>1. CASE TakeOver
      BY <3>1, FetchingMoves
    <3>2. CASE ~TakeOver
      BY <1>9, <3>2, FetchingMoves
    <3> QED BY <3>1, <3>2
  <2>3. Valid' = Valid
    <3>1. CASE output_x' = output_x
      <4>1. here' = {} /\ here = {} /\ ahead' = ahead
        BY <1>9, <3>1, OutputMoves, ObjectsMove, StillHereIs DEF obj_trigger, goes_to_obj
      <4> QED BY <4>1 DEF Valid
    <3>2. CASE output_x' # output_x
      BY <3>2, ObjectsMove
    <3> QED BY <3>1, <3>2
  <2>4. Held' = Due' + 6 + 11 * (Valid' - 1) \/ Held' = 11 * Valid'
    BY <2>2 DEF Held
  <2> QED BY <1>3, <1>4, <1>9, <2>1, <2>3, <2>4
<1> QED BY <1>6, <1>7, <1>8, <1>9

(* The FIFOs in a dot that does not start a line. *)
FifosGoOn == Fifos(FALSE)

(* The background FIFO after a dot of drawing: it runs dry only where the window
   takes over, and a push that is due comes in time. *)
LEMMA FifoKept ==
  ASSUME Shapes, DrawInv, mode = "drawing", Fetch, FifosGoOn, Output
  PROVE  /\ ~TakeOver /\ ~Dry => ~Dry'
         /\ TakeOver => Dry'
         /\ ~obj_state /\ step = "push" /\ Dry /\ ~TakeOver => ~Dry'
         /\ ~Dry' => Due' < Len(bgr_fifo')
         /\ bgr_fifo_push /\ ~TakeOver => ~Dry'
<1>1. /\ bgr_fifo \in Seq(Places) /\ bgr_fifo_flush \in BOOLEAN
      /\ Len(bgr_fifo) \in Nat /\ (bgr_fifo # <<>> => Len(bgr_fifo) > 0)
  BY EmptySeq, LenProperties DEF Shapes, FifoShape
<1>2. /\ bgr_fifo_flush => bgr_fifo' = <<>>
      /\ ~bgr_fifo_flush /\ bgr_fifo_push => bgr_fifo' = Fetched
      /\ ~bgr_fifo_flush /\ ~bgr_fifo_push /\ bgr_fifo_read => bgr_fifo' = Popped(bgr_fifo)
      /\ ~bgr_fifo_flush /\ ~bgr_fifo_push /\ ~bgr_fifo_read => bgr_fifo' = bgr_fifo
      /\ bgr_fifo_flush' <=> TakeOver
  <2>1. Fifos(FALSE)
    BY DEF FifosGoOn
  <2>2. bgr_fifo_flush' <=> (FALSE \/ TakeOver)
    BY <2>1, FifoMoves
  <2> QED BY <2>1, <2>2, FifoMoves
<1>3. Fetched # <<>> /\ Len(Fetched) = 8
  BY FetchedIs DEF Tile
<1>4. bgr_fifo_flush => ~obj_state /\ step \in {"map", "read"}
  BY DEF DrawInv
<1>5. ~Dry => Due < Len(bgr_fifo)
  BY DEF DrawInv
<1>6. Due \in 0..5 /\ Due' \in 0..5
  BY FetchingMoves
<1>7. bgr_fifo_push => ~bgr_fifo_flush /\ ~obj_state /\ step = "push"
  BY <1>4 DEF bgr_fifo_push
<1>8. bgr_fifo_read => ~obj_state /\ ~obj_trigger
  BY DEF bgr_fifo_read, sends, discards, Advances
<1>9. CASE TakeOver
  <2>1. Dry'
    BY <1>2, <1>9 DEF Dry
  <2> QED BY <1>9, <2>1
<1>10. CASE ~TakeOver /\ bgr_fifo_push
  <2>1. bgr_fifo' = Fetched /\ ~bgr_fifo_flush'
    BY <1>2, <1>7, <1>10
  <2>2. ~Dry'
    BY <1>3, <2>1 DEF Dry
  <2>3. \A d \in 0..5 : d < 8
    OBVIOUS
  <2>4. Due' < Len(bgr_fifo')
    BY <1>3, <1>6, <2>1, <2>3
  <2> QED BY <1>10, <2>2, <2>4
<1>11. CASE ~TakeOver /\ ~bgr_fifo_push
  <2>1. ~bgr_fifo_flush' /\ Due' <= Due
    <3>1. CASE obj_state
      BY <1>2, <1>6, <1>11, <3>1, FetchingMoves
    <3>2. CASE ~obj_state
      BY <1>2, <1>6, <1>11, <3>2, FetchingMoves
    <3> QED BY <3>1, <3>2
  <2>2. CASE Dry
    <3>1. bgr_fifo' = <<>>
      <4>1. CASE bgr_fifo_flush
        BY <1>2, <4>1
      <4>2. CASE ~bgr_fifo_flush
        <5>1. bgr_fifo = <<>>
          BY <2>2, <4>2 DEF Dry
        <5>2. Popped(bgr_fifo) = <<>>
          BY <5>1 DEF Popped
        <5>3. bgr_fifo_read \in BOOLEAN
          BY DEF bgr_fifo_read, sends, discards
        <5> QED BY <1>2, <1>11, <4>2, <5>1, <5>2, <5>3
      <4> QED BY <1>1, <4>1, <4>2
    <3>2. Dry'
      BY <3>1 DEF Dry
    <3>3. ~(~obj_state /\ step = "push")
      <4> SUFFICES ASSUME ~obj_state, step = "push" PROVE FALSE
        OBVIOUS
      <4>1. bgr_fifo = <<>>
        BY <1>4, <2>2 DEF Dry
      <4> QED BY <1>11, <4>1 DEF bgr_fifo_push
    <3> QED BY <1>11, <2>2, <3>2, <3>3
  <2>3. CASE ~Dry
    <3>1. ~bgr_fifo_flush /\ bgr_fifo # <<>> /\ Due < Len(bgr_fifo)
      BY <1>5, <2>3 DEF Dry
    <3>2. CASE ~bgr_fifo_read
      <4>1. bgr_fifo' = bgr_fifo
        BY <1>2, <1>11, <3>1, <3>2
      <4>2. ~Dry' /\ Due' < Len(bgr_fifo')
        BY <1>1, <1>6, <2>1, <3>1, <4>1 DEF Dry
      <4> QED BY <1>11, <2>3, <4>2
    <3>3. CASE bgr_fifo_read
      <4>1. bgr_fifo' = Popped(bgr_fifo) /\ ~obj_state /\ ~obj_trigger
        BY <1>2, <1>8, <1>11, <3>1, <3>3
      <4>2. Len(bgr_fifo') = Len(bgr_fifo) - 1
        BY <1>1, <3>1, <4>1, PoppedIs
      <4>3. Due' < Len(bgr_fifo) - 1
        <5>1. CASE step # "push"
          <6>1. Due' = Due - 1
            BY <1>11, <4>1, <5>1, FetchingMoves
          <6> QED BY <1>1, <1>6, <3>1, <6>1
        <5>2. CASE step = "push"
          <6>1. Due' = 0
            BY <1>11, <4>1, <5>2, FetchingMoves
          <6>2. Len(bgr_fifo) # 1
            BY <1>11, <3>3, <4>1, <5>2 DEF bgr_fifo_push
          <6>3. Len(bgr_fifo) \in Nat /\ Len(bgr_fifo) > 0
            BY <1>1, <3>1
          <6>4. Len(bgr_fifo) >= 2
            BY <6>2, <6>3
          <6>5. 0 < Len(bgr_fifo) - 1
            BY <6>3, <6>4
          <6> QED BY <6>1, <6>5
        <5> QED BY <5>1, <5>2
      <4>4. bgr_fifo' # <<>>
        <5>1. Len(bgr_fifo') > 0
          BY <1>1, <1>6, <4>2, <4>3
        <5>2. Len(<<>>) = 0
          OBVIOUS
        <5> QED BY <5>1, <5>2
      <4>5. ~Dry'
        BY <2>1, <4>4 DEF Dry
      <4> QED BY <1>11, <2>3, <4>2, <4>3, <4>5
    <3> QED BY <3>2, <3>3
  <2> QED BY <2>2, <2>3
<1> QED BY <1>9, <1>10, <1>11

(* The window holds the output for what WindowDots says; where the output stalls
   it is the window it waits for. *)
LEMMA WindowMoves ==
  ASSUME Shapes, DrawInv, mode = "drawing", Fetch, FifosGoOn, Output, UNCHANGED registers
  PROVE  /\ WindowDots \in Nat /\ WindowDots' \in Nat /\ WindowDots' <= WindowDots
         /\ Advances /\ ~leads /\ ~discards /\ ~sends => WindowDots' <= WindowDots - 1
<1>1. Due \in 0..5 /\ Due' \in 0..5 /\ Base \in Layers /\ Base' \in Layers
  BY FetchingMoves
<1>2. WindowDots \in Nat /\ WindowDots' \in Nat
  <2>1. Due + 1 \in Nat /\ Due' + 1 \in Nat
    <3>1. \A d \in 0..5 : d + 1 \in Nat
      OBVIOUS
    <3> QED BY <1>1, <3>1
  <2>2. WindowDots = 0 \/ WindowDots = 5 \/ WindowDots = Due + 1
    BY DEF WindowDots
  <2>3. WindowDots' = 0 \/ WindowDots' = 5 \/ WindowDots' = Due' + 1
    BY DEF WindowDots
  <2> QED BY <2>1, <2>2, <2>3
<1>3. ASSUME Advances, ~leads, ~discards, ~sends PROVE Dry /\ Base = "win" /\ ~obj_state /\ ~TakeOver
  <2>1. output_x >= Lead /\ discard_x = 0
    BY <1>3 DEF leads, discards, Shapes, OutputShape, Lead
  <2>2. Dry
    BY <1>3, <2>1 DEF sends, Dry
  <2>3. Base # "bgr"
    BY <1>1, <2>1, <2>2 DEF DrawInv, Shapes, OutputShape, Lead
  <2>4. ~TakeOver
    BY <2>3, FetchingMoves
  <2> QED BY <1>1, <1>3, <2>2, <2>3, <2>4 DEF Layers, Advances
<1>4. CASE TakeOver
  <2>1. WIN_EN
    BY <1>4 DEF TakeOver, win_trigger
  <2>2. WindowDots = 5
    BY <1>4, <2>1, FetchingMoves DEF WindowDots
  <2>3. Dry' /\ Base' = "win" /\ Due' = 4
    BY <1>4, FetchingMoves, FifoKept
  <2>4. WindowDots' = 5
    BY <2>3 DEF WindowDots
  <2> QED BY <1>2, <1>3, <1>4, <2>2, <2>4
<1>5. CASE ~TakeOver /\ Base = "bgr"
  <2>1. Base' = "bgr"
    BY <1>5, FetchingMoves
  <2>2. WIN_EN' = WIN_EN
    BY DEF registers
  <2>3. WindowDots' = WindowDots
    BY <1>5, <2>1, <2>2 DEF WindowDots
  <2> QED BY <1>2, <1>3, <1>5, <2>3
<1>6. CASE ~TakeOver /\ Base # "bgr" /\ ~Dry
  <2>1. WindowDots = 0
    BY <1>6 DEF WindowDots
  <2>2. Base' # "bgr" /\ ~Dry'
    BY <1>6, FetchingMoves, FifoKept
  <2>3. WindowDots' = 0
    BY <2>2 DEF WindowDots
  <2> QED BY <1>2, <1>3, <1>6, <2>1, <2>3
<1>7. CASE ~TakeOver /\ Base # "bgr" /\ Dry
  <2>1. WindowDots = Due + 1 /\ Base' # "bgr"
    BY <1>7, FetchingMoves DEF WindowDots
  <2>2. CASE ~Dry'
    <3>1. WindowDots' = 0
      BY <2>1, <2>2 DEF WindowDots
    <3> QED BY <1>1, <1>2, <2>1, <3>1
  <2>3. CASE Dry'
    <3>1. WindowDots' = Due' + 1
      BY <2>1, <2>3 DEF WindowDots
    <3>2. ~(~obj_state /\ step = "push")
      BY <1>7, <2>3, FifoKept
    <3>3. Due' <= Due
      <4>1. CASE obj_state
        BY <1>1, <4>1, FetchingMoves
      <4>2. CASE ~obj_state
        BY <1>1, <1>7, <3>2, <4>2, FetchingMoves
      <4> QED BY <4>1, <4>2
    <3>4. ~obj_state => Due' = Due - 1
      BY <1>7, <3>2, FetchingMoves
    <3>5. WindowDots' <= WindowDots
      <4>1. \A d, e \in 0..5 : d <= e => d + 1 <= e + 1
        OBVIOUS
      <4> QED BY <1>1, <2>1, <3>1, <3>3, <4>1
    <3>6. ~obj_state => WindowDots' <= WindowDots - 1
      BY <1>1, <2>1, <3>1, <3>4
    <3> QED BY <1>2, <1>3, <3>5, <3>6
  <2> QED BY <2>2, <2>3
<1> QED BY <1>4, <1>5, <1>6, <1>7

(* Behind the last column the pipe empties by a stage a dot. *)
LEMMA DrainMoves ==
  ASSUME Shapes, Pipe
  PROVE  /\ Drain \in 1..4 /\ Drain' \in 1..4
         /\ output_x >= Columns /\ ~LineDrawn => Drain' = Drain - 1
<1>1. Drain \in 1..4 /\ Drain' \in 1..4
  BY DEF Drain
<1>2. ASSUME output_x >= Columns, ~LineDrawn PROVE Drain' = Drain - 1
  <2>1. output_x \in Nat /\ Columns \in Nat
    BY PpuAssumption DEF Shapes, OutputShape, Columns, Lead
  <2>2. pipe'[1] = None /\ pipe'[2] = pipe[1] /\ pipe'[3] = pipe[2]
    BY <1>2, <2>1, PipeMoves DEF Columns
  <2>3. ~(pipe[1] = None /\ pipe[2] = None /\ pipe[3] = None)
    <3> SUFFICES ASSUME pipe[1] = None, pipe[2] = None, pipe[3] = None PROVE FALSE
      OBVIOUS
    <3>1. \A i \in 1..3 : pipe[i] = None
      OBVIOUS
    <3> QED BY <1>2, <3>1 DEF LineDrawn, Columns
  <2> QED BY <2>2, <2>3 DEF Drain
<1> QED BY <1>1, <1>2

(***************************************************************************)
(* The deadline of a line.                                                 *)
(***************************************************************************)

(* The time allowed to draw a line is over before the line is. *)
LEMMA BoundIs ==
  ASSUME Shapes
  PROVE  DrawBound \in Nat /\ ScanDots + DrawBound < LineDots
<1>1. SCX_reg \in 0..255 /\ objs_on_scanline \in 0..MaxObjs
  BY DEF Shapes, RegisterShape, ScanShape
<1>2. \E w \in 0..5 : DrawBound = Width + Lead + (SCX_reg % 8) + 4 + w + 11 * objs_on_scanline
  BY DEF DrawBound
<1>3. PICK w \in 0..5 : DrawBound = Width + Lead + (SCX_reg % 8) + 4 + w + 11 * objs_on_scanline
  BY <1>2
<1>4. SCX_reg % 8 \in 0..7
  BY <1>1
<1>5. 11 * objs_on_scanline \in Nat /\ 11 * objs_on_scanline <= 11 * MaxObjs
  BY <1>1, PpuAssumption
<1>6. Width \in Nat /\ Lead = 8 /\ MaxObjs \in Nat
      /\ ScanDots + Width + Lead + 7 + 4 + 5 + 11 * MaxObjs < LineDots
      /\ LineDots \in Nat /\ ScanDots \in Nat
  BY PpuAssumption DEF Lead
<1> QED BY <1>3, <1>4, <1>5, <1>6

(* What is left gets less when any part of it does. *)
LEMMA LessLeft ==
  ASSUME NEW x \in Nat, NEW x2 \in Nat, NEW d \in Nat, NEW d2 \in Nat,
         NEW w \in Nat, NEW w2 \in Nat, NEW h \in Nat, NEW h2 \in Int,
         x <= x2, d2 <= d, w2 <= w, h2 <= h,
         x < x2 \/ d2 < d \/ w2 <= w - 1 \/ h2 <= h - 1
  PROVE  Left(x2, d2, w2, h2) <= Left(x, d, w, h) - 1
BY PpuAssumption DEF Left, Columns, Lead

LEMMA LeftIs ==
  ASSUME NEW x \in Nat, NEW d \in Nat, NEW w \in Nat, NEW h \in Int
  PROVE  /\ Left(x, d, w, h) \in Int
         /\ x < Columns /\ h \in Nat => Left(x, d, w, h) >= 5
BY PpuAssumption DEF Left, Columns, Lead

(* There is a dot to come at least. *)
LEMMA LeftRemains ==
  ASSUME Shapes, DrawInv, mode = "drawing"
  PROVE  DotsLeft \in Nat /\ DotsLeft >= 1
<1>1. output_x \in Nat /\ discard_x \in Nat /\ Columns \in Nat
  BY PpuAssumption DEF Shapes, OutputShape, Columns, Lead
<1>2. Due \in 0..5
  BY DEF Shapes, FetcherShape, Base, Due, Fetching, Away, Layers, obj_state
<1>3. Valid \in Nat /\ (here # {} => Valid >= 1)
  <2>1. ahead \subseteq Objs /\ here \subseteq Objs
    BY DEF Shapes, ObjectShape
  <2> QED BY <2>1, Counted DEF Valid
<1>4. Held \in Nat
  <2>1. ObjAway(step) \in 1..6
    BY DEF ObjAway
  <2>2. CASE obj_state /\ step # "push"
    <3>1. here # {}
      BY <2>2 DEF DrawInv
    <3>2. Held = ObjAway(step) + 11 * (Valid - 1)
      BY <2>2 DEF Held
    <3> QED BY <1>3, <2>1, <3>1, <3>2
  <2>3. CASE obj_state /\ step = "push"
    <3>1. Held = 1 + 11 * Valid
      BY <2>3 DEF Held
    <3> QED BY <1>3, <3>1
  <2>4. CASE ~obj_state /\ obj_trigger
    <3>1. Held = Due + 6 + 11 * (Valid - 1) /\ here # {}
      BY <2>4 DEF Held, obj_trigger
    <3> QED BY <1>2, <1>3, <3>1
  <2>5. CASE ~obj_state /\ ~obj_trigger
    <3>1. Held = 11 * Valid
      BY <2>5 DEF Held
    <3> QED BY <1>3, <3>1
  <2> QED BY <2>2, <2>3, <2>4, <2>5
<1>5. WindowDots \in Nat
  <2>1. WindowDots = 0 \/ WindowDots = 5 \/ WindowDots = Due + 1
    BY DEF WindowDots
  <2> QED BY <1>2, <2>1
<1>6. CASE output_x >= Columns
  <2>1. DotsLeft = Drain /\ Drain \in 1..4
    BY <1>6 DEF DotsLeft, Drain
  <2> QED BY <2>1
<1>7. CASE ~(output_x >= Columns)
  <2>1. DotsLeft = Left(output_x, discard_x, WindowDots, Held) /\ output_x < Columns
    BY <1>1, <1>7 DEF DotsLeft
  <2>2. DotsLeft \in Int /\ DotsLeft >= 5
    BY <1>1, <1>4, <1>5, <2>1, LeftIs
  <2> QED BY <2>2
<1> QED BY <1>6, <1>7

(* Each dot of drawing leaves less to do. *)
LEMMA LeftMoves ==
  ASSUME Shapes, DrawInv, mode = "drawing", Fetch, FifosGoOn, Output, Pipe,
         UNCHANGED registers, ~LineDrawn
  PROVE  DotsLeft' \in Int /\ DotsLeft' <= DotsLeft - 1
<1>1. /\ output_x \in Nat /\ discard_x \in Nat /\ output_x' \in Nat /\ discard_x' \in Nat
      /\ output_x' = output_x \/ output_x' = output_x + 1
      /\ Columns \in Nat
  BY OutputMoves, PpuAssumption DEF Shapes, OutputShape, Columns, Lead
<1>2. /\ Held \in Nat /\ Held' \in Int /\ Held' <= Held
      /\ obj_state \/ obj_trigger => Held' <= Held - 1
  BY HeldMoves
<1>3. /\ WindowDots \in Nat /\ WindowDots' \in Nat /\ WindowDots' <= WindowDots
      /\ Advances /\ ~leads /\ ~discards /\ ~sends => WindowDots' <= WindowDots - 1
  BY WindowMoves
<1>4. /\ Drain \in 1..4 /\ Drain' \in 1..4
      /\ output_x >= Columns => Drain' = Drain - 1
  BY DrainMoves
<1>5. CASE output_x >= Columns
  <2>1. output_x' >= Columns
    BY <1>1, <1>5
  <2>2. DotsLeft = Drain /\ DotsLeft' = Drain'
    BY <1>5, <2>1 DEF DotsLeft
  <2>3. \A d, e \in 1..4 : /\ d \in Nat /\ d >= 1 /\ e \in Int
                           /\ e = d - 1 => e <= d - 1
    OBVIOUS
  <2> QED BY <1>4, <1>5, <2>2, <2>3
<1>6. CASE ~(output_x >= Columns)
  <2>1. DotsLeft = Left(output_x, discard_x, WindowDots, Held)
    BY <1>6 DEF DotsLeft
  <2>2. DotsLeft \in Int /\ DotsLeft >= 5
    <3>1. output_x < Columns
      BY <1>1, <1>6
    <3> QED BY <1>1, <1>2, <1>3, <2>1, <3>1, LeftIs
  <2>3. CASE output_x' >= Columns
    <3>1. DotsLeft' = Drain'
      BY <2>3 DEF DotsLeft
    <3>2. \A d \in 1..4, l \in Int : l >= 5 => l \in Nat /\ l >= 1 /\ d \in Int /\ d <= l - 1
      OBVIOUS
    <3> QED BY <1>4, <2>2, <3>1, <3>2
  <2>4. CASE ~(output_x' >= Columns)
    <3>1. DotsLeft' = Left(output_x', discard_x', WindowDots', Held')
      BY <2>4 DEF DotsLeft
    <3>2. DotsLeft' \in Int
      BY <1>1, <1>2, <1>3, <3>1, LeftIs
    <3>3. /\ output_x <= output_x' /\ discard_x' <= discard_x
          /\ \/ output_x < output_x' \/ discard_x' < discard_x
             \/ WindowDots' <= WindowDots - 1 \/ Held' <= Held - 1
      <4>1. CASE obj_state \/ obj_trigger
        <5>1. output_x' = output_x /\ discard_x' = discard_x
          BY <4>1, OutputMoves
        <5> QED BY <1>1, <1>2, <4>1, <5>1
      <4>2. CASE leads \/ sends
        <5>1. output_x' = output_x + 1 /\ discard_x' = discard_x
          BY <4>2, OutputMoves
        <5> QED BY <1>1, <5>1
      <4>3. CASE discards
        <5>1. output_x' = output_x /\ discard_x' = discard_x - 1
          BY <4>3, OutputMoves
        <5> QED BY <1>1, <5>1
      <4>4. CASE ~(obj_state \/ obj_trigger) /\ ~leads /\ ~sends /\ ~discards
        <5>1. output_x' = output_x /\ discard_x' = discard_x
          BY <4>4, OutputMoves
        <5>2. Advances
          BY <4>4 DEF Advances
        <5> QED BY <1>1, <1>3, <4>4, <5>1, <5>2
      <4> QED BY <4>1, <4>2, <4>3, <4>4
    <3>4. DotsLeft' <= DotsLeft - 1
      BY <1>1, <1>2, <1>3, <2>1, <3>1, <3>3, LessLeft
    <3>5. DotsLeft \in Nat /\ DotsLeft >= 1
      BY <2>2
    <3> QED BY <3>2, <3>4, <3>5
  <2> QED BY <2>3, <2>4
<1> QED BY <1>5, <1>6

(* A dot of drawing keeps the deadline and what it rests on. *)
LEMMA DrawKept ==
  ASSUME Shapes, DrawInv, DrawDot
  PROVE  /\ DrawInv' /\ output_x' <= Columns + 4
         /\ dot_counter' \in Nat /\ dot_counter' < LineDots
<1>1. mode = "drawing" /\ Fetch /\ FifosGoOn /\ Output /\ Pipe
  BY DEF DrawDot, FifosGoOn
<1>2. UNCHANGED registers /\ objs_on_scanline' = objs_on_scanline
  BY DEF DrawDot, registers, scan
<1>3. /\ output_x \in Nat /\ output_x' \in Nat /\ Columns \in Nat /\ dot_counter \in Nat
      /\ output_x' = output_x \/ output_x' = output_x + 1
  BY <1>1, OutputMoves, PpuAssumption DEF Shapes, OutputShape, RegisterShape, Columns, Lead
<1>4. /\ DrawBound \in Nat /\ ScanDots + DrawBound < LineDots /\ LineDots \in Nat
      /\ LineDots <= 512 /\ ScanDots \in Nat
  BY BoundIs, PpuAssumption
<1>5. DrawBound' = DrawBound
  BY <1>2 DEF DrawBound, registers
<1>6. dot_counter + DotsLeft <= ScanDots + DrawBound
  BY <1>1 DEF DrawInv
<1>7. DotsLeft \in Nat /\ DotsLeft >= 1
  BY <1>1, LeftRemains
<1>8. dot_counter' = dot_counter + 1
  <2>1. dot_counter + 1 < 512
    BY <1>3, <1>4, <1>6, <1>7
  <2>2. dot_counter' = (dot_counter + 1) % 512
    BY DEF DrawDot, CountDot
  <2> QED BY <1>3, <2>1, <2>2
<1>9. dot_counter' \in Nat /\ dot_counter' < LineDots
  BY <1>3, <1>4, <1>6, <1>7, <1>8
<1>10. mode' = "drawing" => ~LineDrawn
  BY DEF DrawDot
<1>11. ASSUME mode' = "drawing" PROVE dot_counter' + DotsLeft' <= ScanDots + DrawBound'
  <2>1. DotsLeft' \in Int /\ DotsLeft' <= DotsLeft - 1
    BY <1>1, <1>2, <1>10, <1>11, LeftMoves
  <2>2. \A d, l, b \in Nat, l2 \in Int : d + l <= b /\ l2 <= l - 1 => (d + 1) + l2 <= b
    OBVIOUS
  <2>3. ScanDots + DrawBound \in Nat
    BY <1>4
  <2> QED BY <1>3, <1>5, <1>6, <1>7, <1>8, <2>1, <2>2, <2>3
<1>12. ASSUME mode' = "drawing", output_x' >= Columns PROVE output_x' + Drain' <= Columns + 4
  <2>1. Drain \in 1..4 /\ Drain' \in 1..4 /\ (output_x >= Columns => Drain' = Drain - 1)
    BY <1>1, <1>10, <1>12, DrainMoves
  <2>2. CASE output_x >= Columns
    <3>1. output_x + Drain <= Columns + 4
      BY <1>1, <2>2 DEF DrawInv
    <3>2. CASE output_x' = output_x
      BY <1>3, <2>1, <2>2, <3>1, <3>2
    <3>3. CASE output_x' = output_x + 1
      BY <1>3, <2>1, <2>2, <3>1, <3>3
    <3> QED BY <1>3, <3>2, <3>3
  <2>3. CASE ~(output_x >= Columns)
    <3>1. output_x' = Columns
      BY <1>3, <1>12, <2>3
    <3>2. \A d \in 1..4, c \in Nat : c + d <= c + 4
      OBVIOUS
    <3> QED BY <1>3, <2>1, <3>1, <3>2
  <2> QED BY <2>2, <2>3
<1>13. output_x' <= Columns + 4
  <2>1. CASE output_x >= Columns
    <3>1. output_x + Drain <= Columns + 4 /\ Drain \in 1..4
      BY <1>1, <2>1, DrainMoves DEF DrawInv
    <3>2. output_x + 1 <= Columns + 4
      BY <1>3, <3>1
    <3>3. output_x <= Columns + 4
      BY <1>3, <3>2
    <3> QED BY <1>3, <3>2, <3>3
  <2>2. CASE ~(output_x >= Columns)
    <3>1. output_x + 1 <= Columns + 4 /\ output_x <= Columns + 4
      BY <1>3, <2>2
    <3> QED BY <1>3, <3>1
  <2> QED BY <2>1, <2>2
<1>14. ~Dry' => Due' < Len(bgr_fifo')
  BY <1>1, FifoKept
<1>15. ASSUME Dry', Base' = "bgr" PROVE output_x' + Due' <= 5
  <2>1. ~TakeOver /\ Base = "bgr"
    BY <1>1, <1>15, FetchingMoves
  <2>2. Dry /\ ~(~obj_state /\ step = "push")
    BY <1>1, <1>15, <2>1, FifoKept
  <2>3. output_x + Due <= 5
    BY <1>1, <2>1, <2>2 DEF DrawInv
  <2>4. Due \in 0..5
    BY <1>1, FetchingMoves
  <2>5. CASE obj_state
    <3>1. output_x' = output_x /\ Due' = Due
      BY <1>1, <2>5, OutputMoves, FetchingMoves
    <3> QED BY <2>3, <3>1
  <2>6. CASE ~obj_state
    <3>1. Due' = Due - 1
      BY <1>1, <2>1, <2>2, <2>6, FetchingMoves
    <3>2. CASE output_x' = output_x
      BY <1>3, <2>3, <2>4, <3>1, <3>2
    <3>3. CASE output_x' = output_x + 1
      BY <1>3, <2>3, <2>4, <3>1, <3>3
    <3> QED BY <1>3, <3>2, <3>3
  <2> QED BY <2>5, <2>6
<1>16. bgr_fifo_flush' => ~obj_state' /\ step' \in {"map", "read"}
  <2>1. Fifos(FALSE)
    BY <1>1 DEF FifosGoOn
  <2>2. bgr_fifo_flush' <=> (FALSE \/ TakeOver)
    BY <2>1, FifoMoves
  <2> QED BY <1>1, <2>2, FetchingMoves
<1>17. ASSUME obj_state', step' # "push" PROVE current_obj' \in here'
  <2>1. ~TakeOver
    BY <1>1, <1>17, FetchingMoves
  <2>2. current_obj' = IF (goes_to_obj /\ OBJ_EN) \/ (obj_fifo_push /\ obj_trigger)
                         THEN Min(here) ELSE current_obj
    BY <1>1 DEF Fetch
  <2>3. here \subseteq Objs
    BY DEF Shapes, ObjectShape
  <2>4. CASE obj_state /\ step # "push"
    <3>1. step # "merge"
      BY <1>1, <1>17, <2>4, FetchingMoves
    <3>2. here' = here
      BY <1>1, <2>4, <3>1, OutputMoves, StillHereIs DEF goes_to_obj
    <3>3. current_obj' = current_obj
      BY <2>2, <2>4 DEF goes_to_obj, obj_fifo_push
    <3> QED BY <1>1, <2>4, <3>2, <3>3 DEF DrawInv
  <2>5. CASE obj_state /\ step = "push"
    <3>1. obj_trigger
      BY <1>1, <1>17, <2>5, FetchingMoves
    <3>2. here' = here
      BY <1>1, <2>5, OutputMoves, StillHereIs DEF goes_to_obj
    <3>3. current_obj' = Min(here)
      BY <1>1, <2>2, <2>5, <3>1 DEF obj_fifo_push
    <3> QED BY <2>3, <3>1, <3>2, <3>3, FirstObject DEF obj_trigger
  <2>6. CASE ~obj_state
    <3>1. step = "push" /\ obj_trigger /\ OBJ_EN
      BY <1>1, <1>17, <2>1, <2>6, FetchingMoves
    <3>2. here' = here
      BY <1>1, <2>6, <3>1, OutputMoves, StillHereIs
    <3>3. current_obj' = Min(here)
      BY <2>2, <2>6, <3>1 DEF goes_to_obj
    <3> QED BY <2>3, <3>1, <3>2, <3>3, FirstObject DEF obj_trigger
  <2> QED BY <2>4, <2>5, <2>6
<1> QED BY <1>9, <1>11, <1>12, <1>13, <1>14, <1>15, <1>16, <1>17 DEF DrawInv

(***************************************************************************)
(* The dots of a line, one by one.                                         *)
(***************************************************************************)

LEMMA Counts ==
  ASSUME dot_counter \in Nat, dot_counter + 1 < 512, CountDot
  PROVE  dot_counter' = dot_counter + 1
BY DEF CountDot

(* The FIFOs and the output keep their shapes in every dot. *)
LEMMA FifosKept ==
  ASSUME Shapes, NEW starts \in BOOLEAN, Fifos(starts), ~(mode' = "drawing" /\ obj_state')
  PROVE  FifoShape'
BY FifosTyped DEF FifoShape

LEMMA OutputKept ==
  ASSUME Shapes, Pipe, NEW h \in {0, 1}, NEW v \in {0, 1}, Sync(h, v),
         output_x' \in Nat, output_x' <= Columns + 4, discard_x' \in 0..7
  PROVE  OutputShape'
BY PipeMoves DEF OutputShape, Sync

(* The row of an object leaves to the FIFO the slots that are there. *)
LEMMA DrawDotKeeps ==
  ASSUME LineIInv, DrawDot
  PROVE  LineIInv'
<1>1. /\ Shapes /\ DrawInv /\ LineInv
      /\ mode = "drawing" /\ Fetch /\ Fifos(FALSE) /\ FifosGoOn /\ Output /\ Pipe /\ Sync(1, 1)
      /\ mode' = IF LineDrawn THEN "hblank" ELSE "drawing"
  BY DEF LineIInv, DrawDot, FifosGoOn
<1>2. UNCHANGED <<LCD_EN, registers, LY_reg, scan>>
  BY DEF DrawDot
<1>3. /\ DrawInv' /\ output_x' <= Columns + 4
      /\ dot_counter' \in Nat /\ dot_counter' < LineDots
  BY <1>1, DrawKept
<1>4. RegisterShape'
  <2>1. RegisterShape /\ mode' \in Modes
    BY <1>1 DEF Shapes, Modes
  <2> QED BY <1>2, <1>3, <2>1 DEF RegisterShape, registers
<1>5. ScanShape'
  BY <1>1, <1>2 DEF Shapes, ScanShape, scan
<1>6. FetcherShape' /\ TileShape' /\ ObjectShape'
  BY <1>1, FetcherTyped, TilesTyped, ObjectsTyped DEF Shapes
<1>7. OutputShape'
  <2>1. output_x' \in Nat /\ discard_x' \in 0..7
    BY <1>1, OutputMoves DEF Shapes, OutputShape
  <2> QED BY <1>1, <1>3, <2>1, OutputKept
<1>8. FifoShape'
  <2>1. ASSUME obj_state', step' = "push", NEW i \in 1..Tile, i \notin obj_fifo_merge'
        PROVE  i <= Len(obj_fifo')
    <3>1. ~TakeOver
      BY <1>1, <2>1, FetchingMoves
    <3>2. obj_state
      BY <1>1, <2>1, <3>1, FetchingMoves
    <3>3. step = "merge"
      BY <1>1, <2>1, <3>2, FetchingMoves
    <3>4. obj_fifo_merge' = Overwritten
      BY <1>1, <3>2, <3>3 DEF Fetch
    <3>5. ~(i > Len(obj_fifo))
      BY <2>1, <3>4 DEF Overwritten
    <3>6. ~obj_fifo_flush /\ ~obj_fifo_push /\ ~obj_fifo_read
      BY <1>1, <3>2, <3>3 DEF DrawInv, Shapes, FifoShape, obj_fifo_push, obj_fifo_read, leads, sends, Advances
    <3>7. obj_fifo' = obj_fifo
      BY <1>1, <3>6, FifoMoves
    <3>8. i \in Nat /\ Len(obj_fifo) \in Nat
      <4>1. obj_fifo \in Seq(ObjPixels)
        BY <1>1 DEF Shapes, FifoShape
      <4> QED BY <4>1, LenProperties DEF Tile
    <3> QED BY <3>5, <3>7, <3>8
  <2>2. /\ bgr_fifo' \in Seq(Places) /\ Len(bgr_fifo') <= Tile /\ bgr_fifo_flush' \in BOOLEAN
        /\ obj_fifo' \in Seq(ObjPixels) /\ Len(obj_fifo') <= Tile /\ obj_fifo_flush' \in BOOLEAN
        /\ obj_fifo_flush' => bgr_fifo_flush'
    BY <1>1, FifosTyped
  <2> QED BY <2>1, <2>2 DEF FifoShape
<1>9. ScanInv' /\ LineInv'
  BY <1>1, <1>2, <1>3 DEF ScanInv, LineInv
<1> QED BY <1>3, <1>4, <1>5, <1>6, <1>7, <1>8, <1>9 DEF LineIInv, Shapes

(* The scan takes the time of its entries and objects. *)
LEMMA ScanMoves ==
  ASSUME Shapes, ScanInv, mode = "oamScan",
         \/ OnLine \/ OffLine \/ Copies \/ Copied
         \/ oamScan_substate = "await" /\ dot_counter # ScanDots - 1 /\ UNCHANGED <<scan, ahead>>,
         CountDot, mode' = "oamScan", here' = here
  PROVE  ScanInv' /\ ScanShape' /\ ahead' \subseteq Objs /\ dot_counter' \in Nat
<1>1. /\ dot_counter < ScanDots /\ here = {} /\ dot_counter \in Nat
      /\ ahead \subseteq 1..(objs_on_scanline + (IF Part(oamScan_substate) = 0 THEN 0 ELSE 1))
      /\ oamScan_substate # "await" =>
           /\ 4 * dot_counter = oam_idx + 12 * objs_on_scanline + 3 * Part(oamScan_substate)
           /\ oam_idx <= LastEntry + Part(oamScan_substate)
           /\ objs_on_scanline < MaxObjs
  BY DEF ScanInv, Shapes, RegisterShape
<1>2. /\ oamScan_substate \in {"get_y", "get_x", "get_tile", "get_attr", "await"}
      /\ oam_idx \in Nat /\ objs_on_scanline \in Nat /\ objs_on_scanline <= MaxObjs
      /\ oam_idx <= 4 * Entries
      /\ MaxObjs \in Nat /\ Entries \in Nat /\ Entries >= 1 /\ MaxObjs >= 1
      /\ LastEntry = 4 * Entries - 4
      /\ ScanDots \in Nat /\ Entries + 3 * MaxObjs < ScanDots /\ ScanDots < 512
  <2>1. ScanShape
    BY DEF Shapes
  <2>2. /\ MaxObjs \in Nat \ {0} /\ Entries \in Nat \ {0}
        /\ ScanDots \in Nat /\ Entries + 3 * MaxObjs < ScanDots
        /\ LineDots \in 1..512 /\ ScanDots + Width + Lead + 7 + 4 + 5 + 11 * MaxObjs < LineDots
        /\ Width \in Nat /\ Lead = 8
    BY PpuAssumption DEF Lead
  <2>3. ScanDots < 512
    BY <2>2
  <2>4. LastEntry = 4 * Entries - 4
    BY <2>2 DEF LastEntry
  <2> QED BY <2>1, <2>2, <2>3, <2>4 DEF ScanShape
<1>3. dot_counter' = dot_counter + 1 /\ dot_counter' \in Nat
  <2>1. dot_counter + 1 < 512
    BY <1>1, <1>2
  <2> QED BY <1>1, <2>1, Counts
<1> DEFINE Scanned(p, k, n) ==
             /\ 4 * (dot_counter + 1) = k + 12 * n + 3 * p
             /\ k <= LastEntry + p /\ n < MaxObjs
<1>4. CASE OnLine
  <2>1. /\ oamScan_substate = "get_y" /\ oamScan_substate' = "get_x" /\ oam_idx' = oam_idx + 1
        /\ ahead' = ahead \union {objs_on_scanline + 1} /\ objs_on_scanline' = objs_on_scanline
    BY <1>4 DEF OnLine
  <2>2. Part(oamScan_substate) = 0 /\ Part(oamScan_substate') = 1
    BY <2>1 DEF Part
  <2>3. Scanned(1, oam_idx + 1, objs_on_scanline)
    BY <1>1, <1>2, <2>1, <2>2
  <2>4. dot_counter + 1 < ScanDots
    BY <1>1, <1>2, <2>3
  <2>5. ahead' \subseteq 1..(objs_on_scanline + 1) /\ ahead' \subseteq Objs
    BY <1>1, <1>2, <2>1, <2>2 DEF Objs
  <2>6. oam_idx + 1 \in 0..(4 * Entries) /\ objs_on_scanline \in 0..MaxObjs
    BY <1>2, <2>3
  <2>7. ScanShape'
    BY <2>1, <2>6 DEF ScanShape
  <2>8. ScanInv'
    BY <1>1, <1>3, <2>1, <2>2, <2>3, <2>4, <2>5 DEF ScanInv
  <2> QED BY <1>3, <2>5, <2>7, <2>8
<1>5. CASE OffLine
  <2>1. /\ oamScan_substate = "get_y" /\ ahead' = ahead /\ objs_on_scanline' = objs_on_scanline
        /\ IF oam_idx < LastEntry
             THEN oam_idx' = oam_idx + 4 /\ oamScan_substate' = oamScan_substate
             ELSE oamScan_substate' = "await" /\ oam_idx' = oam_idx
    BY <1>5 DEF OffLine
  <2>2. Part(oamScan_substate) = 0 /\ Part("get_y") = 0 /\ Part("await") = 0
    BY <2>1 DEF Part
  <2>3. ahead' \subseteq Objs
    BY <1>1, <1>2, <2>1, <2>2 DEF Objs
  <2>4. CASE oam_idx < LastEntry
    <3>1. Scanned(0, oam_idx + 4, objs_on_scanline)
      BY <1>1, <1>2, <2>1, <2>2, <2>4
    <3>2. dot_counter + 1 < ScanDots
      BY <1>1, <1>2, <3>1
    <3>3. oam_idx + 4 \in 0..(4 * Entries) /\ objs_on_scanline \in 0..MaxObjs
      BY <1>2, <3>1
    <3>4. ScanShape'
      BY <2>1, <2>4, <3>3 DEF ScanShape
    <3>5. ScanInv'
      BY <1>1, <1>3, <2>1, <2>2, <2>4, <3>1, <3>2 DEF ScanInv
    <3> QED BY <1>3, <2>3, <3>4, <3>5
  <2>5. CASE ~(oam_idx < LastEntry)
    <3>1. dot_counter + 1 < ScanDots
      BY <1>1, <1>2, <2>1, <2>2
    <3>2. ScanShape'
      BY <1>2, <2>1, <2>5 DEF ScanShape
    <3>3. ScanInv'
      BY <1>1, <1>3, <2>1, <2>2, <2>5, <3>1 DEF ScanInv
    <3> QED BY <1>3, <2>3, <3>2, <3>3
  <2> QED BY <2>4, <2>5
<1>6. CASE Copies
  <2>1. /\ oamScan_substate \in {"get_x", "get_tile"}
        /\ oamScan_substate' = IF oamScan_substate = "get_x" THEN "get_tile" ELSE "get_attr"
        /\ oam_idx' = oam_idx + 1 /\ ahead' = ahead /\ objs_on_scanline' = objs_on_scanline
    BY <1>6 DEF Copies
  <2>2. PICK p \in {1, 2} : Part(oamScan_substate) = p /\ Part(oamScan_substate') = p + 1
    BY <2>1 DEF Part
  <2>3. Scanned(p + 1, oam_idx + 1, objs_on_scanline)
    BY <1>1, <1>2, <2>1, <2>2
  <2>4. dot_counter + 1 < ScanDots
    BY <1>1, <1>2, <2>3
  <2>5. oam_idx + 1 \in 0..(4 * Entries) /\ objs_on_scanline \in 0..MaxObjs
    BY <1>2, <2>3
  <2>6. ahead' \subseteq 1..(objs_on_scanline + 1) /\ ahead' \subseteq Objs
    BY <1>1, <1>2, <2>1, <2>2 DEF Objs
  <2>7. ScanShape'
    BY <2>1, <2>5 DEF ScanShape
  <2>8. oamScan_substate' # "await" /\ Part(oamScan_substate') # 0
    BY <2>1, <2>2
  <2>9. ScanInv'
    BY <1>1, <1>3, <2>1, <2>2, <2>3, <2>4, <2>6, <2>8 DEF ScanInv
  <2> QED BY <1>3, <2>6, <2>7, <2>9
<1>7. CASE Copied
  <2>1. /\ oamScan_substate = "get_attr"
        /\ oamScan_substate' = IF oam_idx < LastEntry /\ objs_on_scanline < MaxObjs - 1
                                 THEN "get_y" ELSE "await"
        /\ objs_on_scanline' = objs_on_scanline + 1 /\ oam_idx' = oam_idx + 1 /\ ahead' = ahead
    BY <1>7 DEF Copied
  <2>2. Part(oamScan_substate) = 3 /\ Part("get_y") = 0 /\ Part("await") = 0
    BY <2>1 DEF Part
  <2>3. /\ dot_counter + 1 < ScanDots
        /\ oam_idx + 1 \in 0..(4 * Entries) /\ objs_on_scanline + 1 \in 0..MaxObjs
    BY <1>1, <1>2, <2>1, <2>2
  <2>4. ahead' \subseteq 1..(objs_on_scanline + 1) /\ ahead' \subseteq Objs
    BY <1>1, <1>2, <2>1, <2>2 DEF Objs
  <2>5. objs_on_scanline + 1 + 0 = objs_on_scanline + 1
    BY <1>2
  <2>6. ScanShape'
    BY <2>1, <2>3 DEF ScanShape
  <2>7. CASE oam_idx < LastEntry /\ objs_on_scanline < MaxObjs - 1
    <3>1. Scanned(0, oam_idx + 1, objs_on_scanline + 1)
      BY <1>1, <1>2, <2>1, <2>2, <2>7
    <3>2. ScanInv'
      BY <1>1, <1>3, <2>1, <2>2, <2>3, <2>4, <2>5, <2>7, <3>1 DEF ScanInv
    <3> QED BY <1>3, <2>4, <2>6, <3>2
  <2>8. CASE ~(oam_idx < LastEntry /\ objs_on_scanline < MaxObjs - 1)
    <3>1. ScanInv'
      BY <1>1, <1>3, <2>1, <2>2, <2>3, <2>4, <2>5, <2>8 DEF ScanInv
    <3> QED BY <1>3, <2>4, <2>6, <3>1
  <2> QED BY <2>7, <2>8
<1>8. CASE oamScan_substate = "await" /\ dot_counter # ScanDots - 1 /\ UNCHANGED <<scan, ahead>>
  <2>1. /\ oamScan_substate' = "await" /\ oamScan_substate = "await" /\ ahead' = ahead
        /\ oam_idx' = oam_idx /\ objs_on_scanline' = objs_on_scanline
    BY <1>8 DEF scan
  <2>2. Part(oamScan_substate) = 0
    BY <2>1 DEF Part
  <2>3. dot_counter + 1 < ScanDots
    BY <1>1, <1>2, <1>8
  <2>4. ahead \subseteq Objs
    BY <1>1, <1>2, <2>2 DEF Objs
  <2>5. ScanShape'
    BY <1>2, <2>1 DEF ScanShape
  <2>6. ScanInv'
    BY <1>1, <1>3, <2>1, <2>2, <2>3 DEF ScanInv
  <2> QED BY <1>3, <2>1, <2>4, <2>5, <2>6
<1> QED BY <1>4, <1>5, <1>6, <1>7, <1>8

LEMMA ScanDotKeeps ==
  ASSUME LineIInv, ScanDot
  PROVE  LineIInv'
<1>1. /\ Shapes /\ ScanInv /\ LineInv /\ mode = "oamScan"
      /\ Fifos(FALSE) /\ Pipe /\ Sync(1, 1) /\ CountDot /\ Idle
      /\ \/ OnLine \/ OffLine \/ Copies \/ Copied
         \/ oamScan_substate = "await" /\ dot_counter # ScanDots - 1 /\ UNCHANGED <<scan, ahead>>
  BY DEF LineIInv, ScanDot
<1>2. mode' = mode /\ LY_reg' = LY_reg /\ here' = here
  BY DEF ScanDot
<1>3. UNCHANGED <<fetcher, window, output, LCD_EN, registers>>
  BY <1>1 DEF Idle
<1>4. ScanInv' /\ ScanShape' /\ ahead' \subseteq Objs /\ dot_counter' \in Nat
  BY <1>1, <1>2, ScanMoves
<1>5. RegisterShape'
  BY <1>1, <1>2, <1>3, <1>4 DEF Shapes, RegisterShape, registers
<1>6. FetcherShape' /\ TileShape'
  BY <1>1, <1>3 DEF Shapes, FetcherShape, TileShape, fetcher, window, layer, step
<1>7. FifoShape'
  BY <1>1, <1>2, FifosKept
<1>8. ObjectShape'
  <2>1. here = {} /\ ObjectShape
    BY <1>1 DEF ScanInv, Shapes
  <2> QED BY <1>2, <1>3, <1>4, <2>1 DEF ObjectShape, fetcher
<1>9. OutputShape'
  <2>1. output_x' \in Nat /\ output_x' <= Columns + 4 /\ discard_x' \in 0..7
    BY <1>1, <1>3 DEF Shapes, OutputShape, output
  <2> QED BY <1>1, <2>1, OutputKept
<1>10. LineInv' /\ DrawInv'
  BY <1>1, <1>2 DEF LineInv, DrawInv
<1> QED BY <1>4, <1>5, <1>6, <1>7, <1>8, <1>9, <1>10 DEF LineIInv, Shapes

(* There are no more objects than the scan counted. *)
LEMMA AheadCounted ==
  ASSUME Shapes, ScanInv, mode = "oamScan", oamScan_substate = "await"
  PROVE  Cardinality(ahead) \in Nat /\ Cardinality(ahead) <= objs_on_scanline
<1>1. ahead \subseteq 1..objs_on_scanline /\ objs_on_scanline \in Nat
  <2>1. Part(oamScan_substate) = 0
    BY DEF Part
  <2>2. objs_on_scanline + 0 = objs_on_scanline /\ objs_on_scanline \in Nat
    BY PpuAssumption DEF Shapes, ScanShape
  <2> QED BY <2>1, <2>2 DEF ScanInv
<1>2. IsFiniteSet(1..objs_on_scanline) /\ Cardinality(1..objs_on_scanline) = objs_on_scanline
  BY <1>1, FS_Interval
<1>3. IsFiniteSet(ahead) /\ Cardinality(ahead) <= Cardinality(1..objs_on_scanline)
  BY <1>1, <1>2, FS_Subset
<1> QED BY <1>2, <1>3, FS_CardinalityType

(* A line starts with the time it is allowed. *)
LEMMA StartKeeps ==
  ASSUME LineIInv, StartDrawing
  PROVE  LineIInv'
<1>1. /\ Shapes /\ ScanInv /\ LineInv /\ mode = "oamScan" /\ oamScan_substate = "await"
      /\ dot_counter = ScanDots - 1 /\ mode' = "drawing"
      /\ Fifos(TRUE) /\ Pipe /\ Sync(1, 1) /\ CountDot
  BY DEF LineIInv, StartDrawing
<1>2. /\ fetch_counter' = 0 /\ win_x' = 0 /\ output_x' = 0 /\ discard_x' = SCX_reg % 8
      /\ fetcher_state' = <<"bgr", "map">>
      /\ here' \subseteq ahead /\ ahead' = ahead \ here'
  BY DEF StartDrawing
<1>3. UNCHANGED <<LCD_EN, registers, LY_reg, scan, fetcher_return, tile_addr, tile_idx, data,
                  current_obj, obj_bits, obj_fifo_merge, win_y, win_y_cond>>
  BY DEF StartDrawing
<1>4. layer' = "bgr" /\ step' = "map" /\ ~obj_state'
  BY <1>2 DEF layer, step, obj_state
<1>5. /\ ScanDots \in Nat /\ ScanDots > 0 /\ ScanDots < 512 /\ Columns \in Nat /\ Columns >= 8
  BY PpuAssumption DEF Columns, Lead
<1>6. dot_counter' = ScanDots
  BY <1>1, <1>5 DEF CountDot
<1>7. SCX_reg \in 0..255 /\ SCX_reg % 8 \in 0..7
  BY <1>1 DEF Shapes, RegisterShape
<1>8. RegisterShape'
  BY <1>1, <1>3, <1>5, <1>6 DEF Shapes, RegisterShape, registers, Modes
<1>9. ScanShape'
  BY <1>1, <1>3 DEF Shapes, ScanShape, scan
<1>10. FetcherShape' /\ TileShape'
  BY <1>1, <1>2, <1>3, <1>4 DEF Shapes, FetcherShape, TileShape, Layers
<1>11. FifoShape'
  BY <1>1, <1>4, FifosKept
<1>12. ObjectShape'
  BY <1>1, <1>2, <1>3 DEF Shapes, ObjectShape
<1>13. OutputShape'
  <2>1. output_x' \in Nat /\ output_x' <= Columns + 4 /\ discard_x' \in 0..7
    BY <1>2, <1>5, <1>7
  <2> QED BY <1>1, <2>1, OutputKept
<1>14. ScanInv' /\ LineInv'
  BY <1>1, <1>3 DEF ScanInv, LineInv
<1>15. Base' = "bgr" /\ Due' = 5
  BY <1>2, <1>4 DEF Base, Due, Fetching, Away
<1>16. bgr_fifo_flush'
  <2>1. bgr_fifo_flush' <=> (TRUE \/ TakeOver)
    BY <1>1, FifoMoves
  <2> QED BY <2>1
<1>17. Cardinality(ahead) \in Nat /\ Cardinality(ahead) <= objs_on_scanline
       /\ objs_on_scanline \in Nat
  BY <1>1, AheadCounted, PpuAssumption DEF Shapes, ScanShape
<1>18. Held' = 11 * Cardinality(ahead)
  <2>1. ahead \subseteq Objs
    BY <1>1 DEF Shapes, ObjectShape
  <2>2. Valid' = Cardinality(ahead)
    BY <1>2, <2>1, Moved DEF Valid
  <2>3. Held' = Due' + 6 + 11 * (Valid' - 1) \/ Held' = 11 * Valid'
    BY <1>4 DEF Held
  <2> QED BY <1>15, <1>17, <2>2, <2>3
<1>19. PICK w \in 0..5 : /\ WindowDots' = w
                         /\ DrawBound' = Width + Lead + (SCX_reg % 8) + 4 + w + 11 * objs_on_scanline
  <2>1. SCX_reg' = SCX_reg /\ objs_on_scanline' = objs_on_scanline
    BY <1>3 DEF registers, scan
  <2>2. CASE WIN_EN'
    <3>1. WindowDots' = 5 /\ DrawBound' = Width + Lead + (SCX_reg' % 8) + 4 + 5 + 11 * objs_on_scanline'
      BY <1>15, <2>2 DEF WindowDots, DrawBound
    <3> QED BY <2>1, <3>1
  <2>3. CASE ~WIN_EN'
    <3>1. WindowDots' = 0 /\ DrawBound' = Width + Lead + (SCX_reg' % 8) + 4 + 0 + 11 * objs_on_scanline'
      BY <1>15, <2>3 DEF WindowDots, DrawBound
    <3> QED BY <2>1, <3>1
  <2> QED BY <2>2, <2>3
<1>20. ~(output_x' >= Columns)
  BY <1>2, <1>5
<1>21. DotsLeft' = Left(0, SCX_reg % 8, w, 11 * Cardinality(ahead))
  BY <1>2, <1>18, <1>19, <1>20 DEF DotsLeft
<1>22. dot_counter' + DotsLeft' <= ScanDots + DrawBound'
  <2>1. Columns = Width + Lead /\ Width \in Nat /\ Lead \in Nat
    BY PpuAssumption DEF Columns, Lead
  <2>2. ScanDots + Left(0, SCX_reg % 8, w, 11 * Cardinality(ahead))
          <= ScanDots + (Width + Lead + (SCX_reg % 8) + 4 + w + 11 * objs_on_scanline)
    BY <1>5, <1>7, <1>17, <2>1 DEF Left
  <2> QED BY <1>6, <1>19, <1>21, <2>2
<1>23. output_x' + Due' <= 5
  BY <1>2, <1>15
<1>24. DrawInv'
  BY <1>4, <1>16, <1>20, <1>22, <1>23 DEF DrawInv, Dry
<1> QED BY <1>8, <1>9, <1>10, <1>11, <1>12, <1>13, <1>14, <1>24 DEF LineIInv, Shapes

LEMMA HBlankKeeps ==
  ASSUME LineIInv, HBlankDot
  PROVE  LineIInv'
<1>1. /\ Shapes /\ LineInv /\ mode = "hblank" /\ Idle
      /\ Fifos(FALSE) /\ Pipe /\ Sync(0, 1) /\ UNCHANGED shown
  BY DEF LineIInv, HBlankDot
<1>2. UNCHANGED <<fetcher, window, output, LCD_EN, registers>>
  BY <1>1 DEF Idle
<1>3. /\ dot_counter \in Nat /\ dot_counter < LineDots /\ LineDots \in Nat /\ LineDots <= 512
      /\ LY_reg \in Nat /\ LY_reg < Lines /\ Lines \in Nat /\ Lines >= 1
      /\ AllLines \in Nat /\ Lines < AllLines /\ ScanDots \in Nat /\ ScanDots > 0
      /\ Entries \in Nat /\ Entries >= 1 /\ MaxObjs \in Nat /\ MaxObjs >= 1
  BY <1>1, PpuAssumption DEF LineInv, Shapes, RegisterShape
<1>4. OutputShape'
  <2>1. output_x' \in Nat /\ output_x' <= Columns + 4 /\ discard_x' \in 0..7
    BY <1>1, <1>2 DEF Shapes, OutputShape, output
  <2> QED BY <1>1, <2>1, OutputKept
<1>5. FetcherShape' /\ TileShape'
  BY <1>1, <1>2 DEF Shapes, FetcherShape, TileShape, fetcher, window, layer, step
<1>6. CASE dot_counter = LineDots - 1
  <2>1. /\ dot_counter' = 0 /\ LY_reg' = LY_reg + 1
        /\ mode' = IF LY_reg = Lines - 1 THEN "vblank" ELSE "oamScan"
        /\ oam_idx' = 0 /\ oamScan_substate' = "get_y" /\ objs_on_scanline' = 0
        /\ ahead' = {} /\ here' = {}
    BY <1>6 DEF HBlankDot
  <2>2. RegisterShape'
    BY <1>1, <1>2, <1>3, <2>1 DEF Shapes, RegisterShape, registers, Modes
  <2>3. ScanShape'
    BY <1>3, <2>1 DEF ScanShape
  <2>4. FifoShape'
    BY <1>1, <2>1, FifosKept
  <2>5. ObjectShape'
    BY <1>1, <1>2, <2>1 DEF Shapes, ObjectShape, fetcher
  <2>6. ScanInv'
    <3>1. Part("get_y") = 0
      BY DEF Part
    <3>2. 0 <= LastEntry + 0 /\ 4 * 0 = 0 + 12 * 0 + 3 * 0
      BY <1>3 DEF LastEntry
    <3> QED BY <1>3, <2>1, <3>1, <3>2 DEF ScanInv
  <2>7. LineInv'
    <3>1. CASE LY_reg = Lines - 1
      <4>1. mode' = "vblank" /\ LY_reg' \in Lines..(AllLines - 1)
        BY <1>3, <2>1, <3>1
      <4> QED BY <1>3, <2>1, <4>1 DEF LineInv
    <3>2. CASE LY_reg # Lines - 1
      <4>1. mode' = "oamScan" /\ LY_reg' < Lines
        BY <1>3, <2>1, <3>2
      <4> QED BY <4>1 DEF LineInv
    <3> QED BY <3>1, <3>2
  <2>8. DrawInv'
    BY <2>1 DEF DrawInv
  <2> QED BY <1>4, <1>5, <2>2, <2>3, <2>4, <2>5, <2>6, <2>7, <2>8 DEF LineIInv, Shapes
<1>7. CASE dot_counter # LineDots - 1
  <2>1. CountDot /\ UNCHANGED <<LY_reg, mode, scan, ahead, here>>
    BY <1>7 DEF HBlankDot
  <2>2. dot_counter' = dot_counter + 1 /\ dot_counter' \in Nat /\ dot_counter' < LineDots
    <3>1. dot_counter + 1 < 512 /\ dot_counter + 1 < LineDots
      BY <1>3, <1>7
    <3> QED BY <1>3, <2>1, <3>1, Counts
  <2>3. RegisterShape' /\ ScanShape'
    BY <1>1, <1>2, <2>1, <2>2 DEF Shapes, RegisterShape, ScanShape, registers, scan
  <2>4. FifoShape'
    BY <1>1, <2>1, FifosKept
  <2>5. ObjectShape'
    BY <1>1, <1>2, <2>1 DEF Shapes, ObjectShape, fetcher
  <2>6. ScanInv' /\ LineInv' /\ DrawInv'
    BY <1>1, <2>1, <2>2 DEF ScanInv, LineInv, DrawInv
  <2> QED BY <1>4, <1>5, <2>3, <2>4, <2>5, <2>6 DEF LineIInv, Shapes
<1> QED BY <1>6, <1>7

LEMMA VBlankKeeps ==
  ASSUME LineIInv, VBlankDot
  PROVE  LineIInv'
<1>1. /\ Shapes /\ LineInv /\ mode = "vblank" /\ Fifos(FALSE) /\ Pipe /\ Sync(1, 0)
      /\ UNCHANGED <<LCD_EN, registers, scan, fetcher, win_x, win_y, output, objects>>
  BY DEF LineIInv, VBlankDot
<1>2. /\ dot_counter \in Nat /\ dot_counter < LineDots /\ LineDots \in Nat /\ LineDots <= 512
      /\ LY_reg \in Lines..(AllLines - 1) /\ Lines \in Nat /\ Lines >= 1
      /\ AllLines \in Nat /\ Lines < AllLines /\ ScanDots \in Nat /\ ScanDots > 0
      /\ Entries \in Nat /\ Entries >= 1 /\ MaxObjs \in Nat /\ MaxObjs >= 1
  BY <1>1, PpuAssumption DEF LineInv, Shapes, RegisterShape
<1>3. /\ ahead = {} /\ here = {} /\ ahead' = {} /\ here' = {}
      /\ oamScan_substate = "get_y" /\ oam_idx = 0 /\ objs_on_scanline = 0
      /\ oamScan_substate' = "get_y" /\ oam_idx' = 0 /\ objs_on_scanline' = 0
  BY <1>1 DEF LineInv, scan, objects
<1>4. OutputShape'
  <2>1. output_x' \in Nat /\ output_x' <= Columns + 4 /\ discard_x' \in 0..7
    BY <1>1 DEF Shapes, OutputShape, output
  <2> QED BY <1>1, <2>1, OutputKept
<1>5. /\ FetcherShape' /\ ScanShape' /\ ObjectShape'
  <2>1. FetcherShape'
    BY <1>1 DEF Shapes, FetcherShape, fetcher, layer, step
  <2>2. ScanShape' /\ ObjectShape'
    BY <1>1, <1>3 DEF Shapes, ScanShape, ObjectShape, fetcher, scan
  <2> QED BY <2>1, <2>2
<1>6. TileShape' /\ (mode' = "vblank" \/ mode' = "oamScan")
  <2>1. win_y_cond' \in BOOLEAN
    BY <1>1 DEF VBlankDot, Shapes, TileShape
  <2> QED BY <1>1, <2>1 DEF VBlankDot, Shapes, TileShape, fetcher
<1>7. FifoShape' /\ DrawInv'
  BY <1>1, <1>6, FifosKept DEF DrawInv
<1>8. CASE dot_counter = LineDots - 1 /\ LY_reg = AllLines - 1
  <2>1. dot_counter' = 0 /\ LY_reg' = 0 /\ mode' = "oamScan"
    BY <1>8 DEF VBlankDot
  <2>2. RegisterShape'
    BY <1>1, <1>2, <2>1 DEF Shapes, RegisterShape, registers, Modes
  <2>3. ScanInv'
    <3>1. Part("get_y") = 0
      BY DEF Part
    <3>2. 0 <= LastEntry + 0 /\ 4 * 0 = 0 + 12 * 0 + 3 * 0
      BY <1>2 DEF LastEntry
    <3> QED BY <1>2, <1>3, <2>1, <3>1, <3>2 DEF ScanInv
  <2>4. LineInv'
    BY <1>2, <2>1 DEF LineInv
  <2> QED BY <1>4, <1>5, <1>6, <1>7, <2>2, <2>3, <2>4 DEF LineIInv, Shapes
<1>9. CASE dot_counter = LineDots - 1 /\ LY_reg # AllLines - 1
  <2>1. dot_counter' = 0 /\ LY_reg' = LY_reg + 1 /\ mode' = "vblank"
    BY <1>1, <1>9 DEF VBlankDot
  <2>2. RegisterShape'
    BY <1>1, <1>2, <2>1 DEF Shapes, RegisterShape, registers, Modes
  <2>3. LY_reg' \in Lines..(AllLines - 1)
    BY <1>2, <1>9, <2>1
  <2>4. ScanInv' /\ LineInv'
    BY <1>2, <1>3, <2>1, <2>3 DEF ScanInv, LineInv
  <2> QED BY <1>4, <1>5, <1>6, <1>7, <2>2, <2>4 DEF LineIInv, Shapes
<1>10. CASE dot_counter # LineDots - 1
  <2>1. CountDot /\ LY_reg' = LY_reg /\ mode' = "vblank"
    BY <1>1, <1>10 DEF VBlankDot
  <2>2. dot_counter' = dot_counter + 1 /\ dot_counter' \in Nat /\ dot_counter' < LineDots
    <3>1. dot_counter + 1 < 512 /\ dot_counter + 1 < LineDots
      BY <1>2, <1>10
    <3> QED BY <1>2, <2>1, <3>1, Counts
  <2>3. RegisterShape'
    BY <1>1, <2>1, <2>2 DEF Shapes, RegisterShape, registers, Modes
  <2>4. ScanInv' /\ LineInv'
    BY <1>2, <1>3, <2>1, <2>2 DEF ScanInv, LineInv
  <2> QED BY <1>4, <1>5, <1>6, <1>7, <2>3, <2>4 DEF LineIInv, Shapes
<1> QED BY <1>8, <1>9, <1>10

(* Outside the dots only the registers change, and no line is drawn then. *)
LEMMA WritesKeep ==
  ASSUME LineIInv, WriteRegisters
  PROVE  LineIInv'
<1>1. /\ Shapes /\ ScanInv /\ LineInv /\ mode = "oamScan"
      /\ UNCHANGED <<LCD_EN, mode, dot_counter, LY_reg, scan, fetcher, window, fifos, output,
                     objects, pipe, hsync, vsync>>
  BY DEF LineIInv, WriteRegisters
<1>2. /\ SCX_reg' \in 0..255 /\ WX_reg' \in 0..255 /\ WY_reg' \in 0..255
      /\ WIN_EN' \in BOOLEAN /\ OBJ_EN' \in BOOLEAN /\ OBJ_PRI_MODE' \in {0, 1}
  <2>1. PICK s \in Settings :
          /\ SCX_reg' = s.SCX /\ WX_reg' = s.WX /\ WY_reg' = s.WY
          /\ WIN_EN' = s.WIN_EN /\ OBJ_EN' = s.OBJ_EN /\ OBJ_PRI_MODE' = s.OPRI
    BY DEF WriteRegisters
  <2>2. s \in [SCX : 0..255, WX : 0..255, WY : 0..255, WIN_EN : BOOLEAN,
               OBJ_EN : BOOLEAN, OPRI : {0, 1}]
    BY PpuAssumption
  <2> QED BY <2>1, <2>2
<1>3. RegisterShape'
  BY <1>1, <1>2 DEF Shapes, RegisterShape
<1>4. ScanShape' /\ FetcherShape' /\ TileShape'
  BY <1>1 DEF Shapes, ScanShape, FetcherShape, TileShape, scan, fetcher, window, layer, step
<1>5. FifoShape'
  BY <1>1 DEF Shapes, FifoShape, fifos
<1>6. ObjectShape' /\ OutputShape'
  BY <1>1 DEF Shapes, ObjectShape, OutputShape, fetcher, objects, output
<1>7. ScanInv' /\ LineInv' /\ DrawInv'
  BY <1>1 DEF ScanInv, LineInv, DrawInv, scan, objects
<1> QED BY <1>3, <1>4, <1>5, <1>6, <1>7 DEF LineIInv, Shapes

(* Switched off, the unit stands still where it is. *)
LEMMA StillKeeps ==
  ASSUME LineIInv, LCD_EN' \in BOOLEAN,
         UNCHANGED <<registers, mode, dot_counter, LY_reg, scan, fetcher, window, fifos,
                     output, objects, pipe, hsync, vsync>>
  PROVE  LineIInv'
<1>1. RegisterShape' /\ ScanShape' /\ TileShape'
  BY DEF LineIInv, Shapes, RegisterShape, ScanShape, TileShape, registers, scan, fetcher, window
<1>2. FetcherShape' /\ FifoShape'
  BY DEF LineIInv, Shapes, FetcherShape, FifoShape, fetcher, fifos, layer, step, obj_state
<1>3. ObjectShape' /\ OutputShape'
  BY DEF LineIInv, Shapes, ObjectShape, OutputShape, fetcher, objects, output
<1>4. ScanInv' /\ LineInv'
  BY DEF LineIInv, ScanInv, LineInv, scan, objects
<1>5. DrawInv'
  <2>1. DrawBound' = DrawBound
    BY DEF DrawBound, registers, scan
  <2>2. DotsLeft' = DotsLeft /\ Drain' = Drain
    BY DEF DotsLeft, Drain, WindowDots, Held, Valid, Base, Due, Fetching, Dry, obj_state,
           obj_trigger, layer, step, registers, fetcher, fifos, output, objects
  <2>3. Base' = Base /\ Due' = Due /\ (Dry' <=> Dry) /\ (obj_state' <=> obj_state) /\ step' = step
    BY DEF Base, Due, Fetching, Dry, obj_state, layer, step, fetcher, fifos
  <2> QED BY <2>1, <2>2, <2>3 DEF LineIInv, DrawInv, fetcher, fifos, output, objects
<1> QED BY <1>1, <1>2, <1>3, <1>4, <1>5 DEF LineIInv, Shapes

LEMMA LineInit ==
  ASSUME Init
  PROVE  LineIInv
<1>1. RegisterShape /\ ScanShape
  <2>1. RegisterShape
    <3>1. LCD_EN \in BOOLEAN /\ WIN_EN \in BOOLEAN /\ OBJ_EN \in BOOLEAN
      BY DEF Init
    <3>2. mode \in Modes
      BY DEF Init, Modes
    <3>3. /\ OBJ_PRI_MODE \in {0, 1} /\ SCX_reg \in 0..255 /\ WX_reg \in 0..255
          /\ WY_reg \in 0..255 /\ dot_counter \in Nat /\ LY_reg \in Nat
      BY DEF Init
    <3> QED BY <3>1, <3>2, <3>3 DEF RegisterShape
  <2>2. 0 \in 0..(4 * Entries) /\ 0 \in 0..MaxObjs
    BY PpuAssumption
  <2> QED BY <2>1, <2>2 DEF Init, ScanShape
<1>2. FetcherShape /\ TileShape
  BY DEF Init, FetcherShape, TileShape, layer, step, Layers, Places, Pixel
<1>3. FifoShape
  <2>1. /\ <<>> \in Seq(Places) /\ <<>> \in Seq(ObjPixels) /\ Len(<<>>) <= Tile
    BY DEF Tile
  <2>2. bgr_fifo = <<>> /\ obj_fifo = <<>> /\ bgr_fifo_flush = FALSE /\ obj_fifo_flush = FALSE
    BY DEF Init
  <2>3. mode # "drawing"
    BY DEF Init
  <2> QED BY <2>1, <2>2, <2>3 DEF FifoShape
<1>4. ObjectShape
  BY PpuAssumption DEF Init, ObjectShape, Objs
<1>5. OutputShape
  <2>1. None \in Places
    BY DEF None, Places
  <2>2. [i \in 1..4 |-> None] \in [1..4 -> Places]
    BY <2>1
  <2>3. 4 \in Nat
    OBVIOUS
  <2>4. pipe \in Seq(Places) /\ Len(pipe) = 4
    BY <2>2, <2>3, RowIs DEF Init
  <2>5. Columns \in Nat
    BY PpuAssumption DEF Columns, Lead
  <2> QED BY <2>4, <2>5 DEF Init, OutputShape
<1>6. ScanInv /\ LineInv /\ DrawInv
  BY PpuAssumption DEF Init, ScanInv, LineInv, DrawInv
<1> QED BY <1>1, <1>2, <1>3, <1>4, <1>5, <1>6 DEF LineIInv, Shapes

(* LineIInv is inductive: a line has what it needs at every dot. *)
LEMMA LinesAreDrawn == Spec => []LineIInv
<1>1. Init => LineIInv
  BY LineInit
<1>2. LineIInv /\ [Next]_vars => LineIInv'
  <2> SUFFICES ASSUME LineIInv, [Next]_vars PROVE LineIInv'
    OBVIOUS
  <2>1. CASE Dot
    <3>1. CASE ScanDot
      BY <3>1, ScanDotKeeps
    <3>2. CASE StartDrawing
      BY <3>2, StartKeeps
    <3>3. CASE DrawDot
      BY <3>3, DrawDotKeeps
    <3>4. CASE HBlankDot
      BY <3>4, HBlankKeeps
    <3>5. CASE VBlankDot
      BY <3>5, VBlankKeeps
    <3> QED BY <2>1, <3>1, <3>2, <3>3, <3>4, <3>5 DEF Dot
  <2>2. CASE WriteRegisters
    BY <2>2, WritesKeep
  <2>3. CASE SwitchLCD
    <3>1. LCD_EN' \in BOOLEAN
      BY <2>3 DEF SwitchLCD
    <3> QED BY <2>3, <3>1, StillKeeps DEF SwitchLCD
  <2>4. CASE UNCHANGED vars
    <3>1. LCD_EN' \in BOOLEAN
      BY <2>4 DEF vars, LineIInv, Shapes, RegisterShape
    <3> QED BY <2>4, <3>1, StillKeeps DEF vars
  <2> QED BY <2>1, <2>2, <2>3, <2>4 DEF Next
<1> QED BY <1>1, <1>2, PTL DEF Spec

(* The counters stay within the line and the frame, the FIFOs hold a tile at
   most, and the output goes no further than the pipe behind the last column. *)
THEOREM LinesTyped == Spec => []TypeOK
<1>1. LineIInv => TypeOK
  <2> SUFFICES ASSUME LineIInv PROVE TypeOK
    OBVIOUS
  <2>1. Shapes /\ ScanInv /\ LineInv /\ DrawInv
    BY DEF LineIInv
  <2>2. dot_counter \in 0..(LineDots - 1)
    <3>1. /\ dot_counter \in Nat /\ mode \in Modes /\ LineDots \in Nat /\ ScanDots < LineDots
          /\ ScanDots \in Nat
      BY <2>1, PpuAssumption DEF Shapes, RegisterShape, Lead
    <3>2. CASE mode = "drawing"
      <4>1. DotsLeft \in Nat /\ DotsLeft >= 1 /\ dot_counter + DotsLeft <= ScanDots + DrawBound
        BY <2>1, <3>2, LeftRemains DEF DrawInv
      <4>2. DrawBound \in Nat /\ ScanDots + DrawBound < LineDots
        BY <2>1, BoundIs
      <4> QED BY <3>1, <4>1, <4>2
    <3>3. CASE mode = "oamScan"
      BY <2>1, <3>1, <3>3 DEF ScanInv
    <3>4. CASE mode \in {"hblank", "vblank"}
      BY <2>1, <3>1, <3>4 DEF LineInv
    <3> QED BY <3>1, <3>2, <3>3, <3>4 DEF Modes
  <2>3. LY_reg \in 0..(AllLines - 1)
    BY <2>1, PpuAssumption DEF Shapes, RegisterShape, LineInv
  <2>4. fetcher_state \in ({"bgr", "win"} \X Range(Steps)) \union ({"obj"} \X Range(ObjSteps))
    <3>1. /\ {"map", "read", "data", "low", "high", "push"} \subseteq Range(Steps)
          /\ {"wait", "data", "low", "high", "merge", "push"} \subseteq Range(ObjSteps)
      BY DEF Range, Steps, ObjSteps
    <3> QED BY <2>1, <3>1 DEF Shapes, FetcherShape, Layers
  <2>5. output_x \in 0..(Width + Lead + 4)
    BY <2>1, PpuAssumption DEF Shapes, OutputShape, Columns, Lead
  <2>6. /\ LCD_EN \in BOOLEAN /\ WIN_EN \in BOOLEAN /\ OBJ_EN \in BOOLEAN /\ OBJ_PRI_MODE \in {0, 1}
        /\ SCX_reg \in 0..255 /\ WX_reg \in 0..255 /\ WY_reg \in 0..255 /\ mode \in Modes
    BY <2>1 DEF Shapes, RegisterShape
  <2>7. /\ oamScan_substate \in {"get_y", "get_x", "get_tile", "get_attr", "await"}
        /\ oam_idx \in 0..(4 * Entries) /\ objs_on_scanline \in 0..MaxObjs
        /\ fetcher_return \in {"bgr", "win"} \X {"map", "push"}
    BY <2>1 DEF Shapes, ScanShape, FetcherShape, Layers
  <2>8. Len(bgr_fifo) <= Tile /\ Len(obj_fifo) <= Tile
    BY <2>1 DEF Shapes, FifoShape
  <2>9. /\ ahead \subseteq Objs /\ here \subseteq Objs /\ ahead \intersect here = {}
        /\ current_obj \in Objs /\ obj_bits \in Patterns \union {{}} /\ obj_fifo_merge \subseteq 1..Tile
    BY <2>1 DEF Shapes, ObjectShape
  <2>10. discard_x \in 0..7 /\ Len(pipe) = 4 /\ hsync \in {0, 1} /\ vsync \in {0, 1}
    BY <2>1 DEF Shapes, OutputShape
  <2> QED BY <2>2, <2>3, <2>4, <2>5, <2>6, <2>7, <2>8, <2>9, <2>10 DEF TypeOK
<1> QED BY <1>1, LinesAreDrawn, PTL

(* A line is drawn in the time it is allowed, whatever objects and window come
   upon it (PPU.v:1105). *)
THEOREM LinesAreInTime == Spec => []DrawnInTime
<1>1. LineIInv => DrawnInTime
  <2> SUFFICES ASSUME LineIInv, mode = "drawing" PROVE dot_counter < ScanDots + DrawBound
    BY DEF DrawnInTime
  <2>1. DotsLeft \in Nat /\ DotsLeft >= 1 /\ dot_counter + DotsLeft <= ScanDots + DrawBound
    BY LeftRemains DEF LineIInv, DrawInv
  <2>2. DrawBound \in Nat /\ ScanDots \in Nat /\ dot_counter \in Nat
    BY BoundIs, PpuAssumption DEF LineIInv, Shapes, RegisterShape
  <2> QED BY <2>1, <2>2
<1> QED BY <1>1, LinesAreDrawn, PTL

(***************************************************************************)
(* The object on top.                                                      *)
(***************************************************************************)

Shown == [obj : Objs, x : Nat, bits : SUBSET (1..Tile)]

(* Of a set of objects, those with an opaque pixel i - 1 columns after x. *)
Covering(S, x, i) == {o \in S : x - o.x + i \in o.bits}

(* Slot i of a FIFO holds a pixel of the one on top of those, or none. *)
Right(fifo, i, C) ==
  IF C = {} THEN i <= Len(fifo) => ~fifo[i].opaque
  ELSE /\ i <= Len(fifo) /\ fifo[i].opaque
       /\ \E o \in C : o.obj = fifo[i].obj /\ \A p \in C \ {o} : Above(o, p)

(* Every slot is right for its column. *)
SlotsRight ==
  /\ shown \subseteq Shown
  /\ obj_fifo_flush => shown = {}
  /\ ~obj_fifo_flush => \A i \in Nat \ {0} : Right(obj_fifo, i, Covering(shown, output_x, i))

(* What decides between two objects is there when the second comes: no object is
   fetched twice, those at one x in the order of OAM, *)
Passed ==
  \A o \in shown : /\ o.x <= output_x /\ o.obj \notin ahead \union here
                   /\ o.x = output_x => \A h \in here : o.obj < h

(* and the slots taken by the merge step are still the right ones at the push. *)
Merging ==
  /\ (obj_state /\ step # "push") => \A h \in here : current_obj <= h
  /\ (obj_state /\ step = "push") =>
       /\ obj_fifo_merge = Overwritten
       /\ current_obj \notin ahead \union here
       /\ \A h \in here : current_obj < h
       /\ \A o \in shown : o.obj # current_obj /\ (o.x = output_x => o.obj < current_obj)

TopInv == mode = "drawing" => SlotsRight /\ Passed /\ Merging

(* Objects that are left behind cover no column any more. *)
LEMMA LeftBehind ==
  ASSUME NEW S, S \subseteq Shown, NEW x \in Nat, NEW i \in Nat \ {0}
  PROVE  Covering({o \in S : x < o.x + Tile}, x, i) = Covering(S, x, i)
<1>1. ASSUME NEW o \in S, x - o.x + i \in o.bits PROVE x < o.x + Tile
  <2>1. o.x \in Nat /\ x - o.x + i \in 1..8 /\ Tile = 8
    BY <1>1 DEF Shown, Tile
  <2> QED BY <2>1
<1> QED BY <1>1 DEF Covering

(* The next column is that of the next slot. *)
LEMMA NextSlot ==
  ASSUME NEW S, S \subseteq Shown, NEW x \in Nat, NEW i \in Nat \ {0}
  PROVE  Covering(S, x + 1, i) = Covering(S, x, i + 1)
<1>1. ASSUME NEW o \in S PROVE (x + 1) - o.x + i = x - o.x + (i + 1)
  <2>1. o.x \in Nat
    BY DEF Shown
  <2> QED BY <2>1
<1> QED BY <1>1 DEF Covering

LEMMA PopRight ==
  ASSUME NEW fifo \in Seq(ObjPixels), NEW i \in Nat \ {0}, NEW C, Right(fifo, i + 1, C)
  PROVE  Right(Popped(fifo), i, C)
<1>1. Len(fifo) \in Nat /\ i + 1 \in Nat
  OBVIOUS
<1>2. CASE fifo = <<>>
  <2>1. Len(fifo) = 0 /\ Popped(fifo) = fifo
    BY <1>2 DEF Popped
  <2>2. ~(i + 1 <= Len(fifo)) /\ ~(i <= Len(fifo))
    BY <1>1, <2>1
  <2> QED BY <2>1, <2>2 DEF Right
<1>3. CASE fifo # <<>>
  <2>1. /\ Len(Popped(fifo)) = Len(fifo) - 1
        /\ \A k \in 1..Len(Popped(fifo)) : Popped(fifo)[k] = fifo[k + 1]
    BY <1>3, PoppedIs
  <2>2. i <= Len(Popped(fifo)) <=> i + 1 <= Len(fifo)
    BY <1>1, <2>1
  <2>3. i <= Len(Popped(fifo)) => Popped(fifo)[i] = fifo[i + 1]
    BY <1>1, <2>1
  <2> QED BY <2>2, <2>3 DEF Right
<1> QED BY <1>2, <1>3

(* An empty FIFO is right where there is no object. *)
LEMMA EmptyRight ==
  ASSUME NEW x, NEW i \in Nat \ {0}
  PROVE  Right(<<>>, i, Covering({}, x, i))
<1>1. Covering({}, x, i) = {}
  BY DEF Covering
<1>2. Len(<<>>) = 0 /\ ~(i <= 0)
  OBVIOUS
<1> QED BY <1>1, <1>2 DEF Right

(* An object's row goes where it is on top. *)
Fresh == [obj |-> current_obj, x |-> output_x, bits |-> obj_bits]

LEMMA MergeRight ==
  ASSUME Shapes, DrawInv, TopInv, mode = "drawing", obj_state, step = "push", NEW i \in Nat \ {0}
  PROVE  Right(Merged, i, Covering(shown \union {Fresh}, output_x, i))
<1> DEFINE C == Covering(shown, output_x, i)
           D == Covering(shown \union {Fresh}, output_x, i)
<1>1. /\ shown \subseteq Shown /\ obj_fifo_merge = Overwritten
      /\ \A o \in shown : /\ o.x <= output_x
                          /\ o.obj # current_obj /\ (o.x = output_x => o.obj < current_obj)
      /\ ~obj_fifo_flush => Right(obj_fifo, i, C)
  BY DEF TopInv, SlotsRight, Passed, Merging
<1>2. /\ output_x \in Nat /\ current_obj \in Nat /\ obj_bits \subseteq 1..Tile
      /\ OBJ_PRI_MODE \in {0, 1}
      /\ obj_fifo \in Seq(ObjPixels) /\ Len(obj_fifo) \in Nat /\ Len(obj_fifo) <= Tile /\ Tile = 8
  <2>1. obj_fifo \in Seq(ObjPixels) /\ Len(obj_fifo) <= Tile
    BY DEF Shapes, FifoShape
  <2>2. Len(obj_fifo) \in Nat
    BY <2>1
  <2>3. output_x \in Nat /\ current_obj \in Nat /\ obj_bits \subseteq 1..Tile /\ OBJ_PRI_MODE \in {0, 1}
    BY PpuAssumption DEF Shapes, OutputShape, ObjectShape, RegisterShape, Objs
  <2> QED BY <2>1, <2>2, <2>3 DEF Tile
<1>3. Right(obj_fifo, i, C)
  <2>1. ~obj_fifo_flush
    BY DEF DrawInv, Shapes, FifoShape
  <2> QED BY <1>1, <2>1
<1>4. /\ Merged = [k \in 1..Tile |-> IF k \in obj_fifo_merge
                                       THEN [obj |-> current_obj, opaque |-> k \in obj_bits]
                                       ELSE obj_fifo[k]]
      /\ Len(Merged) = 8
  BY MergedIs DEF Merged, Tile
<1>5. D = C \union (IF i \in obj_bits THEN {Fresh} ELSE {})
  <2>1. output_x - Fresh.x + i = i /\ Fresh.bits = obj_bits
    BY <1>2 DEF Fresh
  <2> QED BY <2>1 DEF Covering
<1>6. C \subseteq shown
  BY DEF Covering
<1>7. \A o \in shown : o.x \in Nat /\ o.obj \in Nat /\ o.x <= output_x
                       /\ o.obj # current_obj /\ (o.x = output_x => o.obj < current_obj)
  BY <1>1, PpuAssumption DEF Shown, Objs
<1>8. Fresh.obj = current_obj /\ Fresh.x = output_x
  BY DEF Fresh
<1> HIDE DEF C, D
<1>9. CASE i > 8
  <2>1. C = {} /\ i \notin obj_bits
    BY <1>2, <1>3, <1>9 DEF Right
  <2>2. D = {}
    BY <1>5, <2>1
  <2>3. Len(Merged) = 8
    BY <1>4
  <2>4. ~(i <= Len(Merged))
    <3>1. i \in Nat /\ i > 8
      BY <1>9
    <3> QED BY <2>3, <3>1
  <2> QED BY <2>2, <2>4 DEF Right, D
<1>10. CASE i <= 8
  <2>1. i \in 1..Tile
    BY <1>2, <1>10
  <2>2. i <= Len(Merged)
    BY <1>4, <1>10
  <2>3. i \in obj_fifo_merge => Merged[i].obj = current_obj /\ (Merged[i].opaque <=> i \in obj_bits)
    BY <1>4, <2>1
  <2>4. i \notin obj_fifo_merge => Merged[i] = obj_fifo[i]
    BY <1>4, <2>1
  <2>5. i \in obj_fifo_merge <=>
          \/ i > Len(obj_fifo)
          \/ IF OBJ_PRI_MODE = 0
               THEN IF obj_fifo[i].opaque /\ i \in obj_bits
                      THEN current_obj < obj_fifo[i].obj
                      ELSE ~obj_fifo[i].opaque
               ELSE ~obj_fifo[i].opaque /\ i \in obj_bits
    BY <1>1, <2>1 DEF Overwritten
  <2>6. CASE C = {} /\ i \notin obj_bits
    <3>1. D = {}
      BY <1>5, <2>6
    <3>2. i <= Len(obj_fifo) => ~obj_fifo[i].opaque
      BY <1>3, <2>6 DEF Right
    <3>3. ~Merged[i].opaque
      BY <1>2, <2>3, <2>4, <2>5, <2>6, <3>2
    <3> QED BY <3>1, <3>3 DEF Right, D
  <2>7. CASE C = {} /\ i \in obj_bits
    <3>1. D = {Fresh}
      BY <1>5, <2>7
    <3>2. i <= Len(obj_fifo) => ~obj_fifo[i].opaque
      BY <1>3, <2>7 DEF Right
    <3>3. i \in obj_fifo_merge
      BY <1>2, <2>5, <2>7, <3>2
    <3>4. Merged[i].opaque /\ Merged[i].obj = Fresh.obj
      BY <1>8, <2>3, <2>7, <3>3
    <3> QED BY <2>2, <3>1, <3>4 DEF Right, D
  <2>8. CASE C # {}
    <3>1. i <= Len(obj_fifo) /\ obj_fifo[i].opaque
      BY <1>3, <2>8 DEF Right
    <3>2. PICK t \in C : t.obj = obj_fifo[i].obj /\ \A p \in C \ {t} : Above(t, p)
      BY <1>3, <2>8, Zenon DEF Right
    <3>3. CASE i \notin obj_bits
      <4>1. D = C
        BY <1>5, <3>3
      <4>2. i \notin obj_fifo_merge
        BY <1>2, <2>5, <3>1, <3>3
      <4> QED BY <2>2, <2>4, <2>8, <3>1, <3>2, <4>1, <4>2, Zenon DEF Right, D
    <3>4. CASE i \in obj_bits
      <4>1. D = C \union {Fresh} /\ D # {}
        BY <1>5, <3>4
      <4>2. t \in shown
        BY <1>6, <3>2
      <4>3. CASE i \in obj_fifo_merge
        <5>1. OBJ_PRI_MODE = 0 /\ current_obj < t.obj
          BY <1>2, <2>5, <3>1, <3>2, <3>4, <4>3
        <5>2. ASSUME NEW p \in D \ {Fresh} PROVE Above(Fresh, p)
          <6>1. p \in C /\ p \in shown
            BY <1>6, <4>1
          <6>2. p = t \/ t.obj < p.obj
            BY <3>2, <5>1, <6>1 DEF Above
          <6>3. current_obj < p.obj
            BY <1>2, <1>7, <4>2, <5>1, <6>1, <6>2
          <6> QED BY <1>8, <5>1, <6>3 DEF Above
        <5>3. Merged[i].opaque /\ Merged[i].obj = Fresh.obj
          BY <1>8, <2>3, <3>4, <4>3
        <5> QED BY <2>2, <4>1, <5>2, <5>3, Zenon DEF Right, D
      <4>4. CASE i \notin obj_fifo_merge
        <5>1. Above(t, Fresh)
          <6>1. CASE OBJ_PRI_MODE = 0
            <7>1. ~(current_obj < t.obj)
              BY <1>2, <2>5, <3>1, <3>2, <3>4, <4>4, <6>1
            <7>2. t.obj < current_obj
              BY <1>2, <1>7, <4>2, <7>1
            <7> QED BY <1>8, <6>1, <7>2 DEF Above
          <6>2. CASE OBJ_PRI_MODE # 0
            <7>1. t.x < output_x \/ (t.x = output_x /\ t.obj < current_obj)
              BY <1>2, <1>7, <4>2
            <7> QED BY <1>8, <6>2, <7>1 DEF Above
          <6> QED BY <6>1, <6>2
        <5>2. \A p \in D \ {t} : Above(t, p)
          BY <3>2, <4>1, <5>1
        <5>3. Merged[i] = obj_fifo[i] /\ t \in D
          BY <2>4, <3>2, <4>1, <4>4
        <5> QED BY <2>2, <3>1, <3>2, <4>1, <5>2, <5>3, Zenon DEF Right, D
      <4> QED BY <4>3, <4>4
    <3> QED BY <3>3, <3>4
  <2> QED BY <2>6, <2>7, <2>8
<1> QED BY <1>2, <1>9, <1>10

(* What the object FIFO does with a dot of drawing. *)
LEMMA ObjFifoMoves ==
  ASSUME Shapes, FifosGoOn
  PROVE  /\ obj_fifo_flush => obj_fifo' = <<>>
         /\ ~obj_fifo_flush /\ obj_fifo_push => obj_fifo' = Merged
         /\ ~obj_fifo_flush /\ ~obj_fifo_push /\ obj_fifo_read => obj_fifo' = Popped(obj_fifo)
         /\ ~obj_fifo_flush /\ ~obj_fifo_push /\ ~obj_fifo_read => obj_fifo' = obj_fifo
         /\ ~obj_fifo_flush'
<1>1. Fifos(FALSE)
  BY DEF FifosGoOn
<1>2. obj_fifo_flush' <=> FALSE
  BY <1>1, FifoMoves
<1> QED BY <1>1, <1>2, FifoMoves

(* A row that is pushed is of an object shown from then on. *)
LEMMA ShownMoves ==
  ASSUME Output
  PROVE  /\ obj_fifo_push => shown' = {o \in shown \union {Fresh} : output_x' < o.x + Tile}
         /\ ~obj_fifo_push => shown' = {o \in shown : output_x' < o.x + Tile}
BY DEF Output, Fresh

LEMMA FreshShown ==
  ASSUME Shapes
  PROVE  Fresh \in Shown
<1>1. current_obj \in Objs /\ output_x \in Nat /\ obj_bits \in SUBSET (1..Tile)
  BY PpuAssumption DEF Shapes, ObjectShape, OutputShape
<1> QED BY <1>1 DEF Fresh, Shown

(* The slots stay right in a dot of drawing. *)
LEMMA SlotsKept ==
  ASSUME Shapes, DrawInv, TopInv, mode = "drawing", FifosGoOn, Output
  PROVE  /\ shown' \subseteq Shown /\ ~obj_fifo_flush'
         /\ \A i \in Nat \ {0} : Right(obj_fifo', i, Covering(shown', output_x', i))
<1>1. /\ shown \subseteq Shown
      /\ obj_fifo_flush => shown = {}
      /\ ~obj_fifo_flush => \A i \in Nat \ {0} : Right(obj_fifo, i, Covering(shown, output_x, i))
  BY DEF TopInv, SlotsRight
<1>2. output_x \in Nat /\ obj_fifo \in Seq(ObjPixels)
  BY DEF Shapes, OutputShape, FifoShape
<1>3. shown' \subseteq Shown
  BY <1>1, FreshShown, ShownMoves
<1>4. obj_fifo_flush => ~obj_fifo_push
  BY DEF DrawInv, obj_fifo_push, Shapes, FifoShape
<1>5. /\ obj_fifo_push => output_x' = output_x
      /\ obj_fifo_read => output_x' = output_x + 1
      /\ ~obj_fifo_read => output_x' = output_x
  BY OutputMoves DEF obj_fifo_push, obj_fifo_read
<1>6. ASSUME NEW i \in Nat \ {0} PROVE Right(obj_fifo', i, Covering(shown', output_x', i))
  <2>1. CASE obj_fifo_flush
    <3>1. shown' = {} /\ obj_fifo' = <<>>
      BY <1>1, <1>4, <2>1, ObjFifoMoves, ShownMoves
    <3> QED BY <3>1, EmptyRight
  <2>2. CASE ~obj_fifo_flush /\ obj_fifo_push
    <3>1. shown' = {o \in shown \union {Fresh} : output_x < o.x + Tile} /\ obj_fifo' = Merged
          /\ output_x' = output_x
      BY <1>5, <2>2, ObjFifoMoves, ShownMoves
    <3>2. shown \union {Fresh} \subseteq Shown
      BY <1>1, FreshShown
    <3>3. Covering(shown', output_x, i) = Covering(shown \union {Fresh}, output_x, i)
      BY <1>2, <3>1, <3>2, LeftBehind
    <3>4. Right(Merged, i, Covering(shown \union {Fresh}, output_x, i))
      BY <2>2, MergeRight DEF obj_fifo_push
    <3> QED BY <3>1, <3>3, <3>4
  <2>3. CASE ~obj_fifo_flush /\ ~obj_fifo_push /\ obj_fifo_read
    <3>1. /\ shown' = {o \in shown : output_x + 1 < o.x + Tile} /\ obj_fifo' = Popped(obj_fifo)
          /\ output_x' = output_x + 1
      BY <1>5, <2>3, ObjFifoMoves, ShownMoves
    <3>2. output_x + 1 \in Nat /\ i + 1 \in Nat \ {0}
      BY <1>2
    <3>3. Covering(shown', output_x + 1, i) = Covering(shown, output_x + 1, i)
      BY <1>1, <3>1, <3>2, LeftBehind
    <3>4. Covering(shown, output_x + 1, i) = Covering(shown, output_x, i + 1)
      BY <1>1, <1>2, NextSlot
    <3>5. Right(obj_fifo, i + 1, Covering(shown, output_x, i + 1))
      BY <1>1, <2>3, <3>2
    <3>6. Right(Popped(obj_fifo), i, Covering(shown, output_x, i + 1))
      BY <1>2, <3>5, PopRight
    <3> QED BY <3>1, <3>3, <3>4, <3>6
  <2>4. CASE ~obj_fifo_flush /\ ~obj_fifo_push /\ ~obj_fifo_read
    <3>1. /\ shown' = {o \in shown : output_x < o.x + Tile} /\ obj_fifo' = obj_fifo
          /\ output_x' = output_x
      BY <1>5, <2>4, ObjFifoMoves, ShownMoves
    <3>2. Covering(shown', output_x, i) = Covering(shown, output_x, i)
      BY <1>1, <1>2, <3>1, LeftBehind
    <3> QED BY <1>1, <2>4, <3>1, <3>2
  <2> QED BY <2>1, <2>2, <2>3, <2>4
<1> QED BY <1>3, <1>6, ObjFifoMoves

(* An object that was fetched is not fetched again. *)
LEMMA PassedKept ==
  ASSUME Shapes, DrawInv, TopInv, mode = "drawing", Output
  PROVE  Passed'
<1>1. /\ \A o \in shown : /\ o.x <= output_x /\ o.obj \notin ahead \union here
                          /\ o.x = output_x => \A h \in here : o.obj < h
      /\ (obj_state /\ step = "push") =>
           /\ current_obj \notin ahead \union here
           /\ \A h \in here : current_obj < h
      /\ shown \subseteq Shown
  BY DEF TopInv, SlotsRight, Passed, Merging
<1>2. /\ output_x \in Nat /\ output_x' \in {output_x, output_x + 1}
      /\ output_x' = output_x => here' = StillHere /\ ahead' = ahead
      /\ output_x' # output_x => ~obj_state /\ here' \subseteq ahead
      /\ ahead' = ahead \ here'
  BY OutputMoves, ObjectsMove DEF Shapes, OutputShape
<1>3. StillHere \subseteq here
  BY StillHereIs
<1>4. ASSUME NEW o \in shown'
      PROVE  /\ o.x \in Nat /\ o.x <= output_x /\ o.obj \notin ahead \union here
             /\ o.x = output_x => \A h \in here : o.obj < h
  <2>1. CASE o \in shown
    <3>1. o.x \in Nat
      BY <1>1, <2>1 DEF Shown
    <3> QED BY <1>1, <2>1, <3>1
  <2>2. CASE o \notin shown
    <3>1. obj_fifo_push /\ o = Fresh
      BY <2>2, ShownMoves
    <3>2. o.x = output_x /\ o.obj = current_obj
      BY <3>1 DEF Fresh
    <3> QED BY <1>1, <1>2, <3>1, <3>2 DEF obj_fifo_push
  <2> QED BY <2>1, <2>2
<1>5. ASSUME NEW o \in shown'
      PROVE  /\ o.x <= output_x' /\ o.obj \notin ahead' \union here'
             /\ o.x = output_x' => \A h \in here' : o.obj < h
  <2>1. CASE output_x' = output_x
    BY <1>2, <1>3, <1>4, <2>1
  <2>2. CASE output_x' = output_x + 1
    <3>1. output_x' # output_x
      BY <1>2, <2>2
    <3>2. o.x <= output_x + 1 /\ o.x # output_x + 1
      BY <1>2, <1>4
    <3>3. o.obj \notin ahead' \union here'
      BY <1>2, <1>4, <3>1
    <3> QED BY <2>2, <3>2, <3>3
  <2> QED BY <1>2, <2>1, <2>2
<1> QED BY <1>5 DEF Passed

(* The first object due is fetched; what the merge step chose is what the push
   takes, because neither FIFO nor object changes in between. *)
LEMMA MergingKept ==
  ASSUME Shapes, DrawInv, TopInv, mode = "drawing", Fetch, FifosGoOn, Output,
         OBJ_PRI_MODE' = OBJ_PRI_MODE
  PROVE  Merging'
<1>1. /\ here \subseteq Objs /\ ahead \intersect here = {}
      /\ obj_state => ahead' = ahead /\ here' = StillHere /\ output_x' = output_x
  BY OutputMoves, ObjectsMove DEF Shapes, ObjectShape
<1>2. current_obj' = IF (goes_to_obj /\ OBJ_EN) \/ (obj_fifo_push /\ obj_trigger)
                       THEN Min(here) ELSE current_obj
  BY DEF Fetch
<1>3. CASE ~obj_state
  <2>1. obj_state' => goes_to_obj /\ OBJ_EN /\ step' = "data"
    BY <1>3, FetchingMoves DEF goes_to_obj
  <2>2. ASSUME obj_state' PROVE \A h \in here' : current_obj' <= h
    <3>1. current_obj' = Min(here) /\ here # {}
      BY <1>2, <2>1, <2>2 DEF goes_to_obj, obj_trigger
    <3>2. here' = here
      BY <1>3, <2>1, <2>2, OutputMoves, StillHereIs DEF goes_to_obj
    <3> QED BY <1>1, <3>1, <3>2, FirstObject
  <2> QED BY <2>1, <2>2 DEF Merging
<1>4. CASE obj_state /\ step = "push"
  <2>1. here' = here
    BY <1>1, <1>4, StillHereIs DEF goes_to_obj
  <2>2. obj_state' => obj_trigger /\ step' = "wait"
    BY <1>4, FetchingMoves
  <2>3. ASSUME obj_state' PROVE \A h \in here' : current_obj' <= h
    <3>1. current_obj' = Min(here) /\ here # {}
      BY <1>2, <1>4, <2>2, <2>3 DEF obj_fifo_push, obj_trigger
    <3> QED BY <1>1, <2>1, <3>1, FirstObject
  <2> QED BY <2>2, <2>3 DEF Merging
<1>5. CASE obj_state /\ step # "push"
  <2>1. /\ obj_state' /\ (step' = "push" <=> step = "merge")
        /\ current_obj' = current_obj
    BY <1>2, <1>5, FetchingMoves DEF goes_to_obj, obj_fifo_push
  <2>2. current_obj \in here /\ \A h \in here : current_obj <= h
    BY <1>5 DEF DrawInv, TopInv, Merging
  <2>3. CASE step # "merge"
    <3>1. here' = here
      BY <1>1, <1>5, <2>3, StillHereIs DEF goes_to_obj
    <3> QED BY <2>1, <2>2, <2>3, <3>1 DEF Merging
  <2>4. CASE step = "merge"
    <3>1. here' = here \ {current_obj}
      BY <1>1, <1>5, <2>4, StillHereIs
    <3>2. obj_bits' = obj_bits /\ obj_fifo_merge' = Overwritten
      BY <1>5, <2>4 DEF Fetch
    <3>3. obj_fifo' = obj_fifo
      <4>1. ~obj_fifo_flush /\ ~obj_fifo_push /\ ~obj_fifo_read
        BY <1>5 DEF DrawInv, Shapes, FifoShape, obj_fifo_push, obj_fifo_read, leads, sends, Advances
      <4> QED BY <4>1, ObjFifoMoves
    <3>4. Overwritten' = Overwritten
      BY <2>1, <3>2, <3>3 DEF Overwritten
    <3>5. current_obj' \notin ahead' \union here'
      BY <1>1, <1>5, <2>1, <2>2, <3>1
    <3>6. \A h \in here' : current_obj' < h
      <4>1. ASSUME NEW h \in here' PROVE current_obj < h
        <5>1. h \in here /\ h # current_obj
          BY <3>1
        <5>2. h \in Nat /\ current_obj \in Nat
          BY <1>1, <2>2, <5>1, PpuAssumption DEF Objs
        <5>3. current_obj <= h
          BY <2>2, <5>1
        <5> QED BY <5>1, <5>2, <5>3
      <4> QED BY <2>1, <4>1
    <3>7. \A o \in shown' : o.obj # current_obj' /\ (o.x = output_x' => o.obj < current_obj')
      <4>1. shown' \subseteq shown
        BY <1>5, ShownMoves DEF obj_fifo_push
      <4>2. \A o \in shown : o.obj \notin here /\ (o.x = output_x => \A h \in here : o.obj < h)
        BY DEF TopInv, Passed
      <4> QED BY <1>1, <1>5, <2>1, <2>2, <4>1, <4>2
    <3> QED BY <2>1, <2>4, <3>2, <3>4, <3>5, <3>6, <3>7 DEF Merging
  <2> QED BY <2>3, <2>4
<1> QED BY <1>3, <1>4, <1>5

LEMMA DrawDotTops ==
  ASSUME LineIInv, TopInv, DrawDot
  PROVE  TopInv'
<1>1. /\ Shapes /\ DrawInv /\ mode = "drawing" /\ Fetch /\ FifosGoOn /\ Output
      /\ OBJ_PRI_MODE' = OBJ_PRI_MODE
  BY DEF LineIInv, DrawDot, FifosGoOn, registers
<1>2. SlotsRight'
  <2>1. /\ shown' \subseteq Shown /\ ~obj_fifo_flush'
        /\ \A i \in Nat \ {0} : Right(obj_fifo', i, Covering(shown', output_x', i))
    BY <1>1, SlotsKept
  <2>2. \A i \in Nat \ {0} : Right(obj_fifo, i, Covering(shown, output_x, i))'
    BY <1>1, <2>1 DEF Right, Covering, Above
  <2> QED BY <2>1, <2>2 DEF SlotsRight, Shown
<1>3. Passed' /\ Merging'
  BY <1>1, PassedKept, MergingKept
<1> QED BY <1>2, <1>3 DEF TopInv

(* A line starts with no object shown and none fetched. *)
LEMMA StartTops ==
  ASSUME Shapes, StartDrawing
  PROVE  TopInv'
<1>1. shown' = {} /\ fetcher_state' = <<"bgr", "map">>
  BY DEF StartDrawing
<1>2. obj_fifo_flush'
  <2>1. Fifos(TRUE)
    BY DEF StartDrawing
  <2>2. obj_fifo_flush' <=> TRUE
    BY <2>1, FifoMoves
  <2> QED BY <2>2
<1>3. ~obj_state'
  BY <1>1 DEF obj_state, layer
<1> QED BY <1>1, <1>2, <1>3 DEF TopInv, SlotsRight, Passed, Merging

(* Where nothing of the drawing changes, nothing is lost. *)
LEMMA StillTops ==
  ASSUME TopInv, UNCHANGED <<registers, mode, fetcher, fifos, output, objects>>
  PROVE  TopInv'
<1>1. /\ OBJ_PRI_MODE' = OBJ_PRI_MODE /\ mode' = mode
      /\ fetcher_state' = fetcher_state /\ current_obj' = current_obj /\ obj_bits' = obj_bits
      /\ obj_fifo_merge' = obj_fifo_merge
      /\ obj_fifo' = obj_fifo /\ obj_fifo_flush' = obj_fifo_flush
      /\ output_x' = output_x /\ ahead' = ahead /\ here' = here /\ shown' = shown
  BY DEF registers, fetcher, fifos, output, objects
<1>2. SlotsRight => SlotsRight'
  BY <1>1 DEF SlotsRight, Shown, Right, Covering, Above
<1>3. Passed => Passed'
  BY <1>1 DEF Passed
<1>4. Merging => Merging'
  BY <1>1 DEF Merging, Overwritten, obj_state, layer, step
<1> QED BY <1>1, <1>2, <1>3, <1>4 DEF TopInv

LEMMA ObjectsOnTop == Spec => [](LineIInv /\ TopInv)
<1>1. Init => TopInv
  BY DEF Init, TopInv
<1>2. LineIInv /\ TopInv /\ [Next]_vars => TopInv'
  <2> SUFFICES ASSUME LineIInv, TopInv, [Next]_vars PROVE TopInv'
    OBVIOUS
  <2>1. CASE DrawDot
    BY <2>1, DrawDotTops
  <2>2. CASE StartDrawing
    BY <2>2, StartTops DEF LineIInv
  <2>3. CASE ScanDot
    BY <2>3 DEF ScanDot, TopInv
  <2>4. CASE HBlankDot
    <3>1. mode' # "drawing"
      BY <2>4 DEF HBlankDot
    <3> QED BY <3>1 DEF TopInv
  <2>5. CASE VBlankDot
    <3>1. mode' # "drawing"
      BY <2>5 DEF VBlankDot
    <3> QED BY <3>1 DEF TopInv
  <2>6. CASE WriteRegisters
    BY <2>6 DEF WriteRegisters, TopInv
  <2>7. CASE SwitchLCD
    BY <2>7, StillTops DEF SwitchLCD
  <2>8. CASE UNCHANGED vars
    BY <2>8, StillTops DEF vars
  <2> QED BY <2>1, <2>2, <2>3, <2>4, <2>5, <2>6, <2>7, <2>8 DEF Next, Dot
<1> QED BY <1>1, <1>2, LinesAreDrawn, PTL DEF Spec

(* The object pixel that goes out with a column is that of the object on top of
   those that cover it, for any number of objects and whatever rows they bring
   (PPU.v:1024, 317). *)
THEOREM TopObjectIsSent == Spec => []TopObject
<1>1. LineIInv /\ TopInv => TopObject
  <2> SUFFICES ASSUME LineIInv, TopInv, sends PROVE TopObject
    BY DEF TopObject
  <2>1. mode = "drawing" /\ ~obj_fifo_flush
    BY DEF sends, Advances, LineIInv, Shapes, FifoShape
  <2>2. 1 \in Nat \ {0}
    OBVIOUS
  <2>3. Right(obj_fifo, 1, Covering(shown, output_x, 1))
    BY <2>1, <2>2 DEF TopInv, SlotsRight
  <2>4. Opaque = Covering(shown, output_x, 1)
    BY DEF Opaque, Covering
  <2>5. /\ obj_fifo \in Seq(ObjPixels) /\ (1 <= Len(obj_fifo) <=> obj_fifo # <<>>)
        /\ Head(obj_fifo) = obj_fifo[1]
    BY EmptySeq, LenProperties DEF LineIInv, Shapes, FifoShape
  <2> QED BY <2>3, <2>4, <2>5, Zenon DEF TopObject, Right
<1> QED BY <1>1, ObjectsOnTop, PTL

(***************************************************************************)
(* The picture is right.  The invariant has three parts: the strip of      *)
(* pixels that runs through the fetcher and the FIFO (StripInv), the row   *)
(* of the window (RowInv), and what is between the output and the host's   *)
(* frame buffer (CursorInv).                                               *)
(***************************************************************************)

(* What programs do: a window that is on begins neither in the few columns that
   are behind the screen's right edge, nor where a line drops the pixels scrolled
   out; the LCD is switched off, and the processor stopped, between lines. *)
Fits(s) == s.WIN_EN => /\ s.WX \notin Columns..(Columns + 3)
                       /\ s.WX = Lead => s.SCX % 8 = 0
CarefulWithLCD == /\ Width # 0 /\ "drawing" \notin OffModes \union StopModes
                  /\ \A s \in Settings : Fits(s)

RegistersFit == WIN_EN => /\ WX_reg \notin Columns..(Columns + 3)
                          /\ WX_reg = Lead => SCX_reg % 8 = 0

(* The columns sent; the pixels the FIFO has given since the layer began, and
   those the fetcher has brought. *)
SentAt(x) == IF x < Lead THEN 0 ELSE x - Lead
TakenAt(base, x, scx, d, left) ==
  IF base = "bgr" THEN SentAt(x) + ((scx % 8) - d) ELSE SentAt(x) - left
Taken   == TakenAt(Base, output_x, SCX_reg, discard_x, WindowLeft)
Brought == IF Base = "bgr" THEN fetch_counter * Tile ELSE win_x

(* The pixel that is k places behind the first of its layer. *)
BgrColumn(scx, k) == (((((k - (k % Tile)) + scx) % 256) \div Tile) * Tile) + (k % Tile)
PlaceOf(base, row, scx, k) ==
  IF base = "bgr" THEN Pixel("bgr", row, BgrColumn(scx, k)) ELSE Pixel("win", row, k)
Row == IF Base = "bgr" THEN LY_reg ELSE win_y

Strip(fifo, n, base, row, scx) ==
  \A i \in 1..Len(fifo) : fifo[i] = PlaceOf(base, row, scx, n + (i - 1))

NextTile == PlaceOf(Base, Row, SCX_reg, Brought)

StripInv ==
  /\ bgr_fifo_flush => Taken = 0 /\ Brought = 0
  /\ ~bgr_fifo_flush => /\ Brought = Taken + Len(bgr_fifo)
                        /\ Strip(bgr_fifo, Taken, Base, Row, SCX_reg)
  /\ Due = 4 => tile_addr = NextTile
  /\ Due \in 1..3 => tile_idx = NextTile
  /\ Due = 0 => data = NextTile
  /\ Base = "bgr" => /\ discard_x <= SCX_reg % 8
                     /\ output_x < Lead => discard_x = SCX_reg % 8
                     /\ output_x > Lead => discard_x = 0

(* The window shows one row more on each line that it is on. *)
RowsFollow == /\ win_y_cond <=> win_lines > 0
              /\ win_y_cond => win_y + 1 = win_lines

RowInv ==
  /\ win_lines \in Nat
  /\ mode \in {"hblank", "oamScan"} => RowsFollow
  /\ mode = "drawing" =>
       /\ Base = "bgr" => RowsFollow /\ (ShowsWindow => output_x <= WX_reg)
       /\ Base = "win" => ShowsWindow /\ win_y_cond /\ win_y = win_lines
                          /\ WindowLeft <= SentAt(output_x)

(* A pixel that takes its place in the pipe. *)
One(p) == IF p = None THEN 0 ELSE 1
Entered == IF output_x > Columns THEN Width ELSE SentAt(output_x)

CursorInv ==
  /\ cur_x \in Nat /\ cur_y \in Nat /\ first \in BOOLEAN
  /\ mode # "drawing" => \A i \in 1..4 : pipe[i] = None
  /\ mode = "drawing" =>
       /\ LCD_EN /\ cur_y = LY_reg /\ hsync = 1 /\ vsync = 1
       /\ cur_x + (One(pipe[3]) + (One(pipe[2]) + One(pipe[1]))) = Entered
       /\ pipe[3] # None => pipe[3] = Picture[cur_x]
       /\ pipe[2] # None => pipe[2] = Picture[cur_x + One(pipe[3])]
       /\ pipe[1] # None => pipe[1] = Picture[cur_x + (One(pipe[3]) + One(pipe[2]))]
  /\ mode = "oamScan" => cur_y = LY_reg /\ cur_x = 0
  /\ mode = "vblank" => cur_x = 0 /\ cur_y = IF vsync = 1 THEN Lines ELSE 0
  /\ mode = "hblank" =>
       /\ vsync = 1
       /\ hsync = 0 => cur_y = LY_reg + 1 /\ cur_x = 0
       /\ hsync = 1 => cur_y = LY_reg /\ (cur_x = Width \/ (cur_x = 0 /\ first /\ LY_reg = 0))

(* A place in the map is eight tiles' rows wide and 256 pixels round. *)
LEMMA RoundTheMap ==
  ASSUME NEW m \in Nat, NEW r \in 0..7
  PROVE  ((8 * m) + r) % 256 = (8 * (m % 32)) + r
BY SMT

LEMMA InTile ==
  ASSUME NEW n \in Nat, n % Tile = 0, NEW i \in 1..Tile, NEW scx \in Nat
  PROVE  BgrColumn(scx, n + (i - 1)) = BgrColumn(scx, n) + (i - 1)
<1>1. n \in Nat /\ n % 8 = 0 /\ i \in 1..8 /\ Tile = 8
  BY DEF Tile
<1>2. (n + (i - 1)) % 8 = i - 1 /\ n % 8 = 0
  BY <1>1, SMT
<1>3. (n + (i - 1)) - (i - 1) = n /\ n - 0 = n
  BY <1>1
<1> DEFINE c == (((n + scx) % 256) \div 8) * 8
<1>4. BgrColumn(scx, n + (i - 1)) = c + (i - 1) /\ BgrColumn(scx, n) = c + 0
  BY <1>1, <1>2, <1>3 DEF BgrColumn
<1>5. c \in Int
  BY SMT
<1> HIDE DEF c
<1> QED BY <1>4, <1>5

(* Column c of the screen is pixel c + scx % 8 of the strip. *)
LEMMA ScrolledColumn ==
  ASSUME NEW c \in Nat, NEW scx \in Nat
  PROVE  BgrColumn(scx, c + (scx % 8)) = (c + scx) % 256
<1> DEFINE k == c + (scx % 8)
           q == k \div 8
           r == k % 8
           t == scx \div 8
           u == scx % 8
<1>1. q \in Nat /\ r \in 0..7 /\ t \in Nat /\ u \in 0..7 /\ k = (8 * q) + r /\ scx = (8 * t) + u
  BY SMT
<1>2. c + scx = (8 * (q + t)) + r /\ (k - r) + scx = (8 * (q + t)) + u /\ q + t \in Nat
  BY <1>1, SMT
<1>3. (c + scx) % 256 = (8 * ((q + t) % 32)) + r
  BY <1>1, <1>2, RoundTheMap
<1>4. ((k - r) + scx) % 256 = (8 * ((q + t) % 32)) + u
  BY <1>1, <1>2, RoundTheMap
<1>5. (q + t) % 32 \in Nat
  BY <1>2, SMT
<1>6. (((k - r) + scx) % 256) \div 8 = (q + t) % 32
  <2> DEFINE w == (q + t) % 32
  <2>1. w \in Nat /\ u \in 0..7
    BY <1>1, <1>5
  <2> HIDE DEF w, u
  <2>2. ((8 * w) + u) \div 8 = w
    BY <2>1, SMT
  <2> QED BY <1>4, <2>2 DEF w
<1>7. BgrColumn(scx, k) = ((((k - r) + scx) % 256) \div 8) * 8 + r
  BY DEF BgrColumn, Tile
<1>8. ((q + t) % 32) * 8 = 8 * ((q + t) % 32)
  BY <1>5
<1> HIDE DEF q, r, t, u
<1>9. BgrColumn(scx, k) = (8 * ((q + t) % 32)) + r
  BY <1>6, <1>7, <1>8
<1> QED BY <1>3, <1>9

(* The dots a fetch has to go, by its step. *)
LEMMA DueIs ==
  ASSUME Shapes
  PROVE  /\ Base \in Layers /\ Due \in 0..5
         /\ obj_state => Due \in {0, 5}
         /\ ~obj_state => /\ layer = Base /\ Due = Away(step)
                          /\ step \in {"map", "read", "data", "low", "high", "push"}
<1>1. FetcherShape
  BY DEF Shapes
<1>2. Base \in Layers /\ Due \in 0..5
  BY <1>1 DEF FetcherShape, Base, Due, Fetching, Away, Layers, obj_state
<1>3. ASSUME obj_state PROVE Due \in {0, 5}
  BY <1>1, <1>3 DEF FetcherShape, Due, Fetching, Away
<1>4. ASSUME ~obj_state
      PROVE  /\ layer = Base /\ Due = Away(step)
             /\ step \in {"map", "read", "data", "low", "high", "push"}
  <2>1. /\ layer \in Layers /\ step \in {"map", "read", "data", "low", "high", "push"}
        /\ fetcher_state = <<layer, step>>
    BY <1>1, <1>4 DEF FetcherShape, obj_state
  <2> QED BY <1>4, <2>1 DEF Base, Due, Fetching
<1> QED BY <1>2, <1>3, <1>4

(* What the registers of the fetcher do in a dot that the window does not take. *)
LEMMA TilesMove ==
  ASSUME Shapes, Fetch, ~TakeOver
  PROVE  /\ ~obj_state /\ step = "map" /\ Base = "bgr" =>
              tile_addr' = Pixel("bgr", LY_reg, (((fetch_counter * Tile + SCX_reg) % 256) \div Tile) * Tile)
         /\ ~obj_state /\ step = "map" /\ Base = "win" => tile_addr' = Pixel("win", win_y, win_x)
         /\ tile_idx' = IF ~obj_state /\ step = "read" THEN tile_addr ELSE tile_idx
         /\ data' = IF ~obj_state /\ step = "high" THEN tile_idx ELSE data
         /\ win_y' = win_y
         /\ win_y_cond' = win_y_cond
         /\ fetch_counter' = IF bgr_fifo_push /\ Base = "bgr" THEN fetch_counter + 1 ELSE fetch_counter
         /\ win_x' = IF bgr_fifo_push /\ Base = "win" THEN win_x + Tile ELSE win_x
<1>1. ~obj_state => layer = Base
  BY DueIs
<1>2. bgr_fifo_push => ~obj_state
  BY DEF bgr_fifo_push
<1>3. /\ step = "map" /\ layer = "bgr" =>
           tile_addr' = Pixel("bgr", LY_reg, (((fetch_counter * Tile + SCX_reg) % 256) \div Tile) * Tile)
      /\ step = "map" /\ layer = "win" => tile_addr' = Pixel("win", win_y, win_x)
  <2>1. ASSUME step = "map", layer = "bgr"
        PROVE  tile_addr' = Pixel("bgr", LY_reg, (((fetch_counter * Tile + SCX_reg) % 256) \div Tile) * Tile)
    <3> HIDE DEF Pixel, layer, step
    <3> QED BY <2>1, Zenon DEF Fetch
  <2>2. ASSUME step = "map", layer = "win" PROVE tile_addr' = Pixel("win", win_y, win_x)
    <3>1. layer # "bgr"
      BY <2>2
    <3> QED BY <2>2, <3>1, Zenon DEF Fetch
  <2> QED BY <2>1, <2>2
<1>4. /\ tile_idx' = IF ~obj_state /\ step = "read" THEN tile_addr ELSE tile_idx
      /\ data' = IF ~obj_state /\ step = "high" THEN tile_idx ELSE data
      /\ fetch_counter' = IF bgr_fifo_push /\ layer = "bgr" THEN fetch_counter + 1 ELSE fetch_counter
  BY DEF Fetch
<1>5. win_y' = win_y
  <2>1. win_y' = CASE TakeOver /\ win_y_cond -> win_y + 1
                   [] TakeOver /\ ~win_y_cond -> 0
                   [] OTHER -> win_y
    BY DEF Fetch
  <2> QED BY <2>1, Zenon
<1>6. win_x' = IF bgr_fifo_push /\ win_state THEN win_x + Tile ELSE win_x
  <2>1. win_x' = CASE TakeOver -> 0
                   [] ~TakeOver /\ bgr_fifo_push /\ win_state -> win_x + Tile
                   [] OTHER -> win_x
    BY DEF Fetch
  <2>2. CASE bgr_fifo_push /\ win_state
    BY <2>1, <2>2, Zenon
  <2>3. CASE ~(bgr_fifo_push /\ win_state)
    BY <2>1, <2>3, Zenon
  <2> QED BY <2>2, <2>3
<1>7. win_y_cond' = win_y_cond
  BY DEF Fetch, Shapes, TileShape
<1> QED BY <1>1, <1>2, <1>3, <1>4, <1>5, <1>6, <1>7 DEF win_state

LEMMA TakeOverMoves ==
  ASSUME Fetch, TakeOver, win_y_cond \in BOOLEAN
  PROVE  /\ tile_addr' = Pixel("win", win_y', 0)
         /\ win_x' = 0 /\ win_y_cond'
         /\ win_y' = IF win_y_cond THEN win_y + 1 ELSE 0
<1>1. tile_addr' = Pixel("win", IF win_y_cond THEN win_y + 1 ELSE 0, 0)
  <2>1. tile_addr' =
          CASE TakeOver -> Pixel("win", IF win_y_cond THEN win_y + 1 ELSE 0, 0)
            [] ~TakeOver /\ step = "map" /\ layer = "bgr" ->
                 Pixel("bgr", LY_reg, (((fetch_counter * Tile + SCX_reg) % 256) \div Tile) * Tile)
            [] ~TakeOver /\ step = "map" /\ layer = "win" -> Pixel("win", win_y, win_x)
            [] obj_state /\ step = "data" -> Pixel("obj", current_obj, 0)
            [] OTHER -> tile_addr
    BY DEF Fetch
  <2>2. ~(obj_state /\ step = "data")
    BY DEF TakeOver
  <2> DEFINE a == Pixel("win", IF win_y_cond THEN win_y + 1 ELSE 0, 0)
  <2> HIDE DEF a
  <2> QED BY <2>1, <2>2, Zenon DEF a
<1>2. win_x' = 0
  BY Zenon DEF Fetch
<1>3. win_y' = CASE TakeOver /\ win_y_cond -> win_y + 1
                 [] TakeOver /\ ~win_y_cond -> 0
                 [] OTHER -> win_y
  BY DEF Fetch
<1>4. win_y' = IF win_y_cond THEN win_y + 1 ELSE 0
  <2>1. CASE win_y_cond
    BY <1>3, <2>1, Zenon
  <2>2. CASE ~win_y_cond
    BY <1>3, <2>2, Zenon
  <2> QED BY <2>1, <2>2
<1>5. win_y_cond'
  BY DEF Fetch
<1> QED BY <1>1, <1>2, <1>4, <1>5


(* What the background FIFO does with a dot of drawing. *)
LEMMA BgrFifoMoves ==
  ASSUME Shapes, FifosGoOn
  PROVE  /\ bgr_fifo_flush => bgr_fifo' = <<>>
         /\ ~bgr_fifo_flush /\ bgr_fifo_push => bgr_fifo' = Fetched
         /\ ~bgr_fifo_flush /\ ~bgr_fifo_push /\ bgr_fifo_read => bgr_fifo' = Popped(bgr_fifo)
         /\ ~bgr_fifo_flush /\ ~bgr_fifo_push /\ ~bgr_fifo_read => bgr_fifo' = bgr_fifo
         /\ bgr_fifo_flush' <=> TakeOver
<1>1. Fifos(FALSE)
  BY DEF FifosGoOn
<1>2. bgr_fifo_flush' <=> (FALSE \/ TakeOver)
  BY <1>1, FifoMoves
<1> QED BY <1>1, <1>2, FifoMoves

(* When a pixel may leave, and when a tile may come. *)
LEMMA ReadOrPush ==
  ASSUME Shapes, DrawInv, mode = "drawing"
  PROVE  /\ bgr_fifo_push => Due = 0 /\ ~bgr_fifo_flush /\ ~obj_state
         /\ bgr_fifo_read => ~Dry /\ ~obj_state
         /\ bgr_fifo_read <=> (sends \/ (discards /\ Base = "bgr"))
<1>1. ~obj_state => /\ layer = Base /\ Due = Away(step)
                    /\ step \in {"map", "read", "data", "low", "high", "push"}
  BY DueIs
<1>2. Base \in Layers /\ Due \in 0..5
  BY DueIs
<1>3. ASSUME bgr_fifo_push PROVE Due = 0 /\ ~bgr_fifo_flush /\ ~obj_state
  BY <1>1, <1>3 DEF bgr_fifo_push, DrawInv, Away
<1>4. bgr_fifo_read <=> (sends \/ (discards /\ Base = "bgr"))
  <2>1. discards => ~obj_state
    BY DEF discards, Advances
  <2> QED BY <1>1, <1>2, <2>1 DEF bgr_fifo_read, win_state, Layers
<1>5. ASSUME bgr_fifo_read PROVE ~Dry /\ ~obj_state
  <2>1. CASE sends
    BY <2>1 DEF sends, Advances, Dry
  <2>2. CASE discards /\ Base = "bgr"
    <3>1. ~obj_state /\ output_x >= 8 /\ output_x \in Nat
      BY <2>2 DEF discards, Advances, Lead, Shapes, OutputShape
    <3>2. SUFFICES ASSUME Dry PROVE FALSE
      BY <3>1
    <3>3. output_x + Due <= 5
      BY <2>2, <3>2 DEF DrawInv
    <3> QED BY <1>2, <3>1, <3>3
  <2> QED BY <1>4, <1>5, <2>1, <2>2
<1> QED BY <1>3, <1>4, <1>5

(* The pixels taken. *)
LEMMA TakenOf ==
  ASSUME NEW base \in Layers, NEW x \in Nat, NEW scx \in Nat, NEW d \in Nat, NEW left \in Nat
  PROVE  /\ SentAt(x) \in Nat /\ TakenAt(base, x, scx, d, left) \in Int
         /\ base = "bgr" => TakenAt(base, x, scx, d, left) = SentAt(x) + ((scx % 8) - d)
         /\ base = "win" => TakenAt(base, x, scx, d, left) = SentAt(x) - left
<1> DEFINE s == SentAt(x)
           u == scx % 8
<1>1. s \in Nat /\ u \in Nat
  BY DEF SentAt, Lead
<1>2. TakenAt(base, x, scx, d, left) = IF base = "bgr" THEN s + (u - d) ELSE s - left
  BY DEF TakenAt
<1> HIDE DEF s, u
<1>3. TakenAt(base, x, scx, d, left) \in Int
  BY <1>1, <1>2
<1>4. /\ base = "bgr" => TakenAt(base, x, scx, d, left) = s + (u - d)
      /\ base = "win" => TakenAt(base, x, scx, d, left) = s - left
  BY <1>2
<1> QED BY <1>1, <1>3, <1>4 DEF s, u

LEMMA TakenIs ==
  ASSUME Shapes
  PROVE  /\ WindowLeft \in Nat /\ SentAt(output_x) \in Nat /\ Taken \in Int
         /\ Base = "bgr" => Taken = SentAt(output_x) + ((SCX_reg % 8) - discard_x)
         /\ Base = "win" => Taken = SentAt(output_x) - WindowLeft
<1>1. output_x \in Nat /\ discard_x \in Nat /\ SCX_reg \in Nat /\ WX_reg \in Nat /\ Base \in Layers
  BY DueIs DEF Shapes, OutputShape, RegisterShape
<1>2. WindowLeft \in Nat
  BY <1>1 DEF WindowLeft
<1> QED BY <1>1, <1>2, TakenOf DEF Taken

(* One more with each column sent, or pixel of the background dropped. *)
LEMMA NextTaken ==
  ASSUME NEW base \in Layers, NEW x \in Nat, NEW scx \in Nat, NEW d \in Nat, NEW e \in Nat,
         NEW left \in Nat
  PROVE  /\ x >= Lead => TakenAt(base, x + 1, scx, d, left) = TakenAt(base, x, scx, d, left) + 1
         /\ x < Lead => TakenAt(base, x + 1, scx, d, left) = TakenAt(base, x, scx, d, left)
         /\ base = "bgr" =>
              TakenAt(base, x, scx, d - 1, left) = TakenAt(base, x, scx, d, left) + 1
         /\ base = "win" => TakenAt(base, x, scx, e, left) = TakenAt(base, x, scx, d, left)
<1> DEFINE s == SentAt(x)
           t == SentAt(x + 1)
           u == scx % 8
<1>1. s \in Nat /\ u \in Nat /\ (x >= Lead => t = s + 1) /\ (x < Lead => t = s)
  BY DEF SentAt, Lead
<1>2. /\ TakenAt(base, x, scx, d, left) = IF base = "bgr" THEN s + (u - d) ELSE s - left
      /\ TakenAt(base, x + 1, scx, d, left) = IF base = "bgr" THEN t + (u - d) ELSE t - left
      /\ TakenAt(base, x, scx, d - 1, left) = IF base = "bgr" THEN s + (u - (d - 1)) ELSE s - left
      /\ TakenAt(base, x, scx, e, left) = IF base = "bgr" THEN s + (u - e) ELSE s - left
  BY DEF TakenAt
<1> HIDE DEF s, t, u
<1>3. base = "bgr" \/ base = "win"
  BY DEF Layers
<1> QED BY <1>1, <1>2, <1>3

(* One more pixel is taken with each that leaves the FIFO. *)
LEMMA TakenMoves ==
  ASSUME Shapes, DrawInv, mode = "drawing", Output, Fetch, ~TakeOver,
         SCX_reg' = SCX_reg, WX_reg' = WX_reg
  PROVE  /\ Base' = Base /\ Taken \in Int
         /\ bgr_fifo_read => Taken' = Taken + 1
         /\ ~bgr_fifo_read => Taken' = Taken
<1>1. Base' = Base /\ Base \in Layers
  BY FetchingMoves
<1>2. WindowLeft' = WindowLeft /\ WindowLeft \in Nat /\ Taken \in Int
  BY TakenIs DEF WindowLeft
<1>3. output_x \in Nat /\ discard_x \in Nat /\ SCX_reg \in Nat /\ discard_x' \in Nat
  BY OutputMoves DEF Shapes, OutputShape, RegisterShape
<1> DEFINE at(x, d) == TakenAt(Base, x, SCX_reg, d, WindowLeft)
<1>4. Taken = at(output_x, discard_x) /\ Taken' = at(output_x', discard_x')
  BY <1>1, <1>2 DEF Taken
<1>5. bgr_fifo_read <=> (sends \/ (discards /\ Base = "bgr"))
  BY ReadOrPush
<1>6. Base = "bgr" \/ Base = "win"
  BY <1>1 DEF Layers
<1> DEFINE d2 == discard_x'
<1>7. /\ output_x >= Lead => at(output_x + 1, discard_x) = at(output_x, discard_x) + 1
      /\ output_x < Lead => at(output_x + 1, discard_x) = at(output_x, discard_x)
      /\ Base = "bgr" => at(output_x, discard_x - 1) = at(output_x, discard_x) + 1
      /\ Base = "win" => at(output_x, d2) = at(output_x, discard_x)
  <2>1. d2 \in Nat
    BY <1>3
  <2> HIDE DEF d2
  <2> QED BY <1>1, <1>2, <1>3, <2>1, NextTaken
<1> HIDE DEF at
<1>8. CASE sends
  <2>1. output_x' = output_x + 1 /\ discard_x' = discard_x /\ output_x >= Lead
    BY <1>8, OutputMoves DEF sends
  <2> QED BY <1>1, <1>2, <1>4, <1>5, <1>7, <1>8, <2>1
<1>9. CASE discards
  <2>1. output_x' = output_x /\ discard_x' = discard_x - 1
    BY <1>9, OutputMoves
  <2>2. ~sends
    BY <1>3, <1>9 DEF sends, discards
  <2> QED BY <1>1, <1>2, <1>4, <1>5, <1>6, <1>7, <1>9, <2>1, <2>2
<1>10. CASE leads
  <2>1. output_x' = output_x + 1 /\ discard_x' = discard_x /\ output_x < Lead
    BY <1>10, OutputMoves DEF leads
  <2>2. ~sends /\ ~discards
    BY <1>3, <2>1 DEF sends, discards, Lead
  <2> QED BY <1>1, <1>2, <1>4, <1>5, <1>7, <1>10, <2>1, <2>2
<1>11. CASE ~leads /\ ~sends /\ ~discards
  <2>1. output_x' = output_x /\ discard_x' = discard_x
    BY <1>11, OutputMoves
  <2> QED BY <1>1, <1>2, <1>4, <1>5, <1>11, <2>1
<1> QED BY <1>8, <1>9, <1>10, <1>11

(* The next tile starts a tile of the background, *)
LEMMA TileStarts ==
  ASSUME NEW n \in Nat, NEW scx \in Nat
  PROVE  /\ n * Tile \in Nat /\ (n * Tile) % Tile = 0
         /\ BgrColumn(scx, n * Tile) = (((n * Tile + scx) % 256) \div Tile) * Tile
         /\ BgrColumn(scx, n * Tile) \in Nat
<1> DEFINE m == n * Tile
<1>1. m \in Nat /\ m % 8 = 0 /\ Tile = 8
  BY SMT DEF Tile
<1> HIDE DEF m
<1>2. (m - (m % 8)) + scx = m + scx /\ m + scx \in Nat
  BY <1>1
<1>3. BgrColumn(scx, m) = ((((m + scx) % 256) \div 8) * 8) + 0
  BY <1>1, <1>2 DEF BgrColumn
<1> DEFINE k == m + scx
<1>4. k \in Nat
  BY <1>2
<1> HIDE DEF k
<1>5. ((k % 256) \div 8) * 8 \in Nat
  BY <1>4, SMT
<1>6. (((m + scx) % 256) \div 8) * 8 \in Nat
  BY <1>5 DEF k
<1>7. /\ m \in Nat /\ m % Tile = 0
      /\ BgrColumn(scx, m) = (((m + scx) % 256) \div Tile) * Tile /\ BgrColumn(scx, m) \in Nat
  BY <1>1, <1>3, <1>6
<1> QED BY <1>7 DEF m

LEMMA BroughtIs ==
  ASSUME Shapes
  PROVE  /\ Brought \in Nat /\ Row \in Nat /\ SCX_reg \in Nat
         /\ Base = "bgr" => Brought % Tile = 0
<1>1. fetch_counter \in Nat /\ win_x \in Nat /\ SCX_reg \in Nat /\ LY_reg \in Nat /\ win_y \in Nat
  BY DEF Shapes, TileShape, RegisterShape
<1>2. CASE Base = "bgr"
  BY <1>1, <1>2, TileStarts DEF Brought, Row
<1>3. CASE Base # "bgr"
  BY <1>1, <1>3 DEF Brought, Row
<1> QED BY <1>2, <1>3

(* and its pixels follow one another in the strip. *)
LEMMA FetchedStrip ==
  ASSUME Shapes, data = NextTile
  PROVE  Strip(Fetched, Brought, Base, Row, SCX_reg)
<1>1. /\ Brought \in Nat /\ SCX_reg \in Nat /\ Row \in Nat
      /\ Base = "bgr" => Brought % Tile = 0
  BY BroughtIs
<1>2. Len(Fetched) = Tile
  BY FetchedIs
<1>3. SUFFICES ASSUME NEW i \in 1..Tile
               PROVE  Fetched[i] = PlaceOf(Base, Row, SCX_reg, Brought + (i - 1))
  BY <1>2 DEF Strip
<1>4. Fetched[i] = Pixel(data[1], data[2], data[3] + i - 1) /\ i \in Nat
  BY DEF Fetched, Tile
<1>5. CASE Base = "bgr"
  <2> DEFINE c == BgrColumn(SCX_reg, Brought)
  <2>1. BgrColumn(SCX_reg, Brought + (i - 1)) = c + (i - 1)
    BY <1>1, <1>5, InTile
  <2>2. c \in Nat
    <3>1. Brought = fetch_counter * Tile
      BY <1>5 DEF Brought
    <3>2. fetch_counter \in Nat
      BY DEF Shapes, TileShape
    <3>3. BgrColumn(SCX_reg, fetch_counter * Tile) \in Nat
      BY <1>1, <3>2, TileStarts
    <3> QED BY <3>1, <3>3
  <2>3. data = Pixel("bgr", Row, c)
    BY <1>5 DEF NextTile, PlaceOf
  <2> HIDE DEF c
  <2>4. data[1] = "bgr" /\ data[2] = Row /\ data[3] = c
    BY <2>3 DEF Pixel
  <2>5. data[3] + i - 1 = c + (i - 1)
    BY <1>4, <2>2, <2>4
  <2>6. Fetched[i] = Pixel("bgr", Row, c + (i - 1))
    BY <1>4, <2>4, <2>5
  <2> QED BY <1>5, <2>1, <2>6 DEF PlaceOf
<1>6. CASE Base # "bgr"
  <2>1. data = Pixel("win", Row, Brought)
    BY <1>6 DEF NextTile, PlaceOf
  <2>2. data[1] = "win" /\ data[2] = Row /\ data[3] = Brought
    BY <2>1 DEF Pixel
  <2>3. data[3] + i - 1 = Brought + (i - 1)
    BY <1>1, <1>4, <2>2
  <2>4. Fetched[i] = Pixel("win", Row, Brought + (i - 1))
    BY <1>4, <2>2, <2>3
  <2> QED BY <1>6, <2>4 DEF PlaceOf
<1> QED BY <1>5, <1>6

(* Taking the first pixel out leaves the rest in place. *)
LEMMA PoppedStrip ==
  ASSUME NEW fifo \in Seq(Places), fifo # <<>>, NEW n \in Int, NEW base, NEW row, NEW scx,
         Strip(fifo, n, base, row, scx)
  PROVE  Strip(Popped(fifo), n + 1, base, row, scx)
<1>1. /\ Len(fifo) \in Nat /\ Len(Popped(fifo)) = Len(fifo) - 1
      /\ \A i \in 1..Len(Popped(fifo)) : Popped(fifo)[i] = fifo[i + 1]
  BY PoppedIs, LenProperties
<1>2. SUFFICES ASSUME NEW i \in 1..Len(Popped(fifo))
               PROVE  Popped(fifo)[i] = PlaceOf(base, row, scx, (n + 1) + (i - 1))
  BY DEF Strip
<1>3. i \in Int /\ i + 1 \in 1..Len(fifo)
  BY <1>1
<1>4. fifo[i + 1] = PlaceOf(base, row, scx, n + ((i + 1) - 1))
  BY <1>3 DEF Strip
<1>5. n + ((i + 1) - 1) = (n + 1) + (i - 1)
  BY <1>3
<1> QED BY <1>1, <1>4, <1>5

(* What the fetcher has brought, and where it goes on. *)
LEMMA BroughtMoves ==
  ASSUME Shapes, Fetch, ~TakeOver, SCX_reg' = SCX_reg, LY_reg' = LY_reg
  PROVE  /\ Base' = Base /\ Row' = Row
         /\ bgr_fifo_push => Brought' = Brought + Tile
         /\ ~bgr_fifo_push => Brought' = Brought /\ NextTile' = NextTile
<1>1. Base' = Base
  BY FetchingMoves
<1>2. /\ win_y' = win_y
      /\ fetch_counter' = IF bgr_fifo_push /\ Base = "bgr" THEN fetch_counter + 1 ELSE fetch_counter
      /\ win_x' = IF bgr_fifo_push /\ Base = "win" THEN win_x + Tile ELSE win_x
  BY TilesMove
<1>3. Row' = Row
  BY <1>1, <1>2 DEF Row
<1>4. fetch_counter \in Nat /\ win_x \in Nat /\ Base \in Layers
  BY DueIs DEF Shapes, TileShape
<1>5. ASSUME bgr_fifo_push PROVE Brought' = Brought + Tile
  <2>1. CASE Base = "bgr"
    <3>1. fetch_counter' = fetch_counter + 1
      BY <1>2, <1>5, <2>1
    <3>2. Brought' = (fetch_counter + 1) * Tile /\ Brought = fetch_counter * Tile
      BY <1>1, <2>1, <3>1 DEF Brought
    <3> QED BY <1>4, <3>2 DEF Tile
  <2>2. CASE Base # "bgr"
    <3>1. win_x' = win_x + Tile
      BY <1>2, <1>4, <1>5, <2>2 DEF Layers
    <3> QED BY <1>1, <2>2, <3>1 DEF Brought
  <2> QED BY <2>1, <2>2
<1>6. ASSUME ~bgr_fifo_push PROVE Brought' = Brought /\ NextTile' = NextTile
  <2>1. fetch_counter' = fetch_counter /\ win_x' = win_x
    BY <1>2, <1>6
  <2>2. Brought' = Brought
    BY <1>1, <2>1 DEF Brought
  <2> QED BY <1>1, <1>3, <2>2 DEF NextTile
<1> QED BY <1>1, <1>3, <1>5, <1>6

(* The pixels in the FIFO stay those of the strip, *)
LEMMA FifoOnStrip ==
  ASSUME Shapes, DrawInv, StripInv, mode = "drawing", Output, Fetch, FifosGoOn, ~TakeOver,
         SCX_reg' = SCX_reg, WX_reg' = WX_reg, LY_reg' = LY_reg
  PROVE  /\ Brought' = Taken' + Len(bgr_fifo')
         /\ Strip(bgr_fifo', Taken', Base, Row, SCX_reg)
<1>1. /\ Taken \in Int /\ Brought \in Nat
      /\ bgr_fifo_read => Taken' = Taken + 1
      /\ ~bgr_fifo_read => Taken' = Taken
  BY TakenMoves, BroughtIs
<1>2. /\ bgr_fifo_push => Brought' = Brought + 8
      /\ ~bgr_fifo_push => Brought' = Brought
  BY BroughtMoves DEF Tile
<1>3. /\ bgr_fifo_push => Due = 0 /\ ~bgr_fifo_flush
      /\ bgr_fifo_read => ~bgr_fifo_flush /\ bgr_fifo # <<>>
  BY ReadOrPush DEF Dry
<1>4. bgr_fifo \in Seq(Places) /\ Len(bgr_fifo) \in Nat
  BY LenProperties DEF Shapes, FifoShape
<1>5. ~bgr_fifo_flush => /\ Brought = Taken + Len(bgr_fifo)
                         /\ Strip(bgr_fifo, Taken, Base, Row, SCX_reg)
  BY DEF StripInv
<1>6. bgr_fifo_flush \in BOOLEAN
  BY DEF Shapes, FifoShape
<1>7. CASE bgr_fifo_flush
  <2>1. bgr_fifo' = <<>> /\ Taken = 0 /\ Brought = 0
    BY <1>7, BgrFifoMoves DEF StripInv
  <2>2. Taken' = 0 /\ Brought' = 0 /\ Len(<<>>) = 0
    BY <1>1, <1>2, <1>3, <1>7, <2>1
  <2>3. Strip(<<>>, 0, Base, Row, SCX_reg)
    BY DEF Strip
  <2> QED BY <2>1, <2>2, <2>3
<1>8. CASE ~bgr_fifo_flush /\ bgr_fifo_push
  <2>1. bgr_fifo' = Fetched /\ Len(Fetched) = 8
    BY <1>8, BgrFifoMoves, FetchedIs DEF Tile
  <2>2. Strip(Fetched, Brought, Base, Row, SCX_reg)
    <3>1. data = NextTile
      BY <1>3, <1>8 DEF StripInv
    <3> QED BY <3>1, FetchedStrip
  <2>3. Taken' = Brought
    <3>1. CASE bgr_fifo_read
      <4>1. Len(bgr_fifo) = 1
        BY <1>3, <1>8, <3>1 DEF bgr_fifo_push
      <4> QED BY <1>1, <1>5, <1>8, <3>1, <4>1
    <3>2. CASE ~bgr_fifo_read
      <4>1. bgr_fifo = <<>>
        BY <1>8, <3>2 DEF bgr_fifo_push
      <4>2. Len(bgr_fifo) = 0
        BY <4>1
      <4> QED BY <1>1, <1>5, <1>8, <3>2, <4>2
    <3> QED BY <3>1, <3>2
  <2>4. Brought' = Taken' + 8
    BY <1>2, <1>8, <2>3
  <2> QED BY <2>1, <2>2, <2>3, <2>4
<1>9. CASE ~bgr_fifo_flush /\ ~bgr_fifo_push /\ bgr_fifo_read
  <2>1. bgr_fifo' = Popped(bgr_fifo) /\ bgr_fifo # <<>>
    BY <1>3, <1>9, BgrFifoMoves
  <2>2. Len(bgr_fifo') = Len(bgr_fifo) - 1
    BY <1>4, <2>1, PoppedIs
  <2>3. Strip(bgr_fifo', Taken + 1, Base, Row, SCX_reg)
    BY <1>1, <1>4, <1>5, <1>9, <2>1, PoppedStrip
  <2>4. Taken' = Taken + 1 /\ Brought' = Brought
    BY <1>1, <1>2, <1>9
  <2>5. Brought = (Taken + 1) + (Len(bgr_fifo) - 1)
    BY <1>1, <1>4, <1>5, <1>9
  <2> QED BY <2>2, <2>3, <2>4, <2>5
<1>10. CASE ~bgr_fifo_flush /\ ~bgr_fifo_push /\ ~bgr_fifo_read
  <2>1. bgr_fifo' = bgr_fifo /\ Taken' = Taken /\ Brought' = Brought
    BY <1>1, <1>2, <1>10, BgrFifoMoves
  <2> QED BY <1>5, <1>10, <2>1
<1>11. bgr_fifo_push \in BOOLEAN /\ bgr_fifo_read \in BOOLEAN
  BY DEF bgr_fifo_push, bgr_fifo_read, sends, discards
<1> QED BY <1>6, <1>7, <1>8, <1>9, <1>10, <1>11

(* so does the tile that is fetched, *)
LEMMA FetchOnStrip ==
  ASSUME Shapes, DrawInv, StripInv, mode = "drawing", Fetch, ~TakeOver,
         SCX_reg' = SCX_reg, LY_reg' = LY_reg
  PROVE  /\ Due' = 4 => tile_addr' = NextTile'
         /\ Due' \in 1..3 => tile_idx' = NextTile'
         /\ Due' = 0 => data' = NextTile'
<1>1. /\ Due = 4 => tile_addr = NextTile
      /\ Due \in 1..3 => tile_idx = NextTile
      /\ Due = 0 => data = NextTile
  BY DEF StripInv
<1>2. /\ obj_state => Due \in {0, 5} /\ Due' = Due
      /\ ~obj_state => /\ layer = Base /\ Due = Away(step)
                       /\ step \in {"map", "read", "data", "low", "high", "push"}
      /\ ~obj_state /\ step # "push" => Due' = Due - 1
      /\ ~obj_state /\ step = "push" => Due' = (IF bgr_fifo_push THEN 5 ELSE 0)
      /\ Due \in 0..5 /\ Base \in Layers
  BY DueIs, FetchingMoves
<1>3. ~bgr_fifo_push => NextTile' = NextTile
  BY BroughtMoves
<1>4. /\ tile_idx' = IF ~obj_state /\ step = "read" THEN tile_addr ELSE tile_idx
      /\ data' = IF ~obj_state /\ step = "high" THEN tile_idx ELSE data
  BY TilesMove
<1>5. bgr_fifo_push => ~obj_state /\ step = "push"
  BY DEF bgr_fifo_push
<1>6. CASE obj_state
  <2>1. NextTile' = NextTile /\ data' = data /\ Due' = Due /\ Due \in {0, 5}
    BY <1>2, <1>3, <1>4, <1>5, <1>6
  <2> QED BY <1>1, <2>1
<1>7. CASE ~obj_state /\ step = "push"
  <2>1. Due = 0 /\ data' = data /\ Due' = (IF bgr_fifo_push THEN 5 ELSE 0)
    BY <1>2, <1>4, <1>7 DEF Away
  <2> QED BY <1>1, <1>3, <2>1
<1>8. CASE ~obj_state /\ step = "map"
  <2>1. Due' = 4 /\ NextTile' = NextTile
    BY <1>2, <1>3, <1>5, <1>8 DEF Away
  <2>2. tile_addr' = NextTile
    <3>1. CASE Base = "bgr"
      <4>1. tile_addr' = Pixel("bgr", LY_reg, (((fetch_counter * Tile + SCX_reg) % 256) \div Tile) * Tile)
        BY <1>8, <3>1, TilesMove
      <4>2. fetch_counter \in Nat /\ SCX_reg \in Nat
        BY DEF Shapes, TileShape, RegisterShape
      <4>3. BgrColumn(SCX_reg, fetch_counter * Tile) =
              (((fetch_counter * Tile + SCX_reg) % 256) \div Tile) * Tile
        BY <4>2, TileStarts
      <4>4. NextTile = Pixel("bgr", LY_reg, BgrColumn(SCX_reg, fetch_counter * Tile))
        BY <3>1 DEF NextTile, PlaceOf, Row, Brought
      <4> QED BY <4>1, <4>3, <4>4
    <3>2. CASE Base = "win"
      <4>1. tile_addr' = Pixel("win", win_y, win_x)
        BY <1>8, <3>2, TilesMove
      <4> QED BY <3>2, <4>1 DEF NextTile, PlaceOf, Row, Brought
    <3> QED BY <1>2, <3>1, <3>2 DEF Layers
  <2> QED BY <2>1, <2>2
<1>9. CASE ~obj_state /\ step \in {"read", "data", "low", "high"}
  <2>1. NextTile' = NextTile /\ Due \in 1..4 /\ Due' = Due - 1
    BY <1>2, <1>3, <1>5, <1>9 DEF Away
  <2>2. /\ Due = 4 <=> step = "read"
        /\ Due = 1 <=> step = "high"
    BY <1>2, <1>9 DEF Away
  <2>3. CASE step = "read"
    BY <1>1, <1>4, <1>9, <2>1, <2>2, <2>3
  <2>4. CASE step = "high"
    BY <1>1, <1>4, <1>9, <2>1, <2>2, <2>4
  <2>5. CASE step # "read" /\ step # "high"
    <3>1. Due \in 2..3 /\ tile_idx' = tile_idx
      BY <1>4, <2>1, <2>2, <2>5
    <3> QED BY <1>1, <2>1, <3>1
  <2> QED BY <2>3, <2>4, <2>5
<1> QED BY <1>2, <1>6, <1>7, <1>8, <1>9

(* and the pixels scrolled out are dropped when the output reaches the screen. *)
LEMMA DropsFirst ==
  ASSUME Shapes, StripInv, mode = "drawing", Base = "bgr", Output, SCX_reg' = SCX_reg
  PROVE  /\ discard_x' <= SCX_reg % 8
         /\ output_x' < Lead => discard_x' = SCX_reg % 8
         /\ output_x' > Lead => discard_x' = 0
<1> DEFINE u == SCX_reg % 8
<1>1. /\ discard_x <= u /\ (output_x < 8 => discard_x = u) /\ (output_x > 8 => discard_x = 0)
      /\ output_x \in Nat /\ discard_x \in Nat /\ u \in Nat
  BY DEF StripInv, Lead, Shapes, OutputShape, RegisterShape
<1>2. /\ sends => output_x >= 8 /\ discard_x = 0 /\ output_x' = output_x + 1 /\ discard_x' = discard_x
      /\ leads => output_x < 8 /\ output_x' = output_x + 1 /\ discard_x' = discard_x
      /\ discards => output_x >= 8 /\ discard_x > 0 /\ output_x' = output_x /\ discard_x' = discard_x - 1
      /\ ~leads /\ ~sends /\ ~discards => output_x' = output_x /\ discard_x' = discard_x
  BY OutputMoves DEF sends, leads, discards, Lead
<1> HIDE DEF u
<1>3. discard_x' <= u /\ (output_x' < 8 => discard_x' = u) /\ (output_x' > 8 => discard_x' = 0)
  <2>1. CASE sends
    BY <1>1, <1>2, <2>1
  <2>2. CASE leads
    BY <1>1, <1>2, <2>2
  <2>3. CASE discards
    <3>1. output_x = 8 /\ output_x' = 8 /\ discard_x' = discard_x - 1
      BY <1>1, <1>2, <2>3
    <3> QED BY <1>1, <3>1
  <2>4. CASE ~leads /\ ~sends /\ ~discards
    BY <1>1, <1>2, <2>4
  <2> QED BY <2>1, <2>2, <2>3, <2>4
<1> QED BY <1>3 DEF u, Lead

(* Where the window takes over it begins a strip of its own. *)
LEMMA TakeOverOutput ==
  ASSUME Shapes, DrawInv, StripInv, RegistersFit, mode = "drawing", Output, TakeOver,
         WX_reg' = WX_reg
  PROVE  /\ output_x' = output_x + 1 /\ output_x = WX_reg /\ Base = "bgr"
         /\ WindowLeft' = WindowLeft /\ SentAt(output_x') = WindowLeft
<1>1. /\ Advances /\ output_x = WX_reg /\ WIN_EN /\ ~win_state /\ ~obj_state
  BY DEF TakeOver, Advances, win_trigger
<1>2. Base = "bgr" /\ Due \in 0..5
  BY <1>1, DueIs DEF win_state, Layers
<1>3. output_x \in Nat /\ discard_x \in Nat /\ SCX_reg \in Nat
  BY DEF Shapes, OutputShape, RegisterShape
<1>4. CASE output_x < 8
  <2>1. leads
    BY <1>1, <1>4 DEF leads, Lead
  <2>2. output_x' = output_x + 1
    BY <2>1, OutputMoves
  <2>3. SentAt(output_x') = 0 /\ WindowLeft = 0
    BY <1>1, <1>3, <1>4, <2>2 DEF SentAt, WindowLeft, Lead
  <2> QED BY <1>1, <1>2, <2>2, <2>3 DEF WindowLeft
<1>5. CASE output_x >= 8
  <2>1. discard_x = 0
    <3>1. CASE output_x = 8
      <4>1. SCX_reg % 8 = 0
        BY <1>1, <3>1 DEF RegistersFit, Lead
      <4>2. discard_x <= 0
        BY <1>2, <4>1 DEF StripInv
      <4> QED BY <1>3, <4>2
    <3>2. CASE output_x # 8
      BY <1>2, <1>3, <1>5, <3>2 DEF StripInv, Lead
    <3> QED BY <3>1, <3>2
  <2>2. ~Dry
    <3>1. SUFFICES ASSUME Dry PROVE FALSE
      OBVIOUS
    <3>2. output_x + Due <= 5
      BY <1>2, <3>1 DEF DrawInv
    <3> QED BY <1>2, <1>3, <1>5, <3>2
  <2>3. sends
    BY <1>1, <1>3, <1>5, <2>1, <2>2 DEF sends, Dry, Lead
  <2>4. output_x' = output_x + 1
    BY <2>3, OutputMoves
  <2>5. SentAt(output_x') = output_x - 7 /\ WindowLeft = output_x - 7
    <3>1. SentAt(output_x + 1) = (output_x + 1) - 8
      BY <1>3, <1>5 DEF SentAt, Lead
    <3> QED BY <1>1, <1>3, <1>5, <2>4, <3>1 DEF WindowLeft
  <2> QED BY <1>1, <1>2, <2>4, <2>5 DEF WindowLeft
<1> QED BY <1>3, <1>4, <1>5

(* A dot of drawing leaves the strip whole. *)
LEMMA StripKept ==
  ASSUME Shapes, DrawInv, StripInv, RegistersFit, mode = "drawing", Output, Fetch, FifosGoOn,
         SCX_reg' = SCX_reg, WX_reg' = WX_reg, LY_reg' = LY_reg
  PROVE  StripInv'
<1>1. CASE TakeOver
  <2>1. Base' = "win" /\ Due' = 4
    BY <1>1, FetchingMoves
  <2>2. tile_addr' = Pixel("win", win_y', 0) /\ win_x' = 0
    BY <1>1, TakeOverMoves DEF Shapes, TileShape
  <2>3. NextTile' = Pixel("win", win_y', 0) /\ Brought' = 0
    BY <2>1, <2>2 DEF NextTile, PlaceOf, Row, Brought
  <2>4. Taken' = 0
    <3>1. WindowLeft' = WindowLeft /\ SentAt(output_x') = WindowLeft /\ WindowLeft \in Nat
      BY <1>1, TakeOverOutput, TakenIs
    <3>2. Taken' = SentAt(output_x') - WindowLeft'
      BY <2>1 DEF Taken, TakenAt
    <3> QED BY <3>1, <3>2
  <2>5. bgr_fifo_flush' <=> TRUE
    BY <1>1, BgrFifoMoves
  <2>6. /\ Due' = 4 => tile_addr' = NextTile'
        /\ Due' \in 1..3 => tile_idx' = NextTile'
        /\ Due' = 0 => data' = NextTile'
        /\ Base' # "bgr"
    BY <2>1, <2>2, <2>3
  <2> QED BY <2>3, <2>4, <2>5, <2>6 DEF StripInv
<1>2. CASE ~TakeOver
  <2>1. ~bgr_fifo_flush'
    BY <1>2, BgrFifoMoves
  <2>2. Base' = Base /\ Row' = Row
    BY <1>2, BroughtMoves
  <2>3. /\ Brought' = Taken' + Len(bgr_fifo')
        /\ Strip(bgr_fifo', Taken', Base', Row', SCX_reg')
    BY <1>2, <2>2, FifoOnStrip
  <2>4. /\ Due' = 4 => tile_addr' = NextTile'
        /\ Due' \in 1..3 => tile_idx' = NextTile'
        /\ Due' = 0 => data' = NextTile'
    BY <1>2, FetchOnStrip
  <2>5. Base' = "bgr" => /\ discard_x' <= SCX_reg' % 8
                         /\ output_x' < Lead => discard_x' = SCX_reg' % 8
                         /\ output_x' > Lead => discard_x' = 0
    BY <2>2, DropsFirst
  <2> QED BY <2>1, <2>3, <2>4, <2>5 DEF StripInv
<1> QED BY <1>1, <1>2

(* A line starts with nothing taken. *)
LEMMA StripStarts ==
  ASSUME Shapes, StartDrawing
  PROVE  StripInv' /\ Base' = "bgr" /\ output_x' = 0
<1>1. /\ fetcher_state' = <<"bgr", "map">> /\ output_x' = 0 /\ discard_x' = SCX_reg' % 8
      /\ fetch_counter' = 0 /\ SCX_reg' = SCX_reg
  BY DEF StartDrawing, registers
<1>2. Base' = "bgr" /\ Due' = 5
  BY <1>1 DEF Base, Due, Fetching, Away, obj_state, layer
<1>3. bgr_fifo_flush' <=> TRUE
  <2>1. Fifos(TRUE)
    BY DEF StartDrawing
  <2>2. bgr_fifo_flush' <=> (TRUE \/ TakeOver)
    BY <2>1, FifoMoves
  <2> QED BY <2>2
<1>4. SCX_reg \in 0..255
  BY DEF Shapes, RegisterShape
<1> DEFINE u == SCX_reg' % 8
<1>5. u \in Nat
  BY <1>1, <1>4
<1>6. discard_x' = u
  BY <1>1
<1> HIDE DEF u
<1>7. Taken' = 0 /\ Brought' = 0
  <2>1. Taken' = SentAt(0) + (u - u)
    BY <1>1, <1>2, <1>6 DEF Taken, TakenAt, u
  <2>2. SentAt(0) = 0
    BY DEF SentAt, Lead
  <2>3. Brought' = 0 * Tile
    BY <1>1, <1>2 DEF Brought
  <2> QED BY <1>5, <2>1, <2>2, <2>3 DEF Tile
<1>8. /\ discard_x' <= u
      /\ output_x' < Lead => discard_x' = u
      /\ output_x' > Lead => discard_x' = 0
  BY <1>1, <1>5, <1>6 DEF Lead
<1> QED BY <1>1, <1>2, <1>3, <1>7, <1>8 DEF StripInv, u

(* The columns sent grow. *)
LEMMA SentGrows ==
  ASSUME NEW x \in Nat
  PROVE  /\ SentAt(x) \in Nat /\ SentAt(x) <= SentAt(x) /\ SentAt(x + 1) \in Nat
         /\ SentAt(x) <= SentAt(x + 1)
         /\ x >= Lead => SentAt(x + 1) = SentAt(x) + 1
         /\ x < Lead => SentAt(x + 1) = 0 /\ SentAt(x) = 0
BY DEF SentAt, Lead

(* The lines that showed the window are counted as they end. *)
WindowCounted ==
  win_lines' = CASE mode = "vblank" -> 0
                 [] LineDrawn /\ mode = "drawing" /\ ShowsWindow -> win_lines + 1
                 [] OTHER -> win_lines

LEMMA WindowCounts ==
  ASSUME WindowCounted
  PROVE  /\ mode = "vblank" => win_lines' = 0
         /\ mode = "drawing" /\ LineDrawn /\ ShowsWindow => win_lines' = win_lines + 1
         /\ mode # "vblank" /\ ~(mode = "drawing" /\ LineDrawn /\ ShowsWindow) =>
              win_lines' = win_lines
<1>1. ASSUME mode = "vblank" PROVE win_lines' = 0
  <2>1. ~(LineDrawn /\ mode = "drawing" /\ ShowsWindow)
    BY <1>1
  <2> QED BY <1>1, <2>1, Zenon DEF WindowCounted
<1>2. ASSUME mode = "drawing", LineDrawn, ShowsWindow PROVE win_lines' = win_lines + 1
  <2>1. mode # "vblank"
    BY <1>2
  <2> QED BY <1>2, <2>1, Zenon DEF WindowCounted
<1>3. ASSUME mode # "vblank", ~(mode = "drawing" /\ LineDrawn /\ ShowsWindow)
      PROVE  win_lines' = win_lines
  BY <1>3, Zenon DEF WindowCounted
<1> QED BY <1>1, <1>2, <1>3

(* The output goes on behind the last column while the pipe empties. *)
LEMMA OutputEnds ==
  ASSUME Shapes, DrawInv, mode = "drawing"
  PROVE  output_x < Columns \/ output_x \in Columns..(Columns + 3)
<1>1. output_x \in Nat /\ Columns \in Nat
  BY PpuAssumption DEF Shapes, OutputShape, Columns, Lead
<1>2. Drain \in 1..4
  BY DEF Drain
<1>3. output_x >= Columns => output_x + Drain <= Columns + 4
  BY DEF DrawInv
<1> QED BY <1>1, <1>2, <1>3

(* A line keeps the window's row, *)
LEMMA RowsInDrawing ==
  ASSUME Shapes, DrawInv, StripInv, RegistersFit, RowInv, mode = "drawing", Output, Fetch,
         WIN_EN' <=> WIN_EN, WX_reg' = WX_reg, WY_reg' = WY_reg, LY_reg' = LY_reg,
         ~LineDrawn, mode' = "drawing", WindowCounted
  PROVE  RowInv'
<1>1. win_lines' = win_lines /\ win_lines \in Nat
  BY WindowCounts DEF RowInv
<1>2. (ShowsWindow' <=> ShowsWindow) /\ WindowLeft' = WindowLeft
  BY <1>1 DEF ShowsWindow, WindowLeft
<1>3. output_x \in Nat /\ WX_reg \in Nat /\ win_y_cond \in BOOLEAN /\ WIN_EN \in BOOLEAN
  BY DEF Shapes, OutputShape, RegisterShape, TileShape
<1>4. /\ Base = "bgr" => RowsFollow /\ (ShowsWindow => output_x <= WX_reg)
      /\ Base = "win" => ShowsWindow /\ win_y_cond /\ win_y = win_lines
                         /\ WindowLeft <= SentAt(output_x)
  BY DEF RowInv
<1>5. SUFFICES /\ Base' = "bgr" => RowsFollow' /\ (ShowsWindow' => output_x' <= WX_reg')
               /\ Base' = "win" => ShowsWindow' /\ win_y_cond' /\ win_y' = win_lines'
                                   /\ WindowLeft' <= SentAt(output_x')
  BY <1>1 DEF RowInv
<1>6. CASE TakeOver
  <2>1. Base' = "win" /\ Base = "bgr" /\ SentAt(output_x') = WindowLeft /\ WindowLeft \in Nat
    BY <1>6, TakeOverOutput, FetchingMoves, TakenIs
  <2>2. win_y_cond' /\ win_y' = IF win_y_cond THEN win_y + 1 ELSE 0
    BY <1>3, <1>6, TakeOverMoves
  <2>3. (win_y_cond <=> win_lines > 0) /\ (win_y_cond => win_y + 1 = win_lines)
    BY <1>4, <2>1 DEF RowsFollow
  <2>4. ShowsWindow
    <3>1. WIN_EN /\ output_x = WX_reg /\ (LY_reg = WY_reg \/ win_y_cond)
      BY <1>6 DEF TakeOver, win_trigger
    <3>2. WX_reg < Columns
      BY <3>1, OutputEnds DEF RegistersFit
    <3> QED BY <2>3, <3>1, <3>2 DEF ShowsWindow, Columns
  <2>5. win_y' = win_lines
    BY <1>1, <2>2, <2>3
  <2> QED BY <1>1, <1>2, <2>1, <2>2, <2>4, <2>5
<1>7. CASE ~TakeOver
  <2>1. Base' = Base /\ Base \in Layers /\ win_y' = win_y /\ (win_y_cond' <=> win_y_cond)
    BY <1>7, FetchingMoves, TilesMove
  <2>2. output_x' \in {output_x, output_x + 1}
    BY OutputMoves
  <2>3. CASE Base = "win"
    <3>1. SentAt(output_x) <= SentAt(output_x') /\ SentAt(output_x) \in Nat
          /\ SentAt(output_x') \in Nat /\ WindowLeft \in Nat
      BY <1>3, <2>2, SentGrows, TakenIs
    <3>2. WindowLeft' <= SentAt(output_x')
      BY <1>2, <1>4, <2>3, <3>1
    <3> QED BY <1>1, <1>2, <1>4, <2>1, <2>3, <3>2
  <2>4. CASE Base = "bgr"
    <3>1. RowsFollow'
      BY <1>1, <1>4, <2>1, <2>4 DEF RowsFollow
    <3>2. ASSUME ShowsWindow PROVE output_x' <= WX_reg
      <4>1. output_x <= WX_reg
        BY <1>4, <2>4, <3>2
      <4>2. CASE output_x' = output_x
        BY <4>1, <4>2
      <4>3. CASE output_x' # output_x
        <5>1. ~obj_trigger /\ ~obj_state
          BY <4>3, OutputMoves
        <5>2. ~win_state
          BY <2>4, <5>1, DueIs DEF win_state
        <5>3. output_x # WX_reg
          <6>1. win_y_cond <=> win_lines > 0
            BY <1>4, <2>4 DEF RowsFollow
          <6> QED BY <1>7, <3>2, <5>1, <5>2, <6>1 DEF TakeOver, win_trigger, ShowsWindow
        <5> QED BY <1>3, <2>2, <4>1, <5>3
      <4> QED BY <4>2, <4>3
    <3> QED BY <1>2, <2>1, <2>4, <3>1, <3>2
  <2> QED BY <2>1, <2>3, <2>4 DEF Layers
<1> QED BY <1>6, <1>7

(* and leaves it to the next. *)
LEMMA RowsAfterLine ==
  ASSUME Shapes, DrawInv, RegistersFit, RowInv, mode = "drawing", Fetch,
         LineDrawn, mode' = "hblank", WindowCounted
  PROVE  RowInv'
<1>1. win_lines \in Nat /\ output_x \in Nat /\ WX_reg \in Nat /\ Columns \in Nat /\ output_x >= Columns
  BY PpuAssumption DEF RowInv, Shapes, OutputShape, RegisterShape, LineDrawn, Columns, Lead
<1>2. WIN_EN => WX_reg # output_x
  BY <1>1, OutputEnds DEF RegistersFit
<1>3. ~TakeOver
  BY <1>1, <1>2 DEF TakeOver, win_trigger
<1>4. Base \in Layers /\ win_y' = win_y /\ (win_y_cond' <=> win_y_cond)
  BY <1>3, DueIs, TilesMove
<1>5. SUFFICES win_lines' \in Nat /\ RowsFollow'
  BY DEF RowInv
<1>6. CASE Base = "bgr"
  <2>1. RowsFollow /\ ~ShowsWindow
    BY <1>1, <1>6 DEF RowInv, ShowsWindow, Columns
  <2>2. win_lines' = win_lines
    BY <2>1, WindowCounts
  <2> QED BY <1>1, <1>4, <2>1, <2>2 DEF RowsFollow
<1>7. CASE Base = "win"
  <2>1. ShowsWindow /\ win_y_cond /\ win_y = win_lines
    BY <1>7 DEF RowInv
  <2>2. win_lines' = win_lines + 1
    BY <2>1, WindowCounts
  <2>3. win_y' + 1 = win_lines' /\ win_lines' > 0 /\ win_lines' \in Nat
    BY <1>1, <1>4, <2>1, <2>2
  <2> QED BY <1>4, <2>1, <2>3 DEF RowsFollow
<1> QED BY <1>4, <1>6, <1>7 DEF Layers

(* So do the dots outside a line. *)
LEMMA RowsRest ==
  ASSUME RowInv, mode # "drawing", win_lines' = win_lines, win_y' = win_y,
         win_y_cond' <=> win_y_cond, mode \in {"hblank", "oamScan"},
         mode' = "drawing" => Base' = "bgr" /\ output_x' = 0 /\ WX_reg' \in Nat
  PROVE  RowInv'
<1>1. RowsFollow /\ win_lines \in Nat
  BY DEF RowInv
<1>2. RowsFollow'
  BY <1>1 DEF RowsFollow
<1>3. mode' = "drawing" => Base' = "bgr" /\ output_x' <= WX_reg'
  BY SMT
<1> QED BY <1>1, <1>2, <1>3 DEF RowInv

LEMMA RowsOfFrame ==
  ASSUME mode = "vblank", win_lines' = 0, mode' \in {"vblank", "oamScan"},
         mode' = "oamScan" => ~win_y_cond'
  PROVE  RowInv'
<1>1. mode' # "hblank" /\ mode' # "drawing"
  OBVIOUS
<1>2. mode' = "oamScan" => RowsFollow'
  <2>1. SUFFICES ASSUME mode' = "oamScan" PROVE RowsFollow'
    OBVIOUS
  <2>2. ~win_y_cond' /\ ~(win_lines' > 0)
    BY <2>1
  <2> QED BY <2>2 DEF RowsFollow
<1> QED BY <1>1, <1>2 DEF RowInv

(* The pixel that is sent is the one the picture has there. *)
LEMMA SentPixel ==
  ASSUME Shapes, StripInv, RowInv, mode = "drawing", sends, output_x < Columns
  PROVE  Head(bgr_fifo) = Picture[SentAt(output_x)] /\ Head(bgr_fifo) # None
<1> DEFINE c == SentAt(output_x)
<1>1. /\ output_x \in Nat /\ SCX_reg \in Nat /\ WX_reg \in Nat /\ Width \in Nat
      /\ output_x >= 8 /\ output_x < Width + 8 /\ discard_x = 0
  BY PpuAssumption DEF Shapes, OutputShape, RegisterShape, sends, Columns, Lead
<1>2. c = output_x - 8 /\ c \in Nat /\ c \in 0..(Width - 1)
  BY <1>1 DEF SentAt, Lead
<1>3. Head(bgr_fifo) = PlaceOf(Base, Row, SCX_reg, Taken + (1 - 1))
  <2>1. ~bgr_fifo_flush /\ bgr_fifo # <<>> /\ bgr_fifo \in Seq(Places)
    BY DEF sends, Shapes, FifoShape
  <2>2. Len(bgr_fifo) \in Nat /\ Len(bgr_fifo) > 0 /\ Head(bgr_fifo) = bgr_fifo[1]
    BY <2>1, EmptySeq, LenProperties
  <2>3. 1 \in 1..Len(bgr_fifo) /\ Strip(bgr_fifo, Taken, Base, Row, SCX_reg)
    BY <2>1, <2>2 DEF StripInv
  <2> QED BY <2>2, <2>3 DEF Strip
<1>4. Taken \in Int /\ Base \in Layers /\ WindowLeft \in Nat
  BY TakenIs, DueIs
<1>5. Head(bgr_fifo) = PlaceOf(Base, Row, SCX_reg, Taken)
  BY <1>3, <1>4
<1>6. Picture[c] = IF ShowsWindow /\ c >= WindowLeft
                     THEN Pixel("win", win_lines, c - WindowLeft)
                     ELSE Pixel("bgr", LY_reg, (c + SCX_reg) % 256)
  BY <1>2 DEF Picture
<1>7. CASE Base = "bgr"
  <2> DEFINE u == SCX_reg % 8
  <2>1. u \in Nat
    BY <1>1
  <2>2. Taken = c + (u - 0)
    BY <1>1, <1>7, TakenIs
  <2> HIDE DEF u, c
  <2>3. Taken = c + u
    BY <1>2, <2>1, <2>2
  <2>4. Head(bgr_fifo) = Pixel("bgr", LY_reg, BgrColumn(SCX_reg, c + (SCX_reg % 8)))
    BY <1>5, <1>7, <2>3 DEF PlaceOf, Row, u
  <2>5. Head(bgr_fifo) = Pixel("bgr", LY_reg, (c + SCX_reg) % 256)
    BY <1>1, <1>2, <2>4, ScrolledColumn
  <2>6. ~(ShowsWindow /\ c >= WindowLeft)
    <3>1. SUFFICES ASSUME ShowsWindow PROVE c < WindowLeft
      BY <1>2, <1>4
    <3>2. output_x <= WX_reg
      BY <1>7, <3>1 DEF RowInv
    <3> QED BY <1>1, <1>2, <3>2 DEF WindowLeft
  <2>7. Picture[c] = Pixel("bgr", LY_reg, (c + SCX_reg) % 256)
    BY <1>6, <2>6
  <2>8. \A m : Pixel("bgr", LY_reg, m) # None
    BY DEF Pixel, None
  <2> QED BY <2>5, <2>7, <2>8 DEF c
<1>8. CASE Base = "win"
  <2>1. ShowsWindow /\ win_y = win_lines /\ WindowLeft <= c
    BY <1>8 DEF RowInv
  <2>2. Taken = c - WindowLeft
    BY <1>8, TakenIs
  <2>3. Head(bgr_fifo) = Pixel("win", win_lines, c - WindowLeft)
    BY <1>5, <1>8, <2>1, <2>2 DEF PlaceOf, Row
  <2>4. Picture[c] = Pixel("win", win_lines, c - WindowLeft)
    BY <1>2, <1>4, <1>6, <2>1
  <2>5. \A m : Pixel("win", win_lines, m) # None
    BY DEF Pixel, None
  <2> QED BY <2>3, <2>4, <2>5
<1> QED BY <1>4, <1>7, <1>8 DEF Layers

(***************************************************************************)
(* The host.                                                               *)
(***************************************************************************)

(* What the decoder does with an edge of the clock. *)
LEMMA DecodeMoves ==
  ASSUME Decode, first \in BOOLEAN
  PROVE  /\ vsync_falling => ~first'
         /\ ~vsync_falling => first' = first
         /\ pipe'[4] = None => wrote' = wrote
         /\ vsync_falling /\ ~hsync_falling /\ pipe'[4] = None => cur_x' = 0 /\ cur_y' = 0
         /\ ~vsync_falling /\ hsync_falling => cur_x' = 0 /\ cur_y' = cur_y + 1
         /\ ~vsync_falling /\ ~hsync_falling => cur_y' = cur_y
         /\ ~vsync_falling /\ ~hsync_falling /\ pipe'[4] = None => cur_x' = cur_x
         /\ ~vsync_falling /\ ~hsync_falling /\ pipe'[4] # None =>
              /\ cur_x' = cur_x + 1
              /\ cur_y * Width + cur_x < Lines * Width =>
                   wrote' = <<cur_y * Width + cur_x, pipe'[4]>>
<1>1. first' = (first /\ ~vsync_falling)
  BY DEF Decode
<1>2. (vsync_falling => ~first') /\ (~vsync_falling => first' = first)
  BY <1>1
<1>3. pipe'[4] = None => wrote' = wrote
  BY DEF Decode
<1> HIDE DEF None
<1>4. vsync_falling /\ ~hsync_falling /\ pipe'[4] = None => cur_x' = 0 /\ cur_y' = 0
  BY DEF Decode
<1>5. ~vsync_falling /\ hsync_falling => cur_x' = 0 /\ cur_y' = cur_y + 1
  BY DEF Decode
<1>6. ~vsync_falling /\ ~hsync_falling => cur_y' = cur_y
  BY DEF Decode
<1>7. ~vsync_falling /\ ~hsync_falling /\ pipe'[4] = None => cur_x' = cur_x
  BY DEF Decode
<1>8. ASSUME ~vsync_falling, ~hsync_falling, pipe'[4] # None
      PROVE  /\ cur_x' = cur_x + 1
             /\ cur_y * Width + cur_x < Lines * Width =>
                   wrote' = <<cur_y * Width + cur_x, pipe'[4]>>
  BY <1>8 DEF Decode
<1> QED BY <1>2, <1>3, <1>4, <1>5, <1>6, <1>7, <1>8

(* The columns that have entered the pipe. *)
LEMMA EnteredMoves ==
  ASSUME Shapes, Output
  PROVE  /\ Entered \in Nat /\ Entered <= Width
         /\ sends /\ output_x < Columns => Entered' = Entered + 1 /\ Entered = SentAt(output_x)
         /\ ~(sends /\ output_x < Columns) => Entered' = Entered
         /\ output_x >= Columns => Entered = Width
<1>1. /\ output_x \in Nat /\ Width \in Nat /\ Columns = Width + 8
      /\ output_x' \in {output_x, output_x + 1}
  BY OutputMoves, PpuAssumption DEF Shapes, OutputShape, Columns, Lead
<1>2. \A x \in Nat : SentAt(x) = IF x < 8 THEN 0 ELSE x - 8
  BY DEF SentAt, Lead
<1>3. Entered = IF output_x > Width + 8 THEN Width ELSE SentAt(output_x)
  BY <1>1 DEF Entered
<1>4. Entered' = IF output_x' > Width + 8 THEN Width ELSE SentAt(output_x')
  BY <1>1 DEF Entered
<1>5. /\ sends => output_x >= 8 /\ output_x' = output_x + 1
      /\ leads => output_x < 8 /\ output_x' = output_x + 1
      /\ ~leads /\ ~sends => output_x' = output_x
  BY OutputMoves DEF sends, leads, Lead
<1>6. Entered \in Nat /\ Entered <= Width /\ (output_x >= Columns => Entered = Width)
  BY <1>1, <1>2, <1>3
<1>7. CASE sends
  <2>1. Entered' = IF output_x + 1 > Width + 8 THEN Width ELSE SentAt(output_x + 1)
    BY <1>4, <1>5, <1>7
  <2>2. SentAt(output_x + 1) = output_x - 7 /\ SentAt(output_x) = output_x - 8 /\ output_x >= 8
    BY <1>1, <1>2, <1>5, <1>7
  <2>3. CASE output_x < Width + 8
    BY <1>1, <1>3, <1>6, <1>7, <2>1, <2>2, <2>3
  <2>4. CASE ~(output_x < Width + 8)
    BY <1>1, <1>3, <1>6, <1>7, <2>1, <2>2, <2>4
  <2> QED BY <2>3, <2>4
<1>8. CASE leads
  <2>1. Entered' = IF output_x + 1 > Width + 8 THEN Width ELSE SentAt(output_x + 1)
    BY <1>4, <1>5, <1>8
  <2>2. SentAt(output_x + 1) = 0 /\ SentAt(output_x) = 0 /\ output_x < 8
    BY <1>1, <1>2, <1>5, <1>8
  <2>3. ~sends /\ Entered' = Entered
    BY <1>1, <1>3, <1>5, <2>1, <2>2
  <2> QED BY <1>6, <2>3
<1>9. CASE ~sends /\ ~leads
  <2>1. Entered' = Entered
    BY <1>3, <1>4, <1>5, <1>9
  <2> QED BY <1>6, <1>9, <2>1
<1> QED BY <1>7, <1>8, <1>9

(* While a line is drawn the pixels pass through the pipe to the host in order. *)
InPipe(x, a, b, c) ==
  /\ a # None => a = Picture[x]
  /\ b # None => b = Picture[x + One(a)]
  /\ c # None => c = Picture[x + (One(a) + One(b))]

LEMMA InPipeMoves ==
  ASSUME NEW x \in Nat, NEW a, NEW b, NEW c, NEW d, InPipe(x, a, b, c),
         d # None => d = Picture[x + (One(a) + (One(b) + One(c)))]
  PROVE  InPipe(x + One(a), b, c, d)
<1>1. One(a) \in Nat /\ One(b) \in Nat /\ One(c) \in Nat
  BY DEF One
<1>2. /\ (x + One(a)) + One(b) = x + (One(a) + One(b))
      /\ (x + One(a)) + (One(b) + One(c)) = x + (One(a) + (One(b) + One(c)))
  BY <1>1
<1> QED BY <1>2 DEF InPipe

(* What the pipe takes in a dot of drawing. *)
LEMMA Enters ==
  ASSUME Shapes, StripInv, RowInv, mode = "drawing", Output, Pipe
  PROVE  /\ Entered \in Nat /\ Entered <= Width /\ Entered' = Entered + One(pipe'[1])
         /\ pipe'[1] # None => pipe'[1] = Picture[Entered]
         /\ output_x >= Columns => Entered = Width /\ pipe'[1] = None
<1>1. pipe'[1] = IF sends /\ output_x < Columns THEN Head(bgr_fifo) ELSE None
  BY PipeMoves DEF Columns
<1>2. Entered \in Nat /\ Entered <= Width /\ (output_x >= Columns => Entered = Width)
  BY EnteredMoves
<1>3. CASE sends /\ output_x < Columns
  <2>1. Head(bgr_fifo) = Picture[SentAt(output_x)] /\ Head(bgr_fifo) # None
    BY <1>3, SentPixel
  <2>2. pipe'[1] = Picture[Entered] /\ pipe'[1] # None /\ Entered' = Entered + 1
    BY <1>1, <1>3, <2>1, EnteredMoves
  <2>3. One(pipe'[1]) = 1
    BY <2>2 DEF One
  <2>4. ~(output_x >= Columns)
    BY <1>3, PpuAssumption DEF Shapes, OutputShape, Columns, Lead
  <2> QED BY <1>2, <2>2, <2>3, <2>4
<1>4. CASE ~(sends /\ output_x < Columns)
  <2>1. pipe'[1] = None /\ Entered' = Entered
    BY <1>1, <1>4, EnteredMoves
  <2>2. One(pipe'[1]) = 0
    BY <2>1 DEF One
  <2> QED BY <1>2, <2>1, <2>2
<1> QED BY <1>3, <1>4

LEMMA DrawingIs ==
  ASSUME CursorInv, mode = "drawing"
  PROVE  /\ LCD_EN /\ cur_y = LY_reg /\ hsync = 1 /\ vsync = 1
         /\ cur_x \in Nat /\ cur_y \in Nat /\ first \in BOOLEAN
         /\ cur_x + (One(pipe[3]) + (One(pipe[2]) + One(pipe[1]))) = Entered
         /\ InPipe(cur_x, pipe[3], pipe[2], pipe[1])
BY DEF CursorInv, InPipe

LEMMA DecodesDrawing ==
  ASSUME Shapes, CursorInv, mode = "drawing", Pipe, Decode, hsync' = 1, vsync' = 1
  PROVE  /\ cur_x' = cur_x + One(pipe[3]) /\ cur_y' = cur_y /\ first' = first
         /\ pipe[3] = None => wrote' = wrote
         /\ pipe[3] # None /\ cur_y * Width + cur_x < Lines * Width =>
              wrote' = <<cur_y * Width + cur_x, pipe[3]>>
<1>1. ~vsync_falling /\ ~hsync_falling /\ cur_x \in Nat /\ first \in BOOLEAN
  BY DEF vsync_falling, hsync_falling, CursorInv
<1>2. pipe'[4] = pipe[3]
  BY PipeMoves
<1>3. cur_y' = cur_y /\ first' = first /\ (pipe[3] = None => wrote' = wrote)
  BY <1>1, <1>2, DecodeMoves
<1>4. ASSUME pipe[3] = None PROVE cur_x' = cur_x + One(pipe[3])
  <2>1. cur_x' = cur_x
    BY <1>1, <1>2, <1>4, DecodeMoves
  <2> QED BY <1>1, <1>4, <2>1 DEF One
<1>5. ASSUME pipe[3] # None
      PROVE  /\ cur_x' = cur_x + One(pipe[3])
             /\ cur_y * Width + cur_x < Lines * Width =>
                   wrote' = <<cur_y * Width + cur_x, pipe[3]>>
  BY <1>1, <1>2, <1>5, DecodeMoves DEF One
<1> QED BY <1>3, <1>4, <1>5

LEMMA CursorInDrawing ==
  ASSUME Shapes, StripInv, RowInv, CursorInv, mode = "drawing", Output, Pipe, Decode,
         hsync' = 1, vsync' = 1, LY_reg' = LY_reg, LCD_EN', Picture' = Picture, mode' = "drawing"
  PROVE  CursorInv'
<1>1. /\ cur_y = LY_reg /\ cur_x \in Nat /\ cur_y \in Nat /\ first \in BOOLEAN
      /\ cur_x + (One(pipe[3]) + (One(pipe[2]) + One(pipe[1]))) = Entered
      /\ InPipe(cur_x, pipe[3], pipe[2], pipe[1])
  BY DrawingIs
<1>2. cur_x' = cur_x + One(pipe[3]) /\ cur_y' = cur_y /\ first' = first
  BY DecodesDrawing
<1> DEFINE a == pipe[3]
           b == pipe[2]
           c == pipe[1]
           d == pipe'[1]
<1>3. /\ Entered \in Nat /\ Entered' = Entered + One(d)
      /\ d # None => d = Picture[Entered]
  BY Enters
<1>4. pipe'[2] = c /\ pipe'[3] = b
  BY PipeMoves
<1>5. cur_x + (One(a) + (One(b) + One(c))) = Entered /\ InPipe(cur_x, a, b, c)
      /\ cur_x' = cur_x + One(a)
  BY <1>1, <1>2
<1> HIDE DEF a, b, c, d
<1>6. InPipe(cur_x + One(a), b, c, d)
  BY <1>1, <1>3, <1>5, InPipeMoves
<1>7. One(a) \in Nat /\ One(b) \in Nat /\ One(c) \in Nat /\ One(d) \in Nat
  BY DEF One
<1>8. (cur_x + One(a)) + (One(b) + (One(c) + One(d))) = Entered' /\ cur_x + One(a) \in Nat
  BY <1>1, <1>3, <1>5, <1>7
<1>9. /\ cur_x' \in Nat /\ cur_y' \in Nat /\ first' \in BOOLEAN
      /\ LCD_EN' /\ cur_y' = LY_reg' /\ hsync' = 1 /\ vsync' = 1
  BY <1>1, <1>2, <1>5, <1>8
<1>10. cur_x' + (One(b) + (One(c) + One(d))) = Entered'
  BY <1>5, <1>8
<1>11. /\ b # None => b = Picture[cur_x']
       /\ c # None => c = Picture[cur_x' + One(b)]
       /\ d # None => d = Picture[cur_x' + (One(b) + One(c))]
  BY <1>5, <1>6 DEF InPipe
<1>12. pipe'[3] = b /\ pipe'[2] = c /\ pipe'[1] = d
  BY <1>4 DEF d
<1> QED BY <1>9, <1>10, <1>11, <1>12 DEF CursorInv, One

LEMMA PictureStays ==
  ASSUME WIN_EN' <=> WIN_EN, SCX_reg' = SCX_reg, WX_reg' = WX_reg, WY_reg' = WY_reg,
         LY_reg' = LY_reg, win_lines' = win_lines
  PROVE  Picture' = Picture
<1>1. (ShowsWindow' <=> ShowsWindow) /\ WindowLeft' = WindowLeft
  BY DEF ShowsWindow, WindowLeft
<1> QED BY <1>1 DEF Picture

(* The line that is drawn has all its columns, *)
LEMMA CursorAfterLine ==
  ASSUME Shapes, StripInv, RowInv, CursorInv, mode = "drawing", Output, Pipe, Decode,
         hsync' = 1, vsync' = 1, LY_reg' = LY_reg, LineDrawn, mode' = "hblank"
  PROVE  CursorInv' /\ wrote' = wrote /\ cur_x' = Width /\ cur_x = Width
<1>1. /\ cur_y = LY_reg /\ cur_x \in Nat /\ cur_y \in Nat /\ first \in BOOLEAN
      /\ cur_x + (One(pipe[3]) + (One(pipe[2]) + One(pipe[1]))) = Entered
  BY DrawingIs
<1>2. pipe[1] = None /\ pipe[2] = None /\ pipe[3] = None /\ output_x >= Columns
  BY DEF LineDrawn, Columns
<1>3. Entered = Width /\ pipe'[1] = None
  BY <1>2, Enters
<1>4. One(None) = 0
  BY DEF One
<1>5. cur_x + (0 + (0 + 0)) = Width
  BY <1>1, <1>2, <1>3, <1>4
<1>6. cur_x = Width
  BY <1>1, <1>5
<1>7. cur_x' = cur_x + 0 /\ cur_y' = cur_y /\ first' = first /\ wrote' = wrote
  BY <1>2, <1>4, DecodesDrawing
<1>8. cur_x' = Width
  BY <1>1, <1>6, <1>7
<1>9. pipe'[1] = None /\ pipe'[2] = None /\ pipe'[3] = None /\ pipe'[4] = None
  BY <1>2, <1>3, PipeMoves
<1>10. \A i \in 1..4 : pipe'[i] = None
  BY <1>9
<1> HIDE DEF None
<1>11. cur_x' \in Nat /\ cur_y' \in Nat /\ first' \in BOOLEAN /\ cur_y' = LY_reg'
  BY <1>1, <1>6, <1>7, <1>8
<1> QED BY <1>6, <1>7, <1>8, <1>10, <1>11 DEF CursorInv

(* and nothing of it is left in the pipe. *)
LEMMA PipeEmpty ==
  ASSUME Shapes, CursorInv, mode # "drawing", Pipe
  PROVE  pipe'[4] = None /\ \A i \in 1..4 : pipe'[i] = None
<1>1. ~sends
  BY DEF sends, Advances
<1>2. pipe[1] = None /\ pipe[2] = None /\ pipe[3] = None
  BY DEF CursorInv
<1>3. pipe'[1] = None /\ pipe'[2] = None /\ pipe'[3] = None /\ pipe'[4] = None
  BY <1>1, <1>2, PipeMoves
<1> HIDE DEF None
<1> QED BY <1>3

(* Between lines the host is at the end of one, or at the beginning of the next. *)
LEMMA CursorInHBlank ==
  ASSUME Shapes, LineInv, CursorInv, HBlankDot, Decode
  PROVE  /\ CursorInv' /\ wrote' = wrote /\ first' = first
         /\ hsync = 0 => cur_y' = cur_y /\ cur_x' = cur_x
         /\ hsync = 1 => cur_y' = cur_y + 1 /\ cur_x' = 0
<1>1. mode = "hblank" /\ Pipe /\ hsync' = 0 /\ vsync' = 1
  BY DEF HBlankDot, Sync
<1>2. /\ cur_x \in Nat /\ cur_y \in Nat /\ first \in BOOLEAN /\ vsync = 1
      /\ hsync = 0 => cur_y = LY_reg + 1 /\ cur_x = 0
      /\ hsync = 1 => cur_y = LY_reg
  BY <1>1 DEF CursorInv
<1>3. hsync \in {0, 1} /\ LY_reg \in Nat /\ Lines \in Nat
  BY PpuAssumption DEF Shapes, OutputShape, RegisterShape
<1>4. pipe'[4] = None /\ \A i \in 1..4 : pipe'[i] = None
  BY <1>1, PipeEmpty
<1> HIDE DEF None
<1>5. ~vsync_falling /\ (hsync_falling <=> hsync = 1)
  BY <1>1, <1>2 DEF vsync_falling, hsync_falling
<1>6. /\ wrote' = wrote /\ first' = first
      /\ hsync = 0 => cur_y' = cur_y /\ cur_x' = cur_x
      /\ hsync = 1 => cur_y' = cur_y + 1 /\ cur_x' = 0
  BY <1>2, <1>3, <1>4, <1>5, DecodeMoves
<1>7. cur_x' = 0 /\ cur_y' = LY_reg + 1 /\ first' \in BOOLEAN
  BY <1>2, <1>3, <1>6
<1>8. /\ mode' \in {"hblank", "oamScan", "vblank"}
      /\ mode' = "hblank" => LY_reg' = LY_reg
      /\ mode' = "oamScan" => LY_reg' = LY_reg + 1
      /\ mode' = "vblank" => LY_reg + 1 = Lines
  <2>1. CASE dot_counter = LineDots - 1
    <3>1. LY_reg' = LY_reg + 1 /\ mode' = IF LY_reg = Lines - 1 THEN "vblank" ELSE "oamScan"
      BY <2>1 DEF HBlankDot
    <3> QED BY <1>3, <3>1
  <2>2. CASE dot_counter # LineDots - 1
    BY <1>1, <2>2 DEF HBlankDot
  <2> QED BY <2>1, <2>2
<1>9. LY_reg + 1 \in Nat /\ 0 \in Nat
  BY <1>3
<1>10. CursorInv'
  BY <1>1, <1>4, <1>7, <1>8, <1>9 DEF CursorInv
<1> QED BY <1>6, <1>10

LEMMA CursorInVBlank ==
  ASSUME Shapes, CursorInv, VBlankDot, Decode
  PROVE  /\ CursorInv' /\ wrote' = wrote /\ cur_x = 0 /\ cur_y' = 0 /\ cur_x' = 0
         /\ vsync = 1 => cur_y = Lines /\ first' = FALSE
         /\ vsync = 0 => cur_y = 0 /\ first' = first
<1>1. mode = "vblank" /\ Pipe /\ hsync' = 1 /\ vsync' = 0
  BY DEF VBlankDot, Sync
<1>2. /\ cur_x = 0 /\ cur_y \in Nat /\ first \in BOOLEAN
      /\ vsync = 1 => cur_y = Lines
      /\ vsync = 0 => cur_y = 0
  BY <1>1 DEF CursorInv
<1>3. vsync \in {0, 1}
  BY DEF Shapes, OutputShape
<1>4. pipe'[4] = None /\ \A i \in 1..4 : pipe'[i] = None
  BY <1>1, PipeEmpty
<1> HIDE DEF None
<1>5. ~hsync_falling /\ (vsync_falling <=> vsync = 1)
  BY <1>1 DEF vsync_falling, hsync_falling
<1>6. wrote' = wrote
  BY <1>2, <1>4, DecodeMoves
<1>7. vsync = 1 => cur_x' = 0 /\ cur_y' = 0 /\ ~first' /\ first' \in BOOLEAN
  <2>1. SUFFICES ASSUME vsync = 1 PROVE cur_x' = 0 /\ cur_y' = 0 /\ ~first' /\ first' \in BOOLEAN
    OBVIOUS
  <2>2. cur_x' = 0 /\ cur_y' = 0 /\ ~first'
    BY <1>2, <1>4, <1>5, <2>1, DecodeMoves
  <2>3. first' \in BOOLEAN
    BY <1>2 DEF Decode
  <2> QED BY <2>2, <2>3
<1>8. vsync = 0 => cur_x' = 0 /\ cur_y' = 0 /\ first' = first
  BY <1>2, <1>4, <1>5, DecodeMoves
<1>9. cur_x' = 0 /\ cur_y' = 0 /\ first' \in BOOLEAN
  BY <1>2, <1>3, <1>7, <1>8
<1>10. mode' \in {"vblank", "oamScan"} /\ (mode' = "oamScan" => LY_reg' = 0)
  BY <1>1 DEF VBlankDot
<1>11. CursorInv'
  BY <1>1, <1>4, <1>9, <1>10 DEF CursorInv
<1> QED BY <1>2, <1>6, <1>7, <1>8, <1>9, <1>11

(* The scan leaves the host where it is. *)
LEMMA CursorInScan ==
  ASSUME Shapes, CursorInv, mode = "oamScan", Pipe, Decode, hsync' = 1, vsync' = 1,
         LY_reg' = LY_reg, LCD_EN',
         mode' \in {"oamScan", "drawing"}, mode' = "drawing" => output_x' = 0
  PROVE  /\ CursorInv' /\ wrote' = wrote /\ first' = first
         /\ cur_y' = cur_y /\ cur_x' = cur_x
<1>1. cur_x = 0 /\ cur_y = LY_reg /\ cur_y \in Nat /\ first \in BOOLEAN
  BY DEF CursorInv
<1>2. pipe'[4] = None /\ \A i \in 1..4 : pipe'[i] = None
  BY PipeEmpty
<1>3. ~vsync_falling /\ ~hsync_falling
  BY DEF vsync_falling, hsync_falling
<1>4. wrote' = wrote /\ first' = first /\ cur_y' = cur_y /\ cur_x' = cur_x
  BY <1>1, <1>2, <1>3, DecodeMoves
<1>5. pipe'[1] = None /\ pipe'[2] = None /\ pipe'[3] = None
  BY <1>2
<1>6. mode' = "drawing" => Entered' = 0
  <2>1. SUFFICES ASSUME mode' = "drawing" PROVE Entered' = 0
    OBVIOUS
  <2>2. output_x' = 0 /\ Columns \in Nat
    BY <2>1, PpuAssumption DEF Columns, Lead
  <2>3. SentAt(0) = 0 /\ ~(0 > Columns)
    BY <2>2 DEF SentAt, Lead
  <2> QED BY <2>2, <2>3 DEF Entered
<1>7. One(None) = 0
  BY DEF One
<1> HIDE DEF None
<1>8. cur_x' = 0 /\ cur_y' = LY_reg' /\ cur_y' \in Nat /\ 0 \in Nat /\ 0 + (0 + (0 + 0)) = 0
  BY <1>1, <1>4
<1>9. CASE mode' = "oamScan"
  <2>1. CursorInv'
    BY <1>1, <1>2, <1>4, <1>8, <1>9 DEF CursorInv
  <2> QED BY <1>4, <2>1
<1>10. CASE mode' = "drawing"
  <2>1. cur_x' + (One(pipe'[3]) + (One(pipe'[2]) + One(pipe'[1]))) = Entered'
    BY <1>5, <1>6, <1>7, <1>8, <1>10
  <2>2. CursorInv'
    BY <1>1, <1>4, <1>5, <1>8, <1>10, <2>1 DEF CursorInv, One
  <2> QED BY <1>4, <2>2
<1> QED BY <1>9, <1>10

(***************************************************************************)
(* Steps of the screen are steps of the raster.                            *)
(***************************************************************************)

(* Cells are counted line by line. *)
LEMMA CellIs ==
  ASSUME NEW w \in Nat \ {0}, NEW y \in Nat
  PROVE  /\ \A x \in 0..(w - 1) : (y * w + x) % w = x
         /\ (y * w + w) % w = 0 /\ (y * w + 0) % w = 0 /\ 0 * w + 0 = 0
         /\ y * w + w = (y + 1) * w + 0
         /\ \A l \in Nat, x \in 0..(w - 1) : y < l => y * w + x < l * w
<1>1. \A x \in 0..(w - 1) : (y * w + x) % w = x
  OBVIOUS
<1>2. y * w + w = (y + 1) * w + 0 /\ 0 * w + 0 = 0
  OBVIOUS
<1>3. ((y + 1) * w + 0) % w = 0 /\ (y * w + 0) % w = 0
  OBVIOUS
<1>4. \A l \in Nat, x \in 0..(w - 1) : y < l => y * w + x < l * w
  OBVIOUS
<1> QED BY <1>1, <1>2, <1>3, <1>4

(* Between lines the host is at the beginning of one. *)
LEMMA BetweenLines ==
  ASSUME Shapes, CursorInv, mode # "drawing", Width # 0
  PROVE  (cur_y * Width + cur_x) % Width = 0
<1>1. Width \in Nat \ {0} /\ cur_y \in Nat
  BY PpuAssumption DEF CursorInv
<1>2. cur_x = 0 \/ cur_x = Width
  <2>1. mode \in {"hblank", "vblank", "oamScan"} /\ hsync \in {0, 1}
    BY DEF Shapes, RegisterShape, OutputShape, Modes
  <2> QED BY <2>1 DEF CursorInv
<1>3. (cur_y * Width + Width) % Width = 0 /\ (cur_y * Width + 0) % Width = 0
  BY <1>1, CellIs
<1> QED BY <1>2, <1>3

LEMMA RasterRests ==
  ASSUME Shapes, CursorInv, mode # "drawing", Width # 0,
         cur_x' = cur_x, cur_y' = cur_y, wrote' = wrote, first' = first
  PROVE  R!Next
<1>1. (cur_y * Width + cur_x) % Width = 0
  BY BetweenLines
<1>2. R!Change
  BY <1>1 DEF R!Change
<1> QED BY <1>2 DEF R!Next

(* A pixel put: the one that leaves the pipe. *)
LEMMA RasterPuts ==
  ASSUME Shapes, LineInv, CursorInv, StripInv, RowInv, mode = "drawing", Width # 0, Output, Pipe, Decode,
         hsync' = 1, vsync' = 1, Picture' = Picture, pipe[3] # None
  PROVE  R!Next
<1>1. /\ cur_y = LY_reg /\ cur_x \in Nat /\ cur_y \in Nat
      /\ cur_x + (One(pipe[3]) + (One(pipe[2]) + One(pipe[1]))) = Entered
      /\ InPipe(cur_x, pipe[3], pipe[2], pipe[1])
  BY DrawingIs
<1>2. One(pipe[3]) = 1 /\ One(pipe[2]) \in Nat /\ One(pipe[1]) \in Nat
  BY DEF One
<1>3. Entered <= Width /\ Entered \in Nat
  BY Enters
<1>4. Width \in Nat \ {0} /\ Lines \in Nat /\ cur_y < Lines
  BY <1>1, PpuAssumption DEF LineInv
<1>5. cur_x \in 0..(Width - 1)
  BY <1>1, <1>2, <1>3, <1>4
<1>6. (cur_y * Width + cur_x) % Width = cur_x /\ cur_y * Width + cur_x < Lines * Width
  BY <1>1, <1>4, <1>5, CellIs
<1>7. pipe[3] = Picture[cur_x]
  BY <1>1 DEF InPipe
<1>8. /\ cur_x' = cur_x + 1 /\ cur_y' = cur_y /\ first' = first
      /\ wrote' = <<cur_y * Width + cur_x, Picture[cur_x]>>
  BY <1>2, <1>6, <1>7, DecodesDrawing
<1>9. cur_y' * Width + cur_x' = (cur_y * Width + cur_x) + 1
  BY <1>1, <1>4, <1>8
<1>10. cur_y * Width + cur_x < Width * Lines
  BY <1>4, <1>6
<1>11. R!Put
  BY <1>6, <1>8, <1>9, <1>10 DEF R!Put
<1> QED BY <1>11 DEF R!Next

(* A dot of drawing without one changes nothing. *)
LEMMA RasterWaits ==
  ASSUME Shapes, CursorInv, mode = "drawing", Pipe, Decode,
         hsync' = 1, vsync' = 1, Picture' = Picture, pipe[3] = None
  PROVE  UNCHANGED R!vars
<1>1. cur_x \in Nat
  BY DrawingIs
<1>2. cur_x' = cur_x + One(pipe[3]) /\ cur_y' = cur_y /\ first' = first /\ wrote' = wrote
  BY DecodesDrawing
<1>3. cur_x' = cur_x
  BY <1>1, <1>2 DEF One
<1> QED BY <1>2, <1>3 DEF R!vars

(* The end of a line. *)
LEMMA RasterEndsLine ==
  ASSUME Width # 0, cur_y \in Nat, cur_x = Width, cur_x' = Width, cur_y' = cur_y,
         wrote' = wrote, first' = first
  PROVE  R!Next
<1>1. Width \in Nat \ {0}
  BY PpuAssumption
<1>2. (cur_y * Width + cur_x) % Width = 0
  BY <1>1, CellIs
<1>3. R!Change
  BY <1>2 DEF R!Change
<1> QED BY <1>3 DEF R!Next

(* The host's line ends a dot after the line, and the first line of a reset at once. *)
LEMMA RasterHBlank ==
  ASSUME Shapes, LineInv, CursorInv, HBlankDot, Decode, Width # 0
  PROVE  R!Next
<1>1. /\ wrote' = wrote /\ first' = first
      /\ hsync = 0 => cur_y' = cur_y /\ cur_x' = cur_x
      /\ hsync = 1 => cur_y' = cur_y + 1 /\ cur_x' = 0
  BY CursorInHBlank
<1>2. mode = "hblank" /\ hsync \in {0, 1}
  BY DEF HBlankDot, Shapes, OutputShape
<1>3. CASE hsync = 0
  BY <1>1, <1>2, <1>3, RasterRests
<1>4. CASE hsync = 1
  <2>1. cur_y \in Nat /\ cur_y = LY_reg /\ (cur_x = Width \/ (cur_x = 0 /\ first /\ LY_reg = 0))
    BY <1>2, <1>4 DEF CursorInv
  <2>2. Width \in Nat \ {0}
    BY PpuAssumption
  <2>3. cur_y' * Width + cur_x' = (cur_y + 1) * Width + 0
    BY <1>1, <1>4
  <2>4. CASE cur_x = Width
    <3>1. cur_y' * Width + cur_x' = cur_y * Width + cur_x
      BY <2>1, <2>2, <2>3, <2>4, CellIs
    <3>2. (cur_y * Width + cur_x) % Width = 0
      BY <1>2, BetweenLines
    <3>3. R!Change
      BY <1>1, <3>1, <3>2 DEF R!Change
    <3> QED BY <3>3 DEF R!Next
  <2>5. CASE cur_x = 0 /\ first /\ LY_reg = 0
    <3>1. cur_y * Width + cur_x = 0 /\ (cur_y + 1) * Width + 0 = Width
      BY <2>1, <2>2, <2>5
    <3>2. R!SkipLine
      BY <1>1, <2>3, <2>5, <3>1 DEF R!SkipLine
    <3> QED BY <3>2 DEF R!Next
  <2> QED BY <2>1, <2>4, <2>5
<1> QED BY <1>2, <1>3, <1>4

(* A frame is presented on the first dot of vblank. *)
LEMMA RasterVBlank ==
  ASSUME Shapes, CursorInv, VBlankDot, Decode, Width # 0
  PROVE  R!Next
<1>1. /\ wrote' = wrote /\ cur_x = 0 /\ cur_y' = 0 /\ cur_x' = 0
      /\ vsync = 1 => cur_y = Lines /\ first' = FALSE
      /\ vsync = 0 => cur_y = 0 /\ first' = first
  BY CursorInVBlank
<1>2. mode = "vblank" /\ vsync \in {0, 1} /\ Width \in Nat \ {0} /\ Lines \in Nat
  BY PpuAssumption DEF VBlankDot, Shapes, OutputShape
<1>3. CASE vsync = 0
  <2>1. cur_y' = cur_y /\ cur_x' = cur_x /\ first' = first
    BY <1>1, <1>3
  <2> QED BY <1>1, <1>2, <2>1, RasterRests
<1>4. CASE vsync = 1
  <2>1. cur_y * Width + cur_x = Width * Lines /\ cur_y' * Width + cur_x' = 0
    BY <1>1, <1>2, <1>4
  <2>2. R!Present
    BY <1>1, <1>4, <2>1 DEF R!Present
  <2> QED BY <2>2 DEF R!Next
<1> QED BY <1>2, <1>3, <1>4

ScreenInv == RegistersFit /\ (mode = "drawing" => StripInv) /\ RowInv /\ CursorInv

(* A dot of drawing puts the pixel that leaves the pipe, or none. *)
LEMMA DrawDotOnScreen ==
  ASSUME Width # 0, LineIInv, ScreenInv, DrawDot, Decode, WindowCounted
  PROVE  ScreenInv' /\ (R!Next \/ UNCHANGED R!vars)
<1>1. /\ Shapes /\ DrawInv /\ LineInv /\ RegistersFit /\ RowInv /\ CursorInv
      /\ mode = "drawing" /\ StripInv
  BY DEF LineIInv, ScreenInv, DrawDot
<1>2. /\ Output /\ Fetch /\ Pipe /\ hsync' = 1 /\ vsync' = 1
      /\ mode' = IF LineDrawn THEN "hblank" ELSE "drawing"
      /\ (LCD_EN' <=> LCD_EN) /\ LY_reg' = LY_reg
      /\ SCX_reg' = SCX_reg /\ WX_reg' = WX_reg /\ WY_reg' = WY_reg /\ (WIN_EN' <=> WIN_EN)
  BY DEF DrawDot, Sync, registers
<1>3. FifosGoOn
  BY DEF DrawDot, FifosGoOn
<1>4. RegistersFit'
  BY <1>1, <1>2 DEF RegistersFit
<1>5. LCD_EN
  BY <1>1, DrawingIs
<1>6. CASE ~LineDrawn
  <2>1. mode' = "drawing" /\ win_lines' = win_lines
    BY <1>1, <1>2, <1>6, WindowCounts
  <2>2. Picture' = Picture
    BY <1>2, <2>1, PictureStays
  <2>3. StripInv'
    BY <1>1, <1>2, <1>3, StripKept
  <2>4. RowInv'
    BY <1>1, <1>2, <1>6, <2>1, RowsInDrawing
  <2>5. CursorInv'
    BY <1>1, <1>2, <1>5, <2>1, <2>2, CursorInDrawing
  <2>6. CASE pipe[3] # None
    BY <1>1, <1>2, <1>4, <2>2, <2>3, <2>4, <2>5, <2>6, RasterPuts DEF ScreenInv
  <2>7. CASE pipe[3] = None
    BY <1>1, <1>2, <1>4, <2>2, <2>3, <2>4, <2>5, <2>7, RasterWaits DEF ScreenInv
  <2> QED BY <2>6, <2>7
<1>7. CASE LineDrawn
  <2>1. mode' = "hblank"
    BY <1>2, <1>7
  <2>2. RowInv'
    BY <1>1, <1>2, <1>7, <2>1, RowsAfterLine
  <2>3. CursorInv' /\ wrote' = wrote /\ cur_x' = Width /\ cur_x = Width
    BY <1>1, <1>2, <1>7, <2>1, CursorAfterLine
  <2>4. cur_y' = cur_y /\ first' = first /\ cur_y \in Nat
    BY <1>1, <1>2, DecodesDrawing, DrawingIs
  <2>5. R!Next
    BY <2>3, <2>4, RasterEndsLine
  <2>6. mode' # "drawing"
    BY <2>1
  <2> QED BY <1>4, <2>2, <2>3, <2>5, <2>6 DEF ScreenInv
<1> QED BY <1>6, <1>7

(* The scan and the start of a line leave the screen as it is, *)
LEMMA ScanOnScreen ==
  ASSUME Width # 0, LineIInv, ScreenInv, ScanDot \/ StartDrawing, LCD_EN, LCD_EN' <=> LCD_EN,
         Decode, WindowCounted
  PROVE  ScreenInv' /\ R!Next
<1>1. Shapes /\ RegistersFit /\ RowInv /\ CursorInv
  BY DEF LineIInv, ScreenInv
<1>2. /\ mode = "oamScan" /\ Pipe /\ hsync' = 1 /\ vsync' = 1 /\ LY_reg' = LY_reg
      /\ WX_reg' = WX_reg /\ SCX_reg' = SCX_reg /\ (WIN_EN' <=> WIN_EN)
      /\ win_y' = win_y /\ (win_y_cond' <=> win_y_cond)
  <2>1. CASE ScanDot
    BY <2>1 DEF ScanDot, Sync, Idle, registers, window
  <2>2. CASE StartDrawing
    BY <2>2 DEF StartDrawing, Sync, registers
  <2> QED BY <2>1, <2>2
<1>3. \/ mode' = "oamScan"
      \/ mode' = "drawing" /\ StripInv' /\ Base' = "bgr" /\ output_x' = 0
  <2>1. CASE ScanDot
    BY <1>2, <2>1 DEF ScanDot
  <2>2. CASE StartDrawing
    <3>1. mode' = "drawing"
      BY <2>2 DEF StartDrawing
    <3> QED BY <1>1, <2>2, <3>1, StripStarts
  <2> QED BY <2>1, <2>2
<1>4. win_lines' = win_lines /\ WX_reg' \in Nat
  BY <1>1, <1>2, WindowCounts DEF Shapes, RegisterShape
<1>5. RegistersFit'
  BY <1>1, <1>2 DEF RegistersFit
<1>6. RowInv'
  BY <1>1, <1>2, <1>3, <1>4, RowsRest
<1>7. CursorInv' /\ wrote' = wrote /\ first' = first /\ cur_y' = cur_y /\ cur_x' = cur_x
  BY <1>1, <1>2, <1>3, CursorInScan
<1>8. R!Next
  BY <1>1, <1>2, <1>7, RasterRests
<1>9. mode' = "drawing" => StripInv'
  BY <1>3
<1> QED BY <1>5, <1>6, <1>7, <1>8, <1>9 DEF ScreenInv

LEMMA HBlankOnScreen ==
  ASSUME Width # 0, LineIInv, ScreenInv, HBlankDot, Decode, WindowCounted
  PROVE  ScreenInv' /\ R!Next
<1>1. Shapes /\ LineInv /\ RegistersFit /\ RowInv /\ CursorInv
  BY DEF LineIInv, ScreenInv
<1>2. /\ mode = "hblank" /\ WX_reg' = WX_reg /\ SCX_reg' = SCX_reg /\ (WIN_EN' <=> WIN_EN)
      /\ win_y' = win_y /\ (win_y_cond' <=> win_y_cond)
  BY DEF HBlankDot, Idle, registers, window
<1>3. mode' # "drawing"
  <2>1. CASE dot_counter = LineDots - 1
    BY <2>1 DEF HBlankDot
  <2>2. CASE dot_counter # LineDots - 1
    BY <1>2, <2>2 DEF HBlankDot
  <2> QED BY <2>1, <2>2
<1>4. win_lines' = win_lines
  BY <1>2, WindowCounts
<1>5. RegistersFit'
  BY <1>1, <1>2 DEF RegistersFit
<1>6. RowInv'
  BY <1>1, <1>2, <1>3, <1>4, RowsRest
<1>7. CursorInv' /\ R!Next
  BY <1>1, CursorInHBlank, RasterHBlank
<1> QED BY <1>3, <1>5, <1>6, <1>7 DEF ScreenInv

LEMMA VBlankOnScreen ==
  ASSUME Width # 0, LineIInv, ScreenInv, VBlankDot, Decode, WindowCounted
  PROVE  ScreenInv' /\ R!Next
<1>1. Shapes /\ RegistersFit /\ RowInv /\ CursorInv
  BY DEF LineIInv, ScreenInv
<1>2. mode = "vblank" /\ WX_reg' = WX_reg /\ SCX_reg' = SCX_reg /\ (WIN_EN' <=> WIN_EN)
  BY DEF VBlankDot, registers
<1>3. mode' \in {"vblank", "oamScan"} /\ (mode' = "oamScan" => ~win_y_cond')
  <2>1. CASE dot_counter = LineDots - 1 /\ LY_reg = AllLines - 1
    BY <2>1 DEF VBlankDot
  <2>2. CASE ~(dot_counter = LineDots - 1 /\ LY_reg = AllLines - 1)
    BY <1>2, <2>2 DEF VBlankDot
  <2> QED BY <2>1, <2>2
<1>4. win_lines' = 0
  BY <1>2, WindowCounts
<1>5. RegistersFit'
  BY <1>1, <1>2 DEF RegistersFit
<1>6. RowInv' /\ mode' # "drawing"
  BY <1>2, <1>3, <1>4, RowsOfFrame
<1>7. CursorInv' /\ R!Next
  BY <1>1, CursorInVBlank, RasterVBlank
<1> QED BY <1>5, <1>6, <1>7 DEF ScreenInv

(* and so does a PPU without dots, between lines. *)
LEMMA FrozenOnScreen ==
  ASSUME CarefulWithLCD, LineIInv, ScreenInv, Frozen, UNCHANGED win_lines, Decode
  PROVE  ScreenInv' /\ R!Next
<1>1. Shapes /\ RegistersFit /\ RowInv /\ CursorInv /\ Width # 0
  BY DEF LineIInv, ScreenInv, CarefulWithLCD
<1>2. mode # "drawing"
  <2>1. mode = "drawing" => LCD_EN
    BY <1>1, DrawingIs
  <2>2. LCD_EN => mode # "drawing"
    BY DEF CarefulWithLCD, Frozen
  <2> QED BY <2>1, <2>2
<1>3. /\ mode' = mode /\ LY_reg' = LY_reg /\ pipe' = pipe /\ hsync' = hsync /\ vsync' = vsync
      /\ WX_reg' = WX_reg /\ SCX_reg' = SCX_reg /\ (WIN_EN' <=> WIN_EN)
      /\ win_y' = win_y /\ (win_y_cond' <=> win_y_cond)
  BY DEF Frozen, vars, registers, window
<1>4. pipe'[4] = None /\ first \in BOOLEAN
  BY <1>1, <1>2, <1>3 DEF CursorInv
<1>5. ~vsync_falling /\ ~hsync_falling
  BY <1>3 DEF vsync_falling, hsync_falling
<1>6. wrote' = wrote /\ first' = first /\ cur_y' = cur_y /\ cur_x' = cur_x
  BY <1>4, <1>5, DecodeMoves
<1>7. CursorInv'
  BY <1>1, <1>2, <1>3, <1>6 DEF CursorInv
<1>8. R!Next
  BY <1>1, <1>2, <1>6, RasterRests
<1>9. RowInv'
  <2>1. RowsFollow' <=> RowsFollow
    BY <1>3 DEF RowsFollow
  <2> QED BY <1>1, <1>2, <1>3, <2>1 DEF RowInv
<1>10. RegistersFit'
  BY <1>1, <1>3 DEF RegistersFit
<1>11. mode' # "drawing"
  BY <1>2, <1>3
<1> QED BY <1>7, <1>8, <1>9, <1>10, <1>11 DEF ScreenInv

(* The program's writes come between lines. *)
LEMMA WritesOnScreen ==
  ASSUME CarefulWithLCD, LineIInv, ScreenInv, WriteRegisters \/ SwitchLCD, UNCHANGED screen
  PROVE  ScreenInv' /\ R!Next
<1>1. Shapes /\ RegistersFit /\ RowInv /\ CursorInv /\ Width # 0
  BY DEF LineIInv, ScreenInv, CarefulWithLCD
<1>2. mode # "drawing" /\ mode' = mode
  <2>1. CASE WriteRegisters
    BY <2>1 DEF WriteRegisters
  <2>2. CASE SwitchLCD
    <3>1. mode' = mode /\ (LCD_EN => mode \in OffModes)
      BY <2>2 DEF SwitchLCD
    <3>2. mode = "drawing" => LCD_EN
      BY <1>1, DrawingIs
    <3> QED BY <3>1, <3>2 DEF CarefulWithLCD
  <2> QED BY <2>1, <2>2
<1>3. /\ LY_reg' = LY_reg /\ pipe' = pipe /\ hsync' = hsync /\ vsync' = vsync
      /\ win_y' = win_y /\ (win_y_cond' <=> win_y_cond)
  <2>1. CASE WriteRegisters
    BY <2>1 DEF WriteRegisters, window
  <2>2. CASE SwitchLCD
    BY <2>2 DEF SwitchLCD, window
  <2> QED BY <2>1, <2>2
<1>4. /\ cur_x' = cur_x /\ cur_y' = cur_y /\ wrote' = wrote /\ first' = first
      /\ win_lines' = win_lines
  BY DEF screen
<1>5. RegistersFit'
  <2>1. CASE WriteRegisters
    <3>1. PICK s \in Settings :
            SCX_reg' = s.SCX /\ WX_reg' = s.WX /\ WIN_EN' = s.WIN_EN
      BY <2>1 DEF WriteRegisters
    <3>2. Fits(s)
      BY DEF CarefulWithLCD
    <3> QED BY <3>1, <3>2 DEF Fits, RegistersFit
  <2>2. CASE SwitchLCD
    <3>1. SCX_reg' = SCX_reg /\ WX_reg' = WX_reg /\ WIN_EN' = WIN_EN
      BY <2>2 DEF SwitchLCD, registers
    <3> QED BY <1>1, <3>1 DEF RegistersFit
  <2> QED BY <2>1, <2>2
<1>6. RowInv'
  <2>1. RowsFollow' <=> RowsFollow
    BY <1>3, <1>4 DEF RowsFollow
  <2> QED BY <1>1, <1>2, <1>4, <2>1 DEF RowInv
<1>7. CursorInv'
  BY <1>1, <1>2, <1>3, <1>4 DEF CursorInv
<1>8. R!Next
  BY <1>1, <1>2, <1>4, RasterRests
<1> QED BY <1>2, <1>5, <1>6, <1>7, <1>8 DEF ScreenInv

LEMMA ScreenInit ==
  ASSUME SInit
  PROVE  ScreenInv /\ R!Init
<1>1. /\ WIN_EN = FALSE /\ mode = "hblank" /\ LY_reg = 0 /\ win_y_cond = FALSE
      /\ pipe = [i \in 1..4 |-> None] /\ hsync = 1 /\ vsync = 1
      /\ cur_x = 0 /\ cur_y = 0 /\ first = TRUE /\ win_lines = 0
  BY DEF SInit, Init
<1>2. \A i \in 1..4 : pipe[i] = None
  BY <1>1
<1> HIDE DEF None
<1>3. CursorInv
  BY <1>1, <1>2 DEF CursorInv
<1>4. RegistersFit
  BY <1>1 DEF RegistersFit
<1>5. RowInv
  BY <1>1 DEF RowInv, RowsFollow
<1>6. R!Init
  <2>1. cur_y * Width + cur_x = 0
    BY <1>1, PpuAssumption
  <2> QED BY <1>1, <2>1 DEF R!Init
<1>7. mode # "drawing"
  BY <1>1
<1> QED BY <1>3, <1>4, <1>5, <1>6, <1>7 DEF ScreenInv

(* The host's frames are those of the raster, for any screen and any objects: every
   cell written once, in order, and with the pixel that belongs there, as long as
   the program places the window, switches the LCD off and stops as CarefulWithLCD says
   (PPU.v:840-1100, main.cpp:596-686). *)
THEOREM RefinesRaster == CarefulWithLCD => (SSpec => ImplementsRaster)
<1> SUFFICES ASSUME CarefulWithLCD PROVE SSpec => ImplementsRaster
  OBVIOUS
<1>1. SInit => ScreenInv /\ R!Init
  BY ScreenInit
<1>2. LineIInv /\ ScreenInv /\ [SNext]_allvars => ScreenInv' /\ [R!Next]_(R!vars)
  <2>1. SUFFICES ASSUME LineIInv, ScreenInv, [SNext]_allvars
                 PROVE  ScreenInv' /\ (R!Next \/ UNCHANGED R!vars)
    OBVIOUS
  <2>2. Width # 0
    BY DEF CarefulWithLCD
  <2>3. CASE Cycle
    <3>1. Decode /\ ((Dot /\ WindowCounted) \/ (Frozen /\ UNCHANGED win_lines))
      BY <2>3 DEF Cycle, WindowCounted
    <3>2. CASE Frozen /\ UNCHANGED win_lines
      BY <2>1, <3>1, <3>2, FrozenOnScreen
    <3>3. CASE Dot /\ WindowCounted
      <4>1. CASE DrawDot
        BY <2>1, <2>2, <3>1, <3>3, <4>1, DrawDotOnScreen
      <4>2. CASE ScanDot
        <5>1. LCD_EN /\ LCD_EN' = LCD_EN
          BY <3>3, <4>2 DEF Dot, ScanDot, Idle
        <5> QED BY <2>1, <2>2, <3>1, <3>3, <4>2, <5>1, ScanOnScreen
      <4>3. CASE StartDrawing
        <5>1. LCD_EN /\ LCD_EN' = LCD_EN
          BY <3>3, <4>3 DEF Dot, StartDrawing
        <5> QED BY <2>1, <2>2, <3>1, <3>3, <4>3, <5>1, ScanOnScreen
      <4>4. CASE HBlankDot
        BY <2>1, <2>2, <3>1, <3>3, <4>4, HBlankOnScreen
      <4>5. CASE VBlankDot
        BY <2>1, <2>2, <3>1, <3>3, <4>5, VBlankOnScreen
      <4> QED BY <3>3, <4>1, <4>2, <4>3, <4>4, <4>5 DEF Dot
    <3> QED BY <3>1, <3>2, <3>3
  <2>4. CASE (WriteRegisters \/ SwitchLCD) /\ UNCHANGED screen
    BY <2>1, <2>4, WritesOnScreen
  <2>5. CASE UNCHANGED allvars
    <3>1. UNCHANGED vars /\ UNCHANGED screen
      BY <2>5 DEF allvars
    <3>2. ScreenInv' /\ UNCHANGED R!vars
      <4>1. Picture' = Picture
        BY <3>1, PictureStays DEF vars, registers, screen
      <4>2. UNCHANGED R!vars
        BY <3>1, <4>1 DEF R!vars, screen
      <4>3. ScreenInv'
        BY <2>1, <3>1 DEF vars, registers, scan, fetcher, window, fifos, output, objects, screen,
                          ScreenInv, RegistersFit, StripInv, RowInv, CursorInv, Taken, Brought,
                          NextTile, Row, Base, Due, Fetching, RowsFollow, ShowsWindow, WindowLeft,
                          Picture, Entered, obj_state, layer
      <4> QED BY <4>2, <4>3
    <3> QED BY <3>2
  <2> QED BY <2>1, <2>3, <2>4, <2>5 DEF SNext
<1>3. SInit => Init
  BY DEF SInit
<1>4. [SNext]_allvars => [Next]_vars
  BY DEF SNext, Cycle, Frozen, Next, allvars
<1>5. SSpec => Spec
  BY <1>3, <1>4, PTL DEF SSpec, Spec
<1> QED BY <1>1, <1>2, <1>5, LinesAreDrawn, PTL DEF SSpec, ImplementsRaster, R!Spec
=============================================================================
