----------------------------- MODULE MC_Screen -----------------------------
(* Small instances of Screen: ten columns and two lines, so that a line meets the
   scroll, the window at each place of interest and an object everywhere. *)
EXTENDS Screen

Setting(scx, wx, wy, win, obj) ==
  [SCX |-> scx, WX |-> wx, WY |-> wy, WIN_EN |-> win, OBJ_EN |-> obj, OPRI |-> 0]

(* Scrolled by nothing, by part of a tile, and round the end of the map; the
   window at the left edge, hidden behind it, in the middle and at the right. *)
MCSettings ==
  {Setting(scx, 0, 0, FALSE, TRUE) : scx \in {0, 5, 252}}
    \union {Setting(scx, wx, wy, TRUE, TRUE) : scx \in {0, 7}, wx \in {3, 7, 12, 16, 255}, wy \in {0, 1}}
    \union {Setting(3, 9, 1, TRUE, FALSE)}

MCPatterns == {1..8}
=============================================================================
