----------------------------- MODULE MC_Objects -----------------------------
(* One line of Ppu with two objects anywhere on it. *)
EXTENDS Ppu

Setting(scx, win, obj, opri) ==
  [SCX |-> scx, WX |-> 11, WY |-> 0, WIN_EN |-> win, OBJ_EN |-> obj, OPRI |-> opri]

MCSettings == {Setting(0, FALSE, TRUE, 0), Setting(7, FALSE, TRUE, 1), Setting(2, TRUE, TRUE, 0),
               Setting(2, TRUE, TRUE, 1), Setting(3, TRUE, FALSE, 0)}

(* The window one column in from the edge, the background scrolled. *)
EdgeSettings == {[SCX |-> 2, WX |-> 8, WY |-> 0, WIN_EN |-> TRUE, OBJ_EN |-> TRUE, OPRI |-> 0]}

MCPatterns == {1..8, {2, 5, 7}}
=============================================================================
