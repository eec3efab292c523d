------------------------------ MODULE PageCopy ------------------------------
(***************************************************************************)
(* What OAM DMA promises: a copy of a page into OAM that is seen as one    *)
(* step, at its end.  A copy may be asked for while one is made, and then  *)
(* replaces it.  Meanwhile OAM cannot be seen, and once the copy has begun *)
(* the memory on the bus of the page stays as it is.                       *)
(***************************************************************************)
CONSTANTS Buses, Cells, Bytes

VARIABLES
  page,       \* the bus of the page asked for, or "no"
  begun,      \* its copy has begun
  mem,        \* bus -> cell -> byte
  oam         \* cell -> byte, or Hidden

vars == <<page, begun, mem, oam>>

Hidden == <<>>

Init == page = "no" /\ begun = FALSE

Ask ==
  /\ page' \in Buses /\ oam' = Hidden /\ begun' \in {begun, FALSE}

Begin ==
  /\ page # "no" /\ begun' = TRUE
  /\ UNCHANGED <<page, oam>>

Finish ==
  /\ begun /\ begun' = FALSE
  /\ oam' = mem[page] /\ page' = "no"

WriteOam ==
  /\ page = "no"
  /\ \E c \in Cells, v \in Bytes : oam' = [oam EXCEPT ![c] = v]
  /\ UNCHANGED <<page, begun>>

WriteMem ==
  \E b \in Buses, c \in Cells, v \in Bytes :
    /\ b = page => ~begun
    /\ mem' = [mem EXCEPT ![b][c] = v]

(* Memory may be written on any dot. *)
Next == /\ Ask \/ Begin \/ Finish \/ WriteOam \/ UNCHANGED <<page, begun, oam>>
        /\ WriteMem \/ UNCHANGED mem

Spec == Init /\ [][Next]_vars
=============================================================================
