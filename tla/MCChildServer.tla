--------------------------- MODULE MCChildServer ---------------------------
(* Two incarnations, the least with which one can be replaced by another    *)
(* and its late report can meet the replacement.  They differ in nothing,   *)
(* so that it is enough to spawn them in one order.                         *)
EXTENDS ChildServer

CONSTANTS i1, i2

MCInc == {i1, i2}
MCOrder == stage[i1] = "unborn" => stage[i2] = "unborn"
=============================================================================
