----------------------------- MODULE MC_Upstream -----------------------------
(***************************************************************************)
(* A payload of ten bytes, which like that of 106 holds one byte more than  *)
(* a whole number of neighbours.                                           *)
(***************************************************************************)
EXTENDS Upstream

FourNeighbors == {1, 2, 258, 771}
=============================================================================
