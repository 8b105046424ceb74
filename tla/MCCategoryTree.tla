--------------------------- MODULE MCCategoryTree ---------------------------
(***************************************************************************)
(* CategoryHistory for TLC.  Requests are compared only for equality, so   *)
(* permuting them is sound.                                                *)
(***************************************************************************)
EXTENDS CategoryHistory, TLC

Symmetry == Permutations(Request)
=============================================================================
