--------------------------- MODULE MCEditHistory ---------------------------
(***************************************************************************)
(* EditHistory for TLC.  Requests and labels are compared only for         *)
(* equality, so permuting them is sound for the safety run.                *)
(***************************************************************************)
EXTENDS EditHistory, TLC

Symmetry == Permutations(Request) \cup Permutations(Label) \cup Permutations(GroupLabel)
            \cup Permutations(Address)
=============================================================================
