---------------------------- MODULE MCPortfolio ----------------------------
(***************************************************************************)
(* Portfolio for TLC.  Requests and addresses are compared only for        *)
(* equality, so permuting them is sound for the safety run.                *)
(***************************************************************************)
EXTENDS Portfolio, TLC

Symmetry == Permutations(Request) \cup Permutations(Address)
=============================================================================
