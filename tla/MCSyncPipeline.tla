--------------------------- MODULE MCSyncPipeline ---------------------------
(***************************************************************************)
(* SyncPipeline for TLC.  Requests, collectors and keepers are compared    *)
(* only for equality, so permuting them is sound for the safety runs.      *)
(***************************************************************************)
EXTENDS SyncRefinement, TLC

Symmetry == Permutations(Request) \cup Permutations(Collectors) \cup Permutations(Keepers)

\* For the liveness run, whose requests are numbers: they start in their order.  Which
\* name a request goes by is arbitrary and no fairness is assumed of its start, so every
\* behaviour has one of these as its image under a permutation.
InOrder == \A r \in Request : req[r].pc # "new" => \A q \in 1 .. r : req[q].pc # "new"

OrderedCalmNext == CalmNext /\ InOrder'

FairOrderedCalmSpec == Init /\ [][OrderedCalmNext]_vars /\ Fairness
=============================================================================
