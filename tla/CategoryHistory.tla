-------------------------- MODULE CategoryHistory --------------------------
(***************************************************************************)
(* CategoryTree with a history variable: which categories were made below  *)
(* one that a deletion had matched and not yet erased.  It changes nothing *)
(* of what CategoryTree does; it is what a property needs to say which     *)
(* categories overlapping requests may leave out of sight.                 *)
(***************************************************************************)
EXTENDS CategoryTree

VARIABLE late  \* the categories made below one that was being deleted

BeingDeleted == UNION {req[r].gone : r \in Request}

Record == late' = late \cup {c \in Exists' \ Exists : up'[c] \in BeingDeleted}

HistoryInit == Init /\ late = {}
HistoryNext == Next /\ Record

HistorySpec == HistoryInit /\ [][HistoryNext]_<<vars, late>>

---------------------------------------------------------------------------
\* Whatever is created and deleted side by side, GET /category shows every category
\* there is, but for those at and below one whose parent was being deleted as it was
\* made.  No deletion alone cuts a category off, and none lies too deep to be followed.
OnlyLateCategoriesAreHidden ==
    \A c \in Exists \ Shown : \E d \in late \cap Exists : up[d] = None /\ c \in Within(d, Hops)
=============================================================================
