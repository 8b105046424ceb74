---------------------------- MODULE EditHistory ----------------------------
(***************************************************************************)
(* UserWorkspace with the updates remembered that overlapped another       *)
(* update of the same account or address book between their MATCH and      *)
(* their write: what each of the two deletes is what it found itself.      *)
(***************************************************************************)
EXTENDS UserWorkspace

VARIABLE overlapped  \* updates that overlapped another

editVars == <<vars, overlapped>>

\* An update has matched its account or address book and not written it.
Between(r) == req[r].op \in {"updateAccount", "updateBook"} /\ req[r].pc \in {"matched", "set"}

Rivals(r) == {q \in Request \ {r} : Between(r) /\ Between(q) /\ req[q].id = req[r].id}

Record == overlapped' = overlapped \cup {r \in Request : Rivals(r)' # {}}

EditInit == Init /\ overlapped = {}

EditNext == ApartNext /\ Record

EditSpec == EditInit /\ [][EditNext]_editVars

---------------------------------------------------------------------------
\* An account has the tags of the request that wrote it last, its group and its address
\* book if they are still there, though the delete of an update that overlapped it runs
\* on what that one had found before; and it has nothing else, unless the request did
\* overlap another update.
AccountAsWritten ==
    \A a \in DOMAIN accounts :
        LET w == req[accounts[a].data]
            labels == Labels(a)
            groupIds == {x[2].id : x \in {y \in inGroup : y[1] = a}}
            bookIds == {x[1] : x \in {y \in bookOf : y[2] = a}}
            group == {w.group} \cap {g.id : g \in DOMAIN groups}
            book == {w.book} \cap DOMAIN books
        IN  /\ w.tags \subseteq labels /\ group \subseteq groupIds /\ book \subseteq bookIds
            /\ accounts[a].data \notin overlapped =>
                   labels = w.tags /\ groupIds = group /\ bookIds = book

\* An address book has the tags of the request that wrote it last and no others, unless
\* that request overlapped another update of it.
BookAsWritten ==
    \A b \in DOMAIN books : books[b] \notin overlapped => Labels(b) = req[books[b]].tags
=============================================================================
