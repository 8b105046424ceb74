------------------------------ MODULE Registry ------------------------------
(***************************************************************************)
(* Sign-in, tags and groups: AuthService.signIn, TagService.mergeTag and   *)
(* GroupService of the API.  Each looks for what it is about to make, or   *)
(* to change, in a query of its own.                                       *)
(***************************************************************************)
EXTENDS Workspace

\* Mutant: every sign-in creates.
SignInUnchecked(r) ==
    "signIn" \in Ops /\ Begin(r, [Blank EXCEPT !.op = "signIn"], "write")

\* MATCH (n:user {publicKey}) RETURN n
SignIn(r) ==
    /\ "signIn" \in Ops
    /\ Begin(r, [Blank EXCEPT !.op = "signIn"], IF users = {} THEN "write" ELSE "done")

CreateUser(r) ==
    /\ req[r].op = "signIn" /\ req[r].pc = "write"
    /\ users' = users \cup {r}
    /\ End(r, "done")
    /\ UNCHANGED <<tags, tagged, groups, inGroup, bookVars>>

MergeTag(r) == \E args \in Calls("mergeTag"), label \in Label :
    Begin(r, [args EXCEPT !.label = label],
          IF \E t \in tags : t.label = label THEN "done" ELSE "write")

CreateTag(r) ==
    /\ req[r].op = "mergeTag" /\ req[r].pc = "write"
    /\ tags' = tags \cup {[by |-> r, label |-> req[r].label]}
    /\ End(r, "done")
    /\ UNCHANGED <<registryVars, tagged, bookVars>>

\* Mutant: the group is merged without a look at what there is.
MergeGroupUnchecked(r) == \E args \in Calls("mergeGroup"), label \in GroupLabel :
    Begin(r, [args EXCEPT !.label = label], "write")

MergeGroup(r) == \E args \in Calls("mergeGroup"), label \in GroupLabel :
    Begin(r, [args EXCEPT !.label = label],
          IF \E g \in DOMAIN groups : groups[g] = label THEN "done" ELSE "write")

\* MATCH (u:user {publicKey}) MERGE (u)-[:HAS_GROUP]->(t:group {label, id})
CreateGroup(r) ==
    /\ req[r].op = "mergeGroup" /\ req[r].pc = "write"
    /\ LET new == [id : {r}, owner : users]
       IN  groups' = [g \in DOMAIN groups \cup new |->
                         IF g \in new THEN req[r].label ELSE groups[g]]
    /\ End(r, "done")
    /\ UNCHANGED <<users, inGroup, tags, tagged, bookVars>>

GroupsOf(id) == {g \in DOMAIN groups : g.id = id}

\* PUT /group and DELETE /group/:id look for the group.
FindGroup(r) == \E id \in Made("mergeGroup"), label \in GroupLabel :
    \E args \in Calls("updateGroup") \cup Calls("deleteGroup") :
        Begin(r, [args EXCEPT !.id = id, !.label = label],
              IF GroupsOf(id) = {} THEN "failed" ELSE "write")

UpdateGroup(r) ==
    /\ req[r].op = "updateGroup" /\ req[r].pc = "write"
    /\ groups' = [g \in DOMAIN groups |-> IF g.id = req[r].id THEN req[r].label ELSE groups[g]]
    /\ End(r, "done")
    /\ UNCHANGED <<users, inGroup, tags, tagged, bookVars>>

DeleteGroup(r) ==
    /\ req[r].op = "deleteGroup" /\ req[r].pc = "write"
    /\ groups' = Restrict(groups, DOMAIN groups \ GroupsOf(req[r].id))
    /\ inGroup' = {x \in inGroup : x[2].id # req[r].id}
    /\ End(r, "done")
    /\ UNCHANGED <<users, tags, tagged, bookVars>>

RegistryStep(r) ==
    \/ CreateUser(r) \/ MergeTag(r) \/ CreateTag(r)
    \/ MergeGroup(r) \/ CreateGroup(r) \/ FindGroup(r) \/ UpdateGroup(r) \/ DeleteGroup(r)
=============================================================================
