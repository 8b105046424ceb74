---------------------------- MODULE CategoryTree ----------------------------
(***************************************************************************)
(* CategoryService of the API (apps/api/src/category/category.service.ts): *)
(* the tree of categories under one user.  A request runs one or two       *)
(* queries, a check and a write, and other requests run in between.  Neo4j *)
(* reads committed data without locks, so a write that follows paths is    *)
(* two actions: what it matches, and what it writes of that when others    *)
(* may have written since.  A category made by POST /category is named by  *)
(* its request, a root by the request that initialised the tree and its    *)
(* place in the order.                                                     *)
(***************************************************************************)
EXTENDS Integers, FiniteSets, Functions

CONSTANTS
    Request,  \* the API requests of a behaviour
    User,     \* the user node
    None,     \* absence of an order, a target, a parent, a label of a client
    Order,    \* places of the root categories: "1", "2" and "3" in the code
    Hops      \* longest path of HAS_CATEGORY a query follows: 5 in the code

Category == [by : Request, order : Order \cup {None}]

ASSUME CategoryAssumption ==
    /\ None \notin Request \cup Order \cup Category /\ User \notin Category \cup {None}
    /\ Hops \in Nat \ {0}

VARIABLES
    up,     \* category |-> the node whose HAS_CATEGORY points at it, None if none does
    label,  \* category |-> the request that labelled it, None for an initial label
    req     \* request |-> its next step, the category it is about, what it is deleting

vars == <<up, label, req>>

Step == {"new", "init", "create", "update", "set", "delete", "erase", "done", "failed"}

Exists == DOMAIN up
Roots == {c \in Exists : up[c] = User}

\* MATCH (x)-[:HAS_CATEGORY*0..n]->(c:category)
Within(x, n) ==
    LET reach[i \in 0 .. n] ==
            IF i = 0 THEN {x} ELSE reach[i - 1] \cup {c \in Exists : up[c] \in reach[i - 1]}
    IN  reach[n] \ {User}

\* What update, delete and create of a child find, counting from the user.
Found == Within(User, Hops)

\* What GET /category shows, counting from the roots.
Shown == UNION {Within(c, Hops) : c \in Roots}

Init ==
    /\ up = [c \in {} |-> User] /\ label = [c \in {} |-> None]
    /\ req = [r \in Request |-> [pc |-> "new", target |-> None, gone |-> {}]]

Goto(r, step) == req' = [req EXCEPT ![r].pc = step]

End(r, step) == req' = [req EXCEPT ![r] = [pc |-> step, target |-> None, gone |-> {}]]

---------------------------------------------------------------------------
\* GET /category answers with the tree, or goes on to make the roots.
GetCategoriesByUser(r) ==
    /\ req[r].pc = "new"
    /\ Goto(r, IF Roots = {} THEN "init" ELSE "done")
    /\ UNCHANGED <<up, label>>

\* Mutant: CREATE for MERGE.
CreateRoots(r) ==
    /\ req[r].pc = "init"
    /\ LET roots == [by : {r}, order : Order]
       IN  /\ up' = [c \in Exists \cup roots |-> IF c \in roots THEN User ELSE up[c]]
           /\ label' = [c \in Exists \cup roots |->
                  IF c \in Exists \ Roots THEN label[c] ELSE None]
    /\ End(r, "done")

\* MERGE (u)-[:HAS_CATEGORY]->(c {order}) for each order, and SET c += props of
\* the roots that were there as well.
InitCategories(r) ==
    /\ req[r].pc = "init"
    /\ LET roots == {c \in [by : {r}, order : Order] : \A d \in Roots : d.order # c.order}
       IN  /\ up' = [c \in Exists \cup roots |-> IF c \in roots THEN User ELSE up[c]]
           /\ label' = [c \in Exists \cup roots |->
                  IF c \in Exists \ Roots THEN label[c] ELSE None]
    /\ End(r, "done")

\* POST, PUT and DELETE /category look for the category they name.
CheckCategory(r) ==
    /\ req[r].pc = "new"
    /\ \E c \in Exists, step \in {"create", "update", "delete"} :
         req' = [req EXCEPT ![r] = [pc |-> IF c \in Found THEN step ELSE "failed",
                                    target |-> c, gone |-> {}]]
    /\ UNCHANGED <<up, label>>

\* Mutant: the properties of a new category are not set.
CreateBare(r) ==
    /\ req[r].pc = "create"
    /\ IF req[r].target \in Exists
       THEN up' = [d \in Exists \cup {[by |-> r, order |-> None]} |->
                      IF d \in Exists THEN up[d] ELSE req[r].target]
       ELSE UNCHANGED up
    /\ End(r, "done")
    /\ UNCHANGED label

\* MATCH (parent {id}) MERGE (parent)-[:HAS_CATEGORY]->(c {id: randomUUID()}).
\* Without the parent the handler returns a ConflictException.
CreateCategory(r) ==
    /\ req[r].pc = "create"
    /\ IF req[r].target \in Exists
       THEN LET c == [by |-> r, order |-> None]
            IN  /\ up' = [d \in Exists \cup {c} |-> IF d = c THEN req[r].target ELSE up[d]]
                /\ label' = [d \in Exists \cup {c} |-> IF d = c THEN r ELSE label[d]]
                /\ End(r, "done")
       ELSE End(r, "failed") /\ UNCHANGED <<up, label>>

\* MATCH (u)-[:HAS_CATEGORY*0..5]->(c {id}) of PUT /category.
MatchCategory(r) ==
    /\ req[r].pc = "update"
    /\ Goto(r, IF req[r].target \in Found THEN "set" ELSE "failed")
    /\ UNCHANGED <<up, label>>

\* SET c += $category fails when c has been deleted since.
UpdateById(r) ==
    /\ req[r].pc = "set"
    /\ IF req[r].target \in Exists
       THEN label' = [label EXCEPT ![req[r].target] = r] /\ End(r, "done")
       ELSE End(r, "failed") /\ UNCHANGED label
    /\ UNCHANGED up

\* Mutant: the children are not deleted with their parent.
MatchOne(r) ==
    /\ req[r].pc = "delete"
    /\ LET gone == {req[r].target} \cap Found
       IN  req' = [req EXCEPT ![r].pc = IF gone = {} THEN "done" ELSE "erase", ![r].gone = gone]
    /\ UNCHANGED <<up, label>>

\* MATCH (u)-[:HAS_CATEGORY*0..5]->(c1 {id}) OPTIONAL MATCH (c1)-[:HAS_CATEGORY*0..5]->(c2)
MatchSubtree(r) ==
    /\ req[r].pc = "delete"
    /\ LET gone == IF req[r].target \in Found THEN Within(req[r].target, Hops) ELSE {}
       IN  req' = [req EXCEPT ![r].pc = IF gone = {} THEN "done" ELSE "erase", ![r].gone = gone]
    /\ UNCHANGED <<up, label>>

\* DETACH DELETE c1, c2: the relations of what was matched go with it, those to
\* categories that were not matched as well.
DeleteById(r) ==
    /\ req[r].pc = "erase"
    /\ LET gone == req[r].gone
       IN  /\ up' = [c \in Exists \ gone |-> IF up[c] \in gone THEN None ELSE up[c]]
           /\ label' = Restrict(label, Exists \ gone)
    /\ End(r, "done")

Next == \E r \in Request :
    \/ GetCategoriesByUser(r) \/ InitCategories(r)
    \/ CheckCategory(r) \/ CreateCategory(r)
    \/ MatchCategory(r) \/ UpdateById(r) \/ MatchSubtree(r) \/ DeleteById(r)

Spec == Init /\ [][Next]_vars

---------------------------------------------------------------------------
TypeOK ==
    /\ Exists \subseteq Category /\ up \in [Exists -> Category \cup {User, None}]
    /\ label \in [Exists -> Request \cup {None}]
    /\ req \in [Request -> [pc : Step, target : Category \cup {None},
                           gone : SUBSET Category]]

\* First requests that overlap make one set of roots between them.
OneRootPerOrder == \A c, d \in Roots : c.order = d.order => c = d
=============================================================================
