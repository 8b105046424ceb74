----------------------------- MODULE Workspace -----------------------------
(***************************************************************************)
(* The part of the graph a user edits by hand: users with one public key,  *)
(* tags, groups, address books and accounts, and the requests of the API   *)
(* that edit it.  A request runs a query that checks and one that writes;  *)
(* each is a transaction, and other requests run between them.  A query    *)
(* reads what is committed, without locks, and holds locks from its first  *)
(* write to its end: one that writes what it matched before its first      *)
(* write is two steps or more.  Nodes are named by the request that made   *)
(* them.                                                                   *)
(***************************************************************************)
EXTENDS Integers, FiniteSets, Functions

CONSTANTS
    Request,     \* the API requests of a behaviour
    None,        \* absence of an argument
    Label,       \* labels of tags
    GroupLabel,  \* labels of groups
    Address,     \* Solana addresses
    Ops          \* bound: the operations clients use

ASSUME WorkspaceAssumption == None \notin Request \cup GroupLabel \cup Address

VARIABLES
    users,     \* user nodes with the public key
    tags,      \* tag nodes
    tagged,    \* HAS_TAG, with the ownerId it carries
    groups,    \* group node |-> its label
    inGroup,   \* (account)-[:HAS_GROUP]->(group)
    accounts,  \* account node |-> its address and the request that wrote it last
    books,     \* address book node |-> the request that wrote it last
    bookOf,    \* (addressBook)-[:HAS_ADDRESS_BOOK]->(account)
    has,       \* (addressBook)-[:Has]->(account)
    req,       \* request |-> its operation, next step, token and arguments
    seen       \* request |-> the accounts and relations the MATCH of its write has found

registryVars == <<users, groups, inGroup>>
bookVars == <<accounts, books, bookOf, has, seen>>
vars == <<registryVars, tags, tagged, bookVars, req>>

Tag == [by : Request, label : Label]

\* MERGE of a group under each of two user nodes makes two nodes with one id.
Group == [id : Request, owner : Request]

Operation == {"signIn", "mergeTag", "mergeGroup", "updateGroup", "deleteGroup",
              "createAccount", "updateAccount", "deleteAccount",
              "createBook", "updateBook", "deleteBook"}

\* Before the write, after its MATCH, after a MERGE that took no lock.
Steps == {"write", "matched", "set"}

RequestRecord ==
    [op : Operation \cup {None}, pc : {"new", "done", "failed"} \cup Steps,
     token : Request \cup {None}, id : Request \cup {None}, label : Label \cup GroupLabel \cup {None},
     address : Address \cup {None}, book : Request \cup {None}, group : Request \cup {None},
     tags : SUBSET Label]

Relations ==
    [accounts : SUBSET Request, books : SUBSET (Request \X Request),
     groups : SUBSET (Request \X Group), tags : SUBSET [node : Request, tag : Tag, owner : Request]]

Nothing == [accounts |-> {}, books |-> {}, groups |-> {}, tags |-> {}]

Blank == [op |-> None, pc |-> "new", token |-> None, id |-> None, label |-> None,
          address |-> None, book |-> None, group |-> None, tags |-> {}]

Init ==
    /\ users = {} /\ tags = {} /\ tagged = {} /\ inGroup = {} /\ bookOf = {} /\ has = {}
    /\ groups = [g \in {} |-> None] /\ accounts = [a \in {} |-> None] /\ books = [b \in {} |-> None]
    /\ req = [r \in Request |-> Blank] /\ seen = [r \in Request |-> Nothing]

TypeOK ==
    /\ users \subseteq Request /\ tags \subseteq Tag
    /\ DOMAIN groups \subseteq Group /\ groups \in [DOMAIN groups -> GroupLabel]
    /\ DOMAIN accounts \subseteq Request
    /\ accounts \in [DOMAIN accounts -> [address : Address, data : Request]]
    /\ DOMAIN books \subseteq Request /\ books \in [DOMAIN books -> Request]
    /\ tagged \subseteq [node : (DOMAIN accounts) \cup (DOMAIN books), tag : tags, owner : users]
    /\ inGroup \subseteq (DOMAIN accounts) \X (DOMAIN groups)
    /\ bookOf \subseteq (DOMAIN books) \X (DOMAIN accounts)
    /\ has \subseteq (DOMAIN books) \X (DOMAIN accounts)
    /\ req \in [Request -> RequestRecord] /\ seen \in [Request -> Relations]

Busy(r) == req[r].pc \in Steps

Idle == \A r \in Request : ~Busy(r)

\* A request with a token of one of the user nodes starts, and its first query lets it
\* go on to the next, or ends it.
Begin(r, args, next) ==
    /\ req[r].pc = "new"
    /\ req' = [req EXCEPT ![r] = [args EXCEPT !.pc = next]]
    /\ UNCHANGED <<registryVars, tags, tagged, bookVars>>

Calls(op) == {args \in {[Blank EXCEPT !.op = op, !.token = u] : u \in users} : op \in Ops}

End(r, pc) == req' = [req EXCEPT ![r].pc = pc]

\* What clients have been told of: ids of answered requests, their nodes there or not.
Made(op) == {r \in Request : req[r].op = op /\ req[r].pc = "done"}

---------------------------------------------------------------------------
(* Tags as account and address book queries write them.                    *)

\* Mutant: CREATE for MERGE.
Created(r, labels) == [by : {r}, label : labels]

\* Mutant: only a new tag is related.
MergedNew(r, labels) == {t \in [by : {r}, label : labels] : \A s \in tags : s.label # t.label}

\* MERGE (t:tag {label}) ON CREATE SET t.id = randomUUID(): the tags there are with
\* the label, a new one if there is none.
Merged(r, labels) ==
    {t \in tags : t.label \in labels}
    \cup {t \in [by : {r}, label : labels] : \A s \in tags : s.label # t.label}

\* ... MERGE (node)-[:HAS_TAG {ownerId}]->(t)
TagRelations(r, node, labels) ==
    {[node |-> node, tag |-> t, owner |-> req[r].token] : t \in Merged(r, labels)}

\* The labels a node is shown with.
Labels(node) == {x.tag.label : x \in {y \in tagged : y.node = node}}

\* DELETE has deleted what r had found, and a MERGE makes a new relation: of the old
\* ones nobody can delete any more.
Forget(r) ==
    seen' = [q \in Request |->
        IF q = r THEN Nothing
        ELSE [accounts |-> seen[q].accounts, books |-> seen[q].books \ seen[r].books,
              groups |-> seen[q].groups \ seen[r].groups, tags |-> seen[q].tags \ seen[r].tags]]

OwnRelations(r, node) == {x \in tagged : x.node = node /\ x.owner = req[r].token}
=============================================================================
