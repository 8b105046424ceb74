---------------------------- MODULE AccountBook ----------------------------
(***************************************************************************)
(* Accounts and address books: createAccount, updateById and deleteMine of *)
(* AccountService, createAddressBook, updateById and deleteById of         *)
(* AddressBookService.  A write whose MATCH finds no row changes nothing   *)
(* and throws nothing; one that writes to a node deleted since its MATCH   *)
(* throws.                                                                 *)
(***************************************************************************)
EXTENDS Registry

WithAddress(address) == {a \in DOMAIN accounts : accounts[a].address = address}

\* The arguments of POST /account and PUT /account: an address book and a group the
\* client knows of, or none.
AccountCalls(op) ==
    {args \in [op : {op}, pc : {"new"}, token : users, id : {None}, label : {None},
               address : Address, book : Made("createBook") \cup {None},
               group : Made("mergeGroup") \cup {None}, tags : SUBSET Label] : op \in Ops}

\* MATCH (b:addressBook {id}) MATCH (g:group {id}), each only if it is asked for.
Matches(r) ==
    /\ req[r].book # None => req[r].book \in DOMAIN books
    /\ req[r].group # None => GroupsOf(req[r].group) # {}

\* Mutant: the relation to the old group is not deleted.
RelateMore(r, a, keptBooks, keptGroups, keptTags) ==
    /\ bookOf' = keptBooks \cup ({req[r].book} \ {None}) \X {a}
    /\ inGroup' = inGroup \cup {a} \X GroupsOf(req[r].group)
    /\ tags' = tags \cup Merged(r, req[r].tags)
    /\ tagged' = keptTags \cup TagRelations(r, a, req[r].tags)

\* MERGE (b)-[:HAS_ADDRESS_BOOK]->(a), MERGE (a)-[:HAS_GROUP]->(g) and the tags.
Relate(r, a, keptBooks, keptGroups, keptTags) ==
    /\ bookOf' = keptBooks \cup ({req[r].book} \ {None}) \X {a}
    /\ inGroup' = keptGroups \cup {a} \X GroupsOf(req[r].group)
    /\ tags' = tags \cup Merged(r, req[r].tags)
    /\ tagged' = keptTags \cup TagRelations(r, a, req[r].tags)

---------------------------------------------------------------------------
\* Mutant: the address is not looked up.
CheckNothing(r) == \E args \in AccountCalls("createAccount") : Begin(r, args, "write")

CheckAddress(r) == \E args \in AccountCalls("createAccount") :
    Begin(r, args, IF WithAddress(args.address) = {} THEN "write" ELSE "failed")

\* The read of the new account that follows fails when there is none.
CreateAccount(r) ==
    /\ req[r].op = "createAccount" /\ req[r].pc = "write"
    /\ IF Matches(r)
       THEN /\ accounts' = [a \in DOMAIN accounts \cup {r} |->
                   IF a = r THEN [address |-> req[r].address, data |-> r] ELSE accounts[a]]
            /\ Relate(r, r, bookOf, inGroup, tagged)
            /\ End(r, "done")
       ELSE End(r, "failed") /\ UNCHANGED <<accounts, bookOf, inGroup, tags, tagged>>
    /\ UNCHANGED <<users, groups, books, has, seen>>

\* PUT /account and DELETE /account/:id look for the account.
FindAccount(r) == \E id \in Made("createAccount"),
                     args \in AccountCalls("updateAccount") \cup Calls("deleteAccount") :
    Begin(r, [args EXCEPT !.id = id], IF id \in DOMAIN accounts THEN "write" ELSE "failed")

\* MATCH of the account, OPTIONAL MATCH of its tag relations with the caller's ownerId
\* and of all its group and address book relations, before anything is locked.  Without
\* a row nothing is written, and the read that follows fails when it does not find the
\* account by its id and by one of the tags asked for.
MatchAccount(r) ==
    /\ req[r].op = "updateAccount" /\ req[r].pc = "write"
    /\ LET a == req[r].id
       IN  IF a \in DOMAIN accounts /\ Matches(r)
           THEN /\ seen' = [seen EXCEPT ![r] =
                       [accounts |-> {}, books |-> {x \in bookOf : x[2] = a},
                        groups |-> {x \in inGroup : x[1] = a}, tags |-> OwnRelations(r, a)]]
                /\ End(r, "matched")
           ELSE /\ End(r, IF /\ a \in DOMAIN accounts
                             /\ req[r].tags = {} \/ req[r].tags \cap Labels(a) # {}
                          THEN "done" ELSE "failed")
                /\ UNCHANGED seen
    /\ UNCHANGED <<registryVars, tags, tagged, accounts, books, bookOf, has>>

\* SET a += $account locks the account; the relations found give way to the new ones.
UpdateAccount(r) ==
    /\ req[r].op = "updateAccount" /\ req[r].pc = "matched"
    /\ LET a == req[r].id
       IN  IF a \in DOMAIN accounts /\ Matches(r)
           THEN /\ accounts' = [accounts EXCEPT ![a] = [address |-> req[r].address, data |-> r]]
                /\ Relate(r, a, bookOf \ seen[r].books, inGroup \ seen[r].groups,
                          tagged \ seen[r].tags)
                /\ Forget(r) /\ End(r, "done")
           ELSE /\ seen' = [seen EXCEPT ![r] = Nothing] /\ End(r, "failed")
                /\ UNCHANGED <<accounts, bookOf, inGroup, tags, tagged>>
    /\ UNCHANGED <<users, groups, books, has>>

\* Mutant: DELETE without the address book's relation.
DeleteUndetached(r) ==
    /\ req[r].op = "deleteAccount" /\ req[r].pc = "write"
    /\ accounts' = Restrict(accounts, DOMAIN accounts \ {req[r].id})
    /\ End(r, "done")
    /\ UNCHANGED <<registryVars, tags, tagged, books, bookOf, has, seen>>

DeleteAccount(r) ==
    /\ req[r].op = "deleteAccount" /\ req[r].pc = "write"
    /\ LET a == req[r].id
       IN  /\ accounts' = Restrict(accounts, DOMAIN accounts \ {a})
           /\ bookOf' = {x \in bookOf : x[2] # a} /\ has' = {x \in has : x[2] # a}
           /\ inGroup' = {x \in inGroup : x[1] # a}
           /\ tagged' = {x \in tagged : x.node # a}
    /\ End(r, "done")
    /\ UNCHANGED <<users, tags, groups, books, seen>>

---------------------------------------------------------------------------
\* POST /address-book may name the address of an account to relate to.
CheckAccount(r) == \E args \in Calls("createBook"), address \in Address \cup {None},
                      labels \in SUBSET Label :
    Begin(r, [args EXCEPT !.address = address, !.tags = labels],
          IF address # None /\ WithAddress(address) = {} THEN "failed" ELSE "write")

\* The write matches the account again; the read that follows a write without a row
\* answers [].
MatchAddress(r) ==
    /\ req[r].op = "createBook" /\ req[r].pc = "write" /\ req[r].address # None
    /\ seen' = [seen EXCEPT ![r].accounts = WithAddress(req[r].address)]
    /\ End(r, IF WithAddress(req[r].address) = {} THEN "done" ELSE "matched")
    /\ UNCHANGED <<registryVars, tags, tagged, accounts, books, bookOf, has>>

\* Mutant: the relations are written in a query of their own, to the accounts left.
CreateBookAnyway(r) ==
    /\ req[r].op = "createBook"
    /\ \/ req[r].pc = "matched"
       \/ req[r].pc = "write" /\ req[r].address = None
    /\ books' = [b \in DOMAIN books \cup {r} |-> IF b = r THEN r ELSE books[b]]
    /\ has' = has \cup {r} \X (seen[r].accounts \cap DOMAIN accounts)
    /\ tags' = tags \cup Merged(r, req[r].tags)
    /\ tagged' = tagged \cup TagRelations(r, r, req[r].tags)
    /\ seen' = [seen EXCEPT ![r] = Nothing] /\ End(r, "done")
    /\ UNCHANGED <<registryVars, accounts, bookOf>>

\* A book without an address, or one with the accounts found: CREATE (n)-[:Has]->(b)
\* throws when one is gone.
CreateBook(r) ==
    /\ req[r].op = "createBook"
    /\ \/ req[r].pc = "matched"
       \/ req[r].pc = "write" /\ req[r].address = None
    /\ IF seen[r].accounts \subseteq DOMAIN accounts
       THEN /\ books' = [b \in DOMAIN books \cup {r} |-> IF b = r THEN r ELSE books[b]]
            /\ has' = has \cup {r} \X seen[r].accounts
            /\ tags' = tags \cup Merged(r, req[r].tags)
            /\ tagged' = tagged \cup TagRelations(r, r, req[r].tags)
            /\ End(r, "done")
       ELSE End(r, "failed") /\ UNCHANGED <<books, has, tags, tagged>>
    /\ seen' = [seen EXCEPT ![r] = Nothing]
    /\ UNCHANGED <<registryVars, accounts, bookOf>>

FindBook(r) == \E id \in Made("createBook"), labels \in SUBSET Label :
    \E args \in Calls("updateBook") \cup Calls("deleteBook") :
        Begin(r, [args EXCEPT !.id = id, !.tags = labels],
              IF id \in DOMAIN books THEN "write" ELSE "failed")

\* OPTIONAL MATCH of the tag relations with the caller's ownerId, before anything is
\* locked; without the address book the write has no row, and the read answers [].
MatchBook(r) ==
    /\ req[r].op = "updateBook" /\ req[r].pc = "write"
    /\ IF req[r].id \in DOMAIN books
       THEN /\ seen' = [seen EXCEPT ![r].tags = OwnRelations(r, req[r].id)]
            /\ End(r, "matched")
       ELSE End(r, "done") /\ UNCHANGED seen
    /\ UNCHANGED <<registryVars, tags, tagged, accounts, books, bookOf, has>>

\* DELETE r, then MERGE of the tags: the first relation deleted or made locks the
\* address book, and SET follows under the lock.  Without one SET is a step of its own.
UpdateBook(r) ==
    /\ req[r].op = "updateBook" /\ req[r].pc = "matched"
    /\ LET b == req[r].id
           new == TagRelations(r, b, req[r].tags)
       IN  IF b \in DOMAIN books
           THEN /\ tags' = tags \cup Merged(r, req[r].tags)
                /\ tagged' = (tagged \ seen[r].tags) \cup new
                /\ IF seen[r].tags \cap tagged # {} \/ ~(new \subseteq tagged)
                   THEN books' = [books EXCEPT ![b] = r] /\ Forget(r) /\ End(r, "done")
                   ELSE /\ seen' = [seen EXCEPT ![r] = Nothing] /\ End(r, "set")
                        /\ UNCHANGED books
           ELSE /\ seen' = [seen EXCEPT ![r] = Nothing] /\ End(r, "failed")
                /\ UNCHANGED <<tags, tagged, books>>
    /\ UNCHANGED <<registryVars, accounts, bookOf, has>>

\* SET a += $addressBookDto
SetBook(r) ==
    /\ req[r].op = "updateBook" /\ req[r].pc = "set"
    /\ IF req[r].id \in DOMAIN books
       THEN books' = [books EXCEPT ![req[r].id] = r] /\ End(r, "done")
       ELSE End(r, "failed") /\ UNCHANGED books
    /\ UNCHANGED <<registryVars, tags, tagged, accounts, bookOf, has, seen>>

DeleteBook(r) ==
    /\ req[r].op = "deleteBook" /\ req[r].pc = "write"
    /\ LET b == req[r].id
       IN  /\ books' = Restrict(books, DOMAIN books \ {b})
           /\ bookOf' = {x \in bookOf : x[1] # b} /\ has' = {x \in has : x[1] # b}
           /\ tagged' = {x \in tagged : x.node # b}
    /\ End(r, "done")
    /\ UNCHANGED <<registryVars, tags, accounts, seen>>

BookStep(r) ==
    \/ CheckAddress(r) \/ CreateAccount(r)
    \/ FindAccount(r) \/ MatchAccount(r) \/ UpdateAccount(r) \/ DeleteAccount(r)
    \/ CheckAccount(r) \/ MatchAddress(r) \/ CreateBook(r)
    \/ FindBook(r) \/ MatchBook(r) \/ UpdateBook(r) \/ SetBook(r) \/ DeleteBook(r)
=============================================================================
