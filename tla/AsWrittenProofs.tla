--------------------------- MODULE AsWrittenProofs ---------------------------
(***************************************************************************)
(* However requests overlap, as long as sign-ins do not, accounts and      *)
(* address books show what their last write gave them, and nothing else    *)
(* unless it overlapped another update: with one user node the caller owns *)
(* every tag relation, so that what an update finds is all there is; and   *)
(* until it writes, only a rival can add to it.                            *)
(***************************************************************************)
EXTENDS WorkspaceProofs, EditHistory

\* At most one sign-in creates a user, and only when there is none.
SoleSignIn ==
    /\ \A q, r \in Request :
           (/\ req[q].op = "signIn" /\ req[q].pc = "write"
            /\ req[r].op = "signIn" /\ req[r].pc = "write") => q = r
    /\ \A r \in Request : req[r].op = "signIn" /\ req[r].pc = "write" => users = {}

\* Clients name what they were told of.
Refers(args) ==
    /\ args.book \in Made("createBook") \cup {None}
    /\ args.group \in Made("mergeGroup") \cup {None}
    /\ args.op \in {"updateAccount", "deleteAccount"} => args.id \in Made("createAccount")
    /\ args.op \in {"updateBook", "deleteBook"} => args.id \in Made("createBook")

\* Nodes are made and written by requests that were answered.
Authored ==
    /\ \A a \in DOMAIN accounts : a \in Made("createAccount") /\ req[accounts[a].data].pc = "done"
    /\ \A b \in DOMAIN books : b \in Made("createBook") /\ req[books[b]].pc = "done"
    /\ \A g \in DOMAIN groups : g.id \in Made("mergeGroup")

KnownInv == /\ OverlapInv /\ OneUser /\ SoleSignIn /\ Authored 
            /\ \A r \in Request : req[r].pc # "new" => Refers(req[r])

---------------------------------------------------------------------------
\* The relations of a node, one by one, against the request that wrote it last: those the
\* request asked for are there, and there are no others.
GroupsHave(a, w) == \A g \in DOMAIN groups : g.id = w.group => <<a, g>> \in inGroup
GroupsOnly(a, w) == \A x \in inGroup : x[1] = a => x[2].id = w.group

BooksHave(a, w) == w.book \in DOMAIN books => <<w.book, a>> \in bookOf
BooksOnly(a, w) == \A x \in bookOf : x[2] = a => x[1] = w.book

LabelsHave(node, w) == \A l \in w.tags : \E x \in tagged : x.node = node /\ x.tag.label = l
LabelsOnly(node, w) == \A x \in tagged : x.node = node => x.tag.label \in w.tags

AccountFits(a) ==
    LET w == req[accounts[a].data]
    IN  /\ GroupsHave(a, w) /\ BooksHave(a, w) /\ LabelsHave(a, w)
        /\ accounts[a].data \notin overlapped =>
               GroupsOnly(a, w) /\ BooksOnly(a, w) /\ LabelsOnly(a, w)

BookFits(b) ==
    LET w == req[books[b]]
    IN  books[b] \notin overlapped => LabelsHave(b, w) /\ LabelsOnly(b, w)

\* An update that has matched its node has found relations of the node, and all of them
\* unless it has a rival.
Updating(r) == req[r].op \in {"updateAccount", "updateBook"} /\ req[r].pc = "matched"

FoundOwn(r) ==
    /\ \A x \in seen[r].books : x[2] = req[r].id
    /\ \A x \in seen[r].groups : x[1] = req[r].id
    /\ \A x \in seen[r].tags : x.node = req[r].id

FoundAll(r) ==
    /\ \A x \in bookOf : x[2] = req[r].id => x \in seen[r].books
    /\ \A x \in inGroup : x[1] = req[r].id => x \in seen[r].groups
    /\ \A x \in tagged : x.node = req[r].id => x \in seen[r].tags

Exact(r) == LabelsHave(req[r].id, req[r]) /\ LabelsOnly(req[r].id, req[r])

BetweenFits(r) ==
    /\ req[r].pc # "matched" => seen[r] = Nothing
    /\ req[r].pc = "set" => req[r].op = "updateBook"
    /\ Updating(r) => FoundOwn(r) /\ (r \notin overlapped => FoundAll(r))
    /\ req[r].pc = "set" /\ r \notin overlapped /\ req[r].id \in DOMAIN books => Exact(r)

RivalsInv == \A r \in Request : Rivals(r) # {} => r \in overlapped

WrittenInv ==
    /\ KnownInv /\ RivalsInv
    /\ \A a \in DOMAIN accounts : AccountFits(a)
    /\ \A b \in DOMAIN books : BookFits(b)
    /\ \A r \in Request : BetweenFits(r)

LEMMA LabelsShown ==
    ASSUME NEW node, NEW w
    PROVE  /\ LabelsHave(node, w) => w.tags \subseteq Labels(node)
           /\ LabelsOnly(node, w) => Labels(node) \subseteq w.tags
           /\ LabelsHave(node, w) /\ LabelsOnly(node, w) => Labels(node) = w.tags
BY DEF LabelsHave, LabelsOnly, Labels

LEMMA FitsAsWritten == WrittenInv => AccountAsWritten /\ BookAsWritten
<1> SUFFICES ASSUME WrittenInv PROVE AccountAsWritten /\ BookAsWritten
  OBVIOUS
<1>1. ASSUME NEW a \in DOMAIN accounts
      PROVE  LET w == req[accounts[a].data]
                 labels == Labels(a)
                 groupIds == {x[2].id : x \in {y \in inGroup : y[1] = a}}
                 bookIds == {x[1] : x \in {y \in bookOf : y[2] = a}}
                 group == {w.group} \cap {g.id : g \in DOMAIN groups}
                 book == {w.book} \cap DOMAIN books
             IN  /\ w.tags \subseteq labels /\ group \subseteq groupIds /\ book \subseteq bookIds
                 /\ accounts[a].data \notin overlapped =>
                        labels = w.tags /\ groupIds = group /\ bookIds = book
  <2> DEFINE w == req[accounts[a].data]
             groupIds == {x[2].id : x \in {y \in inGroup : y[1] = a}}
             bookIds == {x[1] : x \in {y \in bookOf : y[2] = a}}
             group == {w.group} \cap {g.id : g \in DOMAIN groups}
             book == {w.book} \cap DOMAIN books
  <2>1. /\ GroupsHave(a, w) /\ BooksHave(a, w) /\ LabelsHave(a, w)
        /\ accounts[a].data \notin overlapped =>
               GroupsOnly(a, w) /\ BooksOnly(a, w) /\ LabelsOnly(a, w)
    BY DEF WrittenInv, AccountFits
  <2>2. inGroup \subseteq (DOMAIN accounts) \X (DOMAIN groups)
    BY DEF WrittenInv, KnownInv, OverlapInv, TypeOK
  <2>3. bookOf \subseteq (DOMAIN books) \X (DOMAIN accounts)
    BY DEF WrittenInv, KnownInv, OverlapInv, TypeOK
  <2> HIDE DEF w
  <2>4. /\ w.tags \subseteq Labels(a)
        /\ accounts[a].data \notin overlapped => Labels(a) = w.tags
    BY <2>1, LabelsShown, Zenon
  <2>5. ASSUME GroupsOnly(a, w), NEW x \in inGroup, x[1] = a PROVE x[2].id \in group
    BY <2>2, <2>5 DEF GroupsOnly
  <2>6. ASSUME NEW g \in DOMAIN groups, g.id = w.group PROVE w.group \in groupIds
    <3>1. <<a, g>> \in {y \in inGroup : y[1] = a}
      BY <2>1, <2>6 DEF GroupsHave
    <3> QED
      BY <2>6, <3>1
  <2>7. group \subseteq groupIds /\ (GroupsOnly(a, w) => groupIds = group)
    BY <2>5, <2>6
  <2>8. ASSUME w.book \in DOMAIN books PROVE w.book \in bookIds
    <3>1. <<w.book, a>> \in {y \in bookOf : y[2] = a}
      BY <2>1, <2>8 DEF BooksHave
    <3> QED
      BY <3>1
  <2>9. book \subseteq bookIds /\ (BooksOnly(a, w) => bookIds = book)
    BY <2>3, <2>8 DEF BooksOnly
  <2> QED
    BY <2>1, <2>4, <2>7, <2>9 DEF w
<1>2. ASSUME NEW b \in DOMAIN books, books[b] \notin overlapped
      PROVE  Labels(b) = req[books[b]].tags
  <2>1. LabelsHave(b, req[books[b]]) /\ LabelsOnly(b, req[books[b]])
    BY <1>2 DEF WrittenInv, BookFits
  <2> QED
    BY <2>1, LabelsShown, Zenon
<1> QED
  BY <1>1, <1>2 DEF AccountAsWritten, BookAsWritten

LEMMA InitWritten == EditInit => WrittenInv
<1> SUFFICES ASSUME EditInit PROVE WrittenInv
  OBVIOUS
<1>1. \A r \in Request : req[r].pc = "new" /\ seen[r] = Nothing
  BY DEF EditInit, Init, Blank
<1>2. users = {} /\ DOMAIN accounts = {} /\ DOMAIN books = {} /\ DOMAIN groups = {}
  BY DEF EditInit, Init
<1>3. OverlapInv
  BY InitOverlap DEF EditInit
<1>4. OneUser /\ SoleSignIn /\ Authored
  BY <1>1, <1>2 DEF OneUser, SoleSignIn, Authored
<1>5. KnownInv
  BY <1>1, <1>3, <1>4 DEF KnownInv
<1>6. RivalsInv
  BY <1>1 DEF RivalsInv, Rivals, Between
<1>7. \A r \in Request : BetweenFits(r)
  BY <1>1 DEF BetweenFits, Updating
<1> QED
  BY <1>2, <1>5, <1>6, <1>7 DEF WrittenInv

---------------------------------------------------------------------------
(* Who made what.                                                          *)

\* Answered requests stay as they are.
LEMMA MovedRequest ==
    ASSUME KnownInv, NEW r \in Request, req[r].pc # "done", NEW new \in RequestRecord,
           req' = [req EXCEPT ![r] = new]
    PROVE  /\ req'[r] = new /\ \A q \in Request \ {r} : req'[q] = req[q]
           /\ \A q \in Request : req[q].pc = "done" => req'[q] = req[q]
           /\ \A op \in Operation : Made(op) \subseteq Made(op)'
BY DEF KnownInv, OverlapInv, TypeOK, Made

LEMMA BeginKnown ==
    ASSUME KnownInv, NEW r \in Request, NEW args \in RequestRecord,
           NEW next \in {"write", "done", "failed"}, Begin(r, args, next), OverlapInv',
           Refers(args),
           next = "write" /\ args.op = "signIn" =>
               /\ users = {}
               /\ \A q \in Request : req[q].op # "signIn" \/ req[q].pc # "write"
    PROVE  /\ KnownInv' /\ \A q \in Request : req[q].pc = "done" => req'[q] = req[q]
           /\ req[r].pc = "new" /\ req'[r].pc = next /\ \A q \in Request \ {r} : req'[q] = req[q]
           /\ UNCHANGED <<users, groups, inGroup, tags, tagged, accounts, books, bookOf, has, seen>>
<1> DEFINE new == [args EXCEPT !.pc = next]
<1>1. /\ new \in RequestRecord /\ new.pc = next /\ new.op = args.op
      /\ new.book = args.book /\ new.group = args.group /\ new.id = args.id
  BY DEF RequestRecord, Steps
<1>2. /\ req' = [req EXCEPT ![r] = new] /\ req[r].pc = "new"
      /\ UNCHANGED <<users, groups, inGroup, tags, tagged, accounts, books, bookOf, has, seen>>
  BY DEF Begin, registryVars, bookVars
<1> HIDE DEF new
<1>3. /\ req'[r] = new /\ \A q \in Request \ {r} : req'[q] = req[q]
      /\ \A q \in Request : req[q].pc = "done" => req'[q] = req[q]
      /\ \A op \in Operation : Made(op) \subseteq Made(op)'
  BY <1>1, <1>2, MovedRequest
<1>4. OneUser' /\ SoleSignIn'
  BY <1>1, <1>2, <1>3 DEF KnownInv, OneUser, SoleSignIn
<1>5. Authored'
  BY <1>2, <1>3 DEF KnownInv, Authored, Operation, OverlapInv, TypeOK
<1>6. ASSUME NEW q \in Request, req'[q].pc # "new" PROVE Refers(req[q])'
  BY <1>1, <1>3, <1>6 DEF KnownInv, Refers, Operation
<1> QED
  BY <1>1, <1>2, <1>3, <1>4, <1>5, <1>6 DEF KnownInv

LEMMA EndKnown ==
    ASSUME KnownInv, NEW r \in Request, Busy(r), NEW pc \in {"done", "failed", "matched", "set"},
           End(r, pc), OverlapInv',
           \/ users' = users
           \/ req[r].op = "signIn" /\ req[r].pc = "write" /\ users' = users \cup {r},
           \A a \in DOMAIN accounts' :
               \/ a \in DOMAIN accounts /\ accounts'[a].data = accounts[a].data
               \/ /\ pc = "done" /\ accounts'[a].data = r
                  /\ a \in DOMAIN accounts \/ (a = r /\ req[r].op = "createAccount"),
           \A b \in DOMAIN books' :
               \/ b \in DOMAIN books /\ books'[b] = books[b]
               \/ /\ pc = "done" /\ books'[b] = r
                  /\ b \in DOMAIN books \/ (b = r /\ req[r].op = "createBook"),
           \A g \in DOMAIN groups' :
               g \in DOMAIN groups \/ (g.id = r /\ pc = "done" /\ req[r].op = "mergeGroup")
    PROVE  /\ KnownInv' /\ \A q \in Request : req[q].pc = "done" => req'[q] = req[q]
           /\ req'[r].pc = pc /\ req'[r].op = req[r].op /\ req'[r].id = req[r].id
           /\ \A q \in Request \ {r} : req'[q] = req[q]
<1> DEFINE new == [req[r] EXCEPT !.pc = pc]
<1>1. /\ new \in RequestRecord /\ new.pc = pc /\ new.op = req[r].op
      /\ new.book = req[r].book /\ new.group = req[r].group /\ new.id = req[r].id
  <2>1. req[r] \in RequestRecord
    BY DEF KnownInv, OverlapInv, TypeOK
  <2>2. new = [req[r] EXCEPT !.pc = pc]
    OBVIOUS
  <2> HIDE DEF new
  <2> QED
    BY <2>1, <2>2, EndedRecord DEF Steps
<1>2. req' = [req EXCEPT ![r] = new] /\ req[r].pc # "done" /\ req[r].pc # "new"
  BY DEF End, Busy, Steps
<1> HIDE DEF new
<1>3. /\ req'[r] = new /\ \A q \in Request \ {r} : req'[q] = req[q]
      /\ \A q \in Request : req[q].pc = "done" => req'[q] = req[q]
      /\ \A op \in Operation : Made(op) \subseteq Made(op)'
  BY <1>1, <1>2, MovedRequest
<1>4. OneUser' /\ SoleSignIn'
  <2>1. \A q \in Request : req'[q].pc = "write" => q # r /\ req'[q] = req[q]
    BY <1>1, <1>3
  <2>2. CASE users' = users
    BY <2>1, <2>2 DEF KnownInv, OneUser, SoleSignIn
  <2>3. CASE req[r].op = "signIn" /\ req[r].pc = "write" /\ users' = users \cup {r}
    <3>1. users' = {r}
      BY <2>3 DEF KnownInv, SoleSignIn
    <3>2. \A q \in Request : req'[q].op # "signIn" \/ req'[q].pc # "write"
      BY <2>1, <2>3 DEF KnownInv, SoleSignIn
    <3> QED
      BY <3>1, <3>2 DEF OneUser, SoleSignIn
  <2> QED
    BY <2>2, <2>3
<1>5. ASSUME pc = "done" PROVE \A op \in Operation : req[r].op = op => r \in Made(op)'
  BY <1>1, <1>3, <1>5 DEF Made
<1>6. \A a \in DOMAIN accounts' : a \in Made("createAccount")' /\ req'[accounts'[a].data].pc = "done"
  BY <1>1, <1>3, <1>5 DEF KnownInv, Authored, Operation, OverlapInv, TypeOK
<1>7. \A b \in DOMAIN books' : b \in Made("createBook")' /\ req'[books'[b]].pc = "done"
  BY <1>1, <1>3, <1>5 DEF KnownInv, Authored, Operation, OverlapInv, TypeOK
<1>8. \A g \in DOMAIN groups' : g.id \in Made("mergeGroup")'
  BY <1>1, <1>3, <1>5 DEF KnownInv, Authored, Operation
<1>9. ASSUME NEW q \in Request, req'[q].pc # "new" PROVE Refers(req[q])'
  BY <1>1, <1>2, <1>3, <1>9 DEF KnownInv, Refers, Operation
<1> QED
  BY <1>1, <1>3, <1>4, <1>6, <1>7, <1>8, <1>9 DEF KnownInv, Authored

---------------------------------------------------------------------------
(* What a step of one request leaves of the others.                        *)

\* The relations of a node are as they were; no more than they were.
Untouched(node) ==
    /\ \A x : x[2] = node => (x \in bookOf <=> x \in bookOf')
    /\ \A x : x[1] = node => (x \in inGroup <=> x \in inGroup')
    /\ \A x : x.node = node => (x \in tagged <=> x \in tagged')

NoMore(node) ==
    /\ \A x \in bookOf' : x[2] = node => x \in bookOf
    /\ \A x \in inGroup' : x[1] = node => x \in inGroup
    /\ \A x \in tagged' : x.node = node => x \in tagged

Foreign(q) == Between(q) /\ q \notin overlapped' =>
    LET n == req[q].id
    IN  /\ NoMore(n)
        /\ n \in DOMAIN books' => /\ n \in DOMAIN books
                                  /\ \A x \in tagged : x.node = n => x \in tagged'

LEMMA Recorded ==
    ASSUME Record
    PROVE  overlapped \subseteq overlapped' /\ RivalsInv'
BY DEF Record, RivalsInv

\* What others have found stays what it was, all there is where it was all.
LEMMA OthersBetween ==
    ASSUME WrittenInv, Record, NEW r \in Request,
           \A q \in Request \ {r} : req'[q] = req[q],
           \/ \A q \in Request \ {r} : seen'[q] = seen[q]
           \/ Forget(r) /\ Updating(r),
           \A q \in Request \ {r} : Foreign(q)
    PROVE  \A q \in Request \ {r} : BetweenFits(q)'
<1> SUFFICES ASSUME NEW q \in Request \ {r} PROVE BetweenFits(q)'
  OBVIOUS
<1>1. BetweenFits(q) /\ req'[q] = req[q] /\ (q \notin overlapped' => q \notin overlapped)
  BY Recorded DEF WrittenInv
<1>2. \/ seen'[q] = seen[q]
      \/ /\ Forget(r) /\ Updating(r)
         /\ seen'[q] = [accounts |-> seen[q].accounts, books |-> seen[q].books \ seen[r].books,
                        groups |-> seen[q].groups \ seen[r].groups,
                        tags |-> seen[q].tags \ seen[r].tags]
  BY DEF Forget
<1>3. req'[q].pc # "matched" => seen'[q] = Nothing
  <2> SUFFICES ASSUME req'[q].pc # "matched" PROVE seen'[q] = Nothing
    OBVIOUS
  <2>1. seen[q] = Nothing
    BY <1>1 DEF BetweenFits
  <2> QED
    BY <1>2, <2>1 DEF Nothing
<1>4. req'[q].pc = "set" => req'[q].op = "updateBook"
  BY <1>1 DEF BetweenFits
<1>5. ASSUME Updating(q)' PROVE FoundOwn(q)'
  <2>1. Updating(q) /\ FoundOwn(q)
    BY <1>1, <1>5 DEF BetweenFits, Updating
  <2>2. /\ seen'[q].books \subseteq seen[q].books /\ seen'[q].groups \subseteq seen[q].groups
        /\ seen'[q].tags \subseteq seen[q].tags
    BY <1>2
  <2> QED
    BY <1>1, <2>1, <2>2 DEF FoundOwn
<1>6. ASSUME Updating(q)', q \notin overlapped' PROVE FoundAll(q)'
  <2>1. Updating(q) /\ FoundAll(q) /\ Between(q)
    BY <1>1, <1>6 DEF BetweenFits, Updating, Between
  <2>2. NoMore(req[q].id)
    BY <1>6, <2>1 DEF Foreign
  <2>3. CASE seen'[q] = seen[q]
    BY <1>1, <2>1, <2>2, <2>3 DEF FoundAll, NoMore
  <2>4. CASE /\ Forget(r) /\ Updating(r)
             /\ seen'[q] = [accounts |-> seen[q].accounts, books |-> seen[q].books \ seen[r].books,
                            groups |-> seen[q].groups \ seen[r].groups,
                            tags |-> seen[q].tags \ seen[r].tags]
    <3>1. req[r].id # req[q].id
      <4>1. Between(r) /\ q \notin overlapped
        BY <1>1, <1>6, <2>4 DEF Updating, Between
      <4> QED
        BY <2>1, <4>1 DEF WrittenInv, RivalsInv, Rivals
    <3>2. FoundOwn(r)
      BY <2>4 DEF WrittenInv, BetweenFits
    <3>3. ASSUME NEW x \in bookOf', x[2] = req[q].id PROVE x \in seen'[q].books
      BY <2>1, <2>2, <2>4, <3>1, <3>2, <3>3 DEF FoundAll, FoundOwn, NoMore
    <3>4. ASSUME NEW x \in inGroup', x[1] = req[q].id PROVE x \in seen'[q].groups
      BY <2>1, <2>2, <2>4, <3>1, <3>2, <3>4 DEF FoundAll, FoundOwn, NoMore
    <3>5. ASSUME NEW x \in tagged', x.node = req[q].id PROVE x \in seen'[q].tags
      BY <2>1, <2>2, <2>4, <3>1, <3>2, <3>5 DEF FoundAll, FoundOwn, NoMore
    <3> QED
      BY <1>1, <3>3, <3>4, <3>5 DEF FoundAll
  <2> QED
    BY <1>2, <2>3, <2>4
<1>7. ASSUME req'[q].pc = "set", q \notin overlapped', req'[q].id \in DOMAIN books'
      PROVE  Exact(q)'
  <2>1. Between(q)
    BY <1>1, <1>7 DEF BetweenFits, Between
  <2>2. /\ NoMore(req[q].id) /\ req[q].id \in DOMAIN books
        /\ \A x \in tagged : x.node = req[q].id => x \in tagged'
    BY <1>1, <1>7, <2>1 DEF Foreign
  <2>3. LabelsHave(req[q].id, req[q]) /\ LabelsOnly(req[q].id, req[q])
    BY <1>1, <1>7, <2>2 DEF BetweenFits, Exact
  <2> QED
    BY <1>1, <2>2, <2>3 DEF Exact, LabelsHave, LabelsOnly, NoMore
<1> QED
  BY <1>3, <1>4, <1>5, <1>6, <1>7 DEF BetweenFits

\* A step that changes no relation is foreign to everybody.
LEMMA NothingForeign ==
    ASSUME UNCHANGED <<bookOf, inGroup, tagged>>, DOMAIN books' \subseteq DOMAIN books
    PROVE  \A q : Foreign(q)
BY DEF Foreign, NoMore

\* So is one that adds to a node of its own, or to one that it alone has matched.
LEMMA WriteForeign ==
    ASSUME WrittenInv, Record, NEW r \in Request, NEW n,
           \/ n = r /\ Busy(r)
           \/ Between(r) /\ n = req[r].id,
           \A m : m # n => Untouched(m), DOMAIN books' \subseteq DOMAIN books \cup {n}
    PROVE  \A q \in Request \ {r} : Foreign(q)
<1> SUFFICES ASSUME NEW q \in Request \ {r}, Between(q), q \notin overlapped'
             PROVE  /\ NoMore(req[q].id)
                    /\ req[q].id \in DOMAIN books' =>
                           /\ req[q].id \in DOMAIN books
                           /\ \A x \in tagged : x.node = req[q].id => x \in tagged'
  BY DEF Foreign
<1>1. q \notin overlapped /\ RivalsInv
  BY Recorded DEF WrittenInv
<1>2. req[q].id # n
  <2>1. CASE n = r /\ Busy(r)
    <3>1. Refers(req[q])
      BY DEF Between, WrittenInv, KnownInv
    <3>2. req[q].id \in Request /\ req[req[q].id].pc = "done"
      BY <3>1 DEF Refers, Between, Made
    <3> QED
      BY <2>1, <3>2 DEF Busy, Steps
  <2>2. CASE Between(r) /\ n = req[r].id
    BY <1>1, <2>2 DEF RivalsInv, Rivals
  <2> QED
    BY <2>1, <2>2
<1>3. Untouched(req[q].id)
  BY <1>2
<1> QED
  BY <1>2, <1>3 DEF Untouched, NoMore

\* So is one that deletes a node with its relations.
LEMMA DeleteForeign ==
    ASSUME NEW n, n \notin DOMAIN books', DOMAIN books' \subseteq DOMAIN books,
           bookOf' \subseteq bookOf, inGroup' \subseteq inGroup,
           tagged' = {x \in tagged : x.node # n}
    PROVE  \A q : Foreign(q)
BY DEF Foreign, NoMore

\* A request that changes nothing but itself leaves everything as written.
LEMMA BeginWritten ==
    ASSUME WrittenInv, Record, NEW r \in Request, NEW args \in RequestRecord,
           NEW next \in {"write", "done", "failed"}, Begin(r, args, next), OverlapInv',
           Refers(args),
           next = "write" /\ args.op = "signIn" =>
               /\ users = {}
               /\ \A q \in Request : req[q].op # "signIn" \/ req[q].pc # "write"
    PROVE  WrittenInv'
<1>1. /\ KnownInv' /\ \A q \in Request : req[q].pc = "done" => req'[q] = req[q]
      /\ req[r].pc = "new" /\ req'[r].pc = next /\ \A q \in Request \ {r} : req'[q] = req[q]
      /\ UNCHANGED <<users, groups, inGroup, tags, tagged, accounts, books, bookOf, has, seen>>
  BY BeginKnown DEF WrittenInv
<1>2. /\ \A a \in DOMAIN accounts : req'[accounts[a].data] = req[accounts[a].data]
      /\ \A b \in DOMAIN books : req'[books[b]] = req[books[b]]
  BY <1>1 DEF WrittenInv, KnownInv, Authored, OverlapInv, TypeOK
<1>3. ASSUME NEW a \in DOMAIN accounts PROVE AccountFits(a)'
  <2>1. AccountFits(a)
    BY DEF WrittenInv
  <2> QED
    BY <1>1, <1>2, <2>1, Recorded DEF AccountFits, GroupsHave, GroupsOnly, BooksHave, BooksOnly,
       LabelsHave, LabelsOnly
<1>4. ASSUME NEW b \in DOMAIN books PROVE BookFits(b)'
  <2>1. BookFits(b)
    BY DEF WrittenInv
  <2> QED
    BY <1>1, <1>2, <2>1, Recorded DEF BookFits, LabelsHave, LabelsOnly
<1>5. BetweenFits(r)'
  <2>1. BetweenFits(r)
    BY DEF WrittenInv
  <2> QED
    BY <1>1, <2>1 DEF BetweenFits, Updating
<1>6. \A q \in Request \ {r} : BetweenFits(q)'
  BY <1>1, NothingForeign, OthersBetween
<1> QED
  BY <1>1, <1>3, <1>4, <1>5, <1>6, Recorded DEF WrittenInv

LEMMA BareCalls ==
    ASSUME KnownInv, NEW op \in Operation, NEW call \in Calls(op)
    PROVE  call \in RequestRecord /\ call.op = op /\ call.book = None /\ call.group = None
<1>1. PICK u \in users : call = [Blank EXCEPT !.op = op, !.token = u]
  BY DEF Calls
<1> QED
  BY <1>1 DEF Blank, RequestRecord, KnownInv, OverlapInv, TypeOK

LEMMA FullCalls ==
    ASSUME KnownInv, NEW op \in Operation, NEW call \in AccountCalls(op)
    PROVE  /\ call \in RequestRecord /\ call.op = op
           /\ call.book \in Made("createBook") \cup {None}
           /\ call.group \in Made("mergeGroup") \cup {None}
BY DEF AccountCalls, RequestRecord, KnownInv, OverlapInv, TypeOK, Made

LEMMA RegistryBeginsWritten ==
    ASSUME WrittenInv, Record, NEW r \in Request, OverlapInv',
           \/ /\ SignIn(r)
              /\ \A q \in Request : req[q].op # "signIn" \/ req[q].pc # "write"
           \/ MergeTag(r) \/ MergeGroup(r) \/ FindGroup(r)
    PROVE  WrittenInv'
<1>0. KnownInv
  BY DEF WrittenInv
<1>1. CASE /\ SignIn(r)
           /\ \A q \in Request : req[q].op # "signIn" \/ req[q].pc # "write"
  <2> DEFINE args == [Blank EXCEPT !.op = "signIn"]
  <2>1. args \in RequestRecord /\ Refers(args)
    BY DEF Blank, RequestRecord, Operation, Refers
  <2>2. Begin(r, args, IF users = {} THEN "write" ELSE "done")
    BY <1>1 DEF SignIn
  <2> QED
    BY <1>1, <2>1, <2>2, BeginWritten
<1>2. CASE MergeTag(r)
  <2>1. PICK call \in Calls("mergeTag"), label \in Label :
          Begin(r, [call EXCEPT !.label = label],
                IF \E t \in tags : t.label = label THEN "done" ELSE "write")
    BY <1>2 DEF MergeTag
  <2> DEFINE args == [call EXCEPT !.label = label]
  <2>2. call \in RequestRecord /\ call.op = "mergeTag" /\ call.book = None /\ call.group = None
    BY <1>0, BareCalls DEF Operation
  <2>3. args \in RequestRecord /\ Refers(args) /\ args.op # "signIn"
    BY <2>2 DEF RequestRecord, Refers
  <2> QED
    BY <2>1, <2>3, BeginWritten
<1>3. CASE MergeGroup(r)
  <2>1. PICK call \in Calls("mergeGroup"), label \in GroupLabel :
          Begin(r, [call EXCEPT !.label = label],
                IF \E g \in DOMAIN groups : groups[g] = label THEN "done" ELSE "write")
    BY <1>3 DEF MergeGroup
  <2> DEFINE args == [call EXCEPT !.label = label]
  <2>2. call \in RequestRecord /\ call.op = "mergeGroup" /\ call.book = None /\ call.group = None
    BY <1>0, BareCalls DEF Operation
  <2>3. args \in RequestRecord /\ Refers(args) /\ args.op # "signIn"
    BY <2>2 DEF RequestRecord, Refers
  <2> QED
    BY <2>1, <2>3, BeginWritten
<1>4. CASE FindGroup(r)
  <2>1. PICK id \in Made("mergeGroup"), label \in GroupLabel,
             call \in Calls("updateGroup") \cup Calls("deleteGroup") :
          Begin(r, [call EXCEPT !.id = id, !.label = label],
                IF GroupsOf(id) = {} THEN "failed" ELSE "write")
    BY <1>4 DEF FindGroup
  <2> DEFINE args == [call EXCEPT !.id = id, !.label = label]
  <2>2. /\ call \in RequestRecord /\ call.op \in {"updateGroup", "deleteGroup"}
        /\ call.book = None /\ call.group = None
    BY <1>0, BareCalls DEF Operation
  <2>3. args \in RequestRecord /\ Refers(args) /\ args.op # "signIn"
    BY <2>2 DEF RequestRecord, Refers, Made
  <2> QED
    BY <2>1, <2>3, BeginWritten
<1> QED
  BY <1>1, <1>2, <1>3, <1>4

LEMMA BookBeginsWritten ==
    ASSUME WrittenInv, Record, NEW r \in Request, OverlapInv',
           CheckAddress(r) \/ FindAccount(r) \/ CheckAccount(r) \/ FindBook(r)
    PROVE  WrittenInv'
<1>0. KnownInv
  BY DEF WrittenInv
<1>1. CASE CheckAddress(r)
  <2>1. PICK args \in AccountCalls("createAccount") :
          Begin(r, args, IF WithAddress(args.address) = {} THEN "write" ELSE "failed")
    BY <1>1 DEF CheckAddress
  <2>2. args \in RequestRecord /\ Refers(args) /\ args.op # "signIn"
    BY <1>0, FullCalls DEF Operation, Refers
  <2> QED
    BY <2>1, <2>2, BeginWritten
<1>2. CASE FindAccount(r)
  <2>1. PICK id \in Made("createAccount"),
             call \in AccountCalls("updateAccount") \cup Calls("deleteAccount") :
          Begin(r, [call EXCEPT !.id = id],
                IF id \in DOMAIN accounts THEN "write" ELSE "failed")
    BY <1>2 DEF FindAccount
  <2> DEFINE args == [call EXCEPT !.id = id]
  <2>2. /\ call \in RequestRecord /\ call.op \in {"updateAccount", "deleteAccount"}
        /\ call.book \in Made("createBook") \cup {None}
        /\ call.group \in Made("mergeGroup") \cup {None}
    BY <1>0, FullCalls, BareCalls DEF Operation
  <2>3. args \in RequestRecord /\ args.op = call.op /\ args.id = id
    BY <2>2 DEF RequestRecord, Made
  <2>4. args.book = call.book /\ args.group = call.group
    BY <2>2 DEF RequestRecord
  <2>5. Refers(args) /\ args.op # "signIn"
    BY <2>2, <2>3, <2>4 DEF Refers
  <2> QED
    BY <2>1, <2>3, <2>5, BeginWritten
<1>3. CASE CheckAccount(r)
  <2>1. PICK call \in Calls("createBook"), address \in Address \cup {None},
             labels \in SUBSET Label :
          Begin(r, [call EXCEPT !.address = address, !.tags = labels],
                IF address # None /\ WithAddress(address) = {} THEN "failed" ELSE "write")
    BY <1>3 DEF CheckAccount
  <2> DEFINE args == [call EXCEPT !.address = address, !.tags = labels]
  <2>2. call \in RequestRecord /\ call.op = "createBook" /\ call.book = None /\ call.group = None
    BY <1>0, BareCalls DEF Operation
  <2>3. [call EXCEPT !.address = address] \in RequestRecord
    BY <2>2 DEF RequestRecord
  <2>4. args = [[call EXCEPT !.address = address] EXCEPT !.tags = labels]
    BY <2>2 DEF RequestRecord
  <2>5. args \in RequestRecord
    BY <2>3, <2>4 DEF RequestRecord
  <2>6. Refers(args) /\ args.op # "signIn"
    BY <2>2 DEF RequestRecord, Refers
  <2> QED
    BY <2>1, <2>5, <2>6, BeginWritten
<1>4. CASE FindBook(r)
  <2>1. PICK id \in Made("createBook"), labels \in SUBSET Label,
             call \in Calls("updateBook") \cup Calls("deleteBook") :
          Begin(r, [call EXCEPT !.id = id, !.tags = labels],
                IF id \in DOMAIN books THEN "write" ELSE "failed")
    BY <1>4 DEF FindBook
  <2> DEFINE args == [call EXCEPT !.id = id, !.tags = labels]
  <2>2. /\ call \in RequestRecord /\ call.op \in {"updateBook", "deleteBook"}
        /\ call.book = None /\ call.group = None
    BY <1>0, BareCalls DEF Operation
  <2>3. [call EXCEPT !.id = id] \in RequestRecord
    BY <2>2 DEF RequestRecord, Made
  <2>4. args = [[call EXCEPT !.id = id] EXCEPT !.tags = labels]
    BY <2>2 DEF RequestRecord
  <2>5. args \in RequestRecord
    BY <2>3, <2>4 DEF RequestRecord
  <2>6. /\ args.op = call.op /\ args.id = id
        /\ args.book = call.book /\ args.group = call.group
    BY <2>2 DEF RequestRecord
  <2>7. Refers(args) /\ args.op # "signIn"
    BY <2>2, <2>6 DEF Refers
  <2> QED
    BY <2>1, <2>5, <2>7, BeginWritten
<1> QED
  BY <1>1, <1>2, <1>3, <1>4

---------------------------------------------------------------------------
(* The second queries, on what is already written.                         *)

\* Written by an answered request, a node whose relations are left alone stays as written.
LEMMA AccountStays ==
    ASSUME WrittenInv, Record, NEW a \in DOMAIN accounts, Untouched(a), groups' = groups,
           DOMAIN books' \subseteq DOMAIN books \/ \E r \in Request :
               DOMAIN books' = DOMAIN books \cup {r} /\ req[r].pc # "done",
           accounts'[a].data = accounts[a].data,
           \A q \in Request : req[q].pc = "done" => req'[q] = req[q]
    PROVE  AccountFits(a)'
<1> DEFINE w == req[accounts[a].data]
<1>1. w.pc = "done" /\ req'[accounts'[a].data] = w /\ Refers(w)
  BY DEF WrittenInv, KnownInv, Authored, OverlapInv, TypeOK
<1>2. /\ GroupsHave(a, w) /\ BooksHave(a, w) /\ LabelsHave(a, w)
      /\ accounts'[a].data \notin overlapped' =>
             GroupsOnly(a, w) /\ BooksOnly(a, w) /\ LabelsOnly(a, w)
  BY Recorded DEF WrittenInv, AccountFits
<1> HIDE DEF w
<1>3. w.book \in DOMAIN books' => w.book \in DOMAIN books
  <2>1. \A r \in Request : req[r].pc # "done" => w.book # r
    BY <1>1, WorkspaceAssumption DEF Refers, Made
  <2> QED
    BY <2>1
<1>4. /\ \A g \in DOMAIN groups' : g.id = w.group => <<a, g>> \in inGroup'
      /\ GroupsOnly(a, w) => \A x \in inGroup' : x[1] = a => x[2].id = w.group
  BY <1>2 DEF GroupsHave, GroupsOnly, Untouched
<1>5. /\ w.book \in DOMAIN books' => <<w.book, a>> \in bookOf'
      /\ BooksOnly(a, w) => \A x \in bookOf' : x[2] = a => x[1] = w.book
  BY <1>2, <1>3 DEF BooksHave, BooksOnly, Untouched
<1>6. /\ \A l \in w.tags : \E x \in tagged' : x.node = a /\ x.tag.label = l
      /\ LabelsOnly(a, w) => \A x \in tagged' : x.node = a => x.tag.label \in w.tags
  BY <1>2 DEF LabelsHave, LabelsOnly, Untouched
<1> QED
  BY <1>1, <1>2, <1>4, <1>5, <1>6 DEF AccountFits, GroupsHave, GroupsOnly, BooksHave, BooksOnly,
     LabelsHave, LabelsOnly

LEMMA BookStays ==
    ASSUME WrittenInv, Record, NEW b \in DOMAIN books, books'[b] = books[b],
           \A x : x.node = b => (x \in tagged <=> x \in tagged'),
           \A q \in Request : req[q].pc = "done" => req'[q] = req[q]
    PROVE  BookFits(b)'
<1> DEFINE w == req[books[b]]
<1>1. w.pc = "done" /\ req'[books'[b]] = w
  BY DEF WrittenInv, KnownInv, Authored, OverlapInv, TypeOK
<1>2. books'[b] \notin overlapped' => LabelsHave(b, w) /\ LabelsOnly(b, w)
  BY Recorded DEF WrittenInv, BookFits
<1> HIDE DEF w
<1>3. ASSUME books'[b] \notin overlapped'
      PROVE  /\ \A x \in tagged' : x.node = b => x.tag.label \in w.tags
             /\ \A l \in w.tags : \E x \in tagged' : x.node = b /\ x.tag.label = l
  BY <1>2, <1>3 DEF LabelsHave, LabelsOnly
<1> QED
  BY <1>1, <1>3 DEF BookFits, LabelsHave, LabelsOnly

\* The tag relations a write makes show the labels of the request, all of them and no others.
LEMMA EachLabelRelated ==
    ASSUME NEW r \in Request, NEW node, NEW l \in req[r].tags
    PROVE  \E x \in TagRelations(r, node, req[r].tags) : x.node = node /\ x.tag.label = l
<1>1. \E t \in Merged(r, req[r].tags) : t.label = l
  <2>1. CASE \E t \in tags : t.label = l
    BY <2>1 DEF Merged
  <2>2. CASE \A t \in tags : t.label # l
    <3> DEFINE t == [by |-> r, label |-> l]
    <3>1. t \in [by : {r}, label : req[r].tags] /\ t.label = l
      OBVIOUS
    <3> HIDE DEF t
    <3>2. t \in Merged(r, req[r].tags)
      BY <2>2, <3>1 DEF Merged
    <3> QED
      BY <3>1, <3>2
  <2> QED
    BY <2>1, <2>2
<1>2. PICK t \in Merged(r, req[r].tags) : t.label = l
  BY <1>1
<1>3. [node |-> node, tag |-> t, owner |-> req[r].token] \in TagRelations(r, node, req[r].tags)
  BY DEF TagRelations
<1> QED
  BY <1>2, <1>3

LEMMA OnlyLabelsRelated ==
    ASSUME NEW r \in Request, NEW node
    PROVE  \A x \in TagRelations(r, node, req[r].tags) :
               x.node = node /\ x.tag.label \in req[r].tags
<1>1. \A t \in Merged(r, req[r].tags) : t.label \in req[r].tags
  BY DEF Merged
<1>2. \A x \in TagRelations(r, node, req[r].tags) :
          x.node = node /\ x.tag \in Merged(r, req[r].tags)
  BY DEF TagRelations
<1> QED
  BY <1>1, <1>2

\* Second queries that leave accounts, address books and their relations alone, but for
\* the groups they make or delete.
LEMMA RegistryEndsWritten ==
    ASSUME WrittenInv, Record, NEW r \in Request, OverlapInv',
           CreateUser(r) \/ CreateTag(r) \/ CreateGroup(r) \/ UpdateGroup(r) \/ DeleteGroup(r)
    PROVE  WrittenInv'
<1>0. KnownInv
  BY DEF WrittenInv
<1> USE DEF bookVars, registryVars
<1>1. /\ req[r].pc = "write" /\ End(r, "done") /\ Busy(r)
      /\ UNCHANGED <<tagged, accounts, books, bookOf, has, seen>> /\ inGroup' \subseteq inGroup
      /\ users' = users \/ (req[r].op = "signIn" /\ users' = users \cup {r})
  BY DEF CreateUser, CreateTag, CreateGroup, UpdateGroup, DeleteGroup, Busy, Steps
<1>2. \A g \in DOMAIN groups' :
         g \in DOMAIN groups \/ (g.id = r /\ req[r].op = "mergeGroup")
  BY DEF CreateUser, CreateTag, CreateGroup, UpdateGroup, DeleteGroup, Restrict
<1>3. /\ KnownInv' /\ \A q \in Request : req[q].pc = "done" => req'[q] = req[q]
      /\ req'[r].pc = "done" /\ \A q \in Request \ {r} : req'[q] = req[q]
  BY <1>0, <1>1, <1>2, EndKnown
<1>4. ASSUME NEW a \in DOMAIN accounts PROVE AccountFits(a)'
  <2> DEFINE w == req[accounts[a].data]
  <2>1. w.pc = "done" /\ req'[accounts'[a].data] = w /\ Refers(w)
    BY <1>0, <1>1, <1>3 DEF KnownInv, Authored, OverlapInv, TypeOK
  <2>2. /\ GroupsHave(a, w) /\ BooksHave(a, w) /\ LabelsHave(a, w)
        /\ accounts'[a].data \notin overlapped' =>
               GroupsOnly(a, w) /\ BooksOnly(a, w) /\ LabelsOnly(a, w)
    BY <1>1, Recorded DEF WrittenInv, AccountFits
  <2>3. w.group # r
    BY <1>1, <2>1, WorkspaceAssumption DEF Refers, Made
  <2> HIDE DEF w
  <2>4. GroupsOnly(a, w) => \A x \in inGroup' : x[1] = a => x[2].id = w.group
    BY <1>1 DEF GroupsOnly
  <2>5. ASSUME NEW g \in DOMAIN groups', g.id = w.group PROVE <<a, g>> \in inGroup'
    <3>1. g \in DOMAIN groups
      BY <1>2, <2>3, <2>5
    <3>2. <<a, g>> \in inGroup
      BY <2>2, <2>5, <3>1 DEF GroupsHave
    <3>3. CASE inGroup' = inGroup
      BY <3>2, <3>3
    <3>4. CASE DeleteGroup(r)
      <4>1. /\ inGroup' = {x \in inGroup : x[2].id # req[r].id}
            /\ g \in DOMAIN groups \ GroupsOf(req[r].id)
        BY <2>5, <3>4 DEF DeleteGroup, Restrict
      <4>2. g.id # req[r].id
        BY <4>1 DEF GroupsOf
      <4> QED
        BY <3>2, <4>1, <4>2
    <3> QED
      BY <3>3, <3>4 DEF CreateUser, CreateTag, CreateGroup, UpdateGroup
  <2> QED
    BY <1>1, <2>1, <2>2, <2>4, <2>5 DEF AccountFits, GroupsHave, GroupsOnly, BooksHave, BooksOnly,
       LabelsHave, LabelsOnly
<1>5. ASSUME NEW b \in DOMAIN books PROVE BookFits(b)'
  BY <1>1, <1>3, BookStays
<1>6. BetweenFits(r)'
  <2>1. BetweenFits(r)
    BY DEF WrittenInv
  <2> QED
    BY <1>1, <1>3, <2>1 DEF BetweenFits, Updating
<1>7. \A q : Foreign(q)
  BY <1>1 DEF Foreign, NoMore
<1>8. \A q \in Request \ {r} : BetweenFits(q)'
  BY <1>1, <1>3, <1>7, OthersBetween
<1> QED
  BY <1>1, <1>3, <1>4, <1>5, <1>6, <1>8, Recorded DEF WrittenInv

\* What others have seen, when r writes what it has seen itself.
Apart(r) == \/ \A q \in Request \ {r} : seen'[q] = seen[q]
            \/ Forget(r) /\ Updating(r)

\* An account that is written, new or not, and no other node.  Of its relations none is kept
\* unless the request had a rival.
LEMMA RelateWritten ==
    ASSUME WrittenInv, Record, NEW r \in Request, Busy(r), OverlapInv', End(r, "done"),
           Matches(r), NEW a,
           \/ a = r /\ req[r].op = "createAccount"
           \/ Between(r) /\ a = req[r].id /\ a \in DOMAIN accounts,
           DOMAIN accounts' = DOMAIN accounts \cup {a}, accounts'[a].data = r,
           \A c \in DOMAIN accounts \ {a} : accounts'[c] = accounts[c],
           UNCHANGED <<users, groups, books, has>>,
           NEW keptBooks, NEW keptGroups, NEW keptTags,
           Relate(r, a, keptBooks, keptGroups, keptTags),
           keptBooks \subseteq bookOf, keptGroups \subseteq inGroup, keptTags \subseteq tagged,
           \A x \in bookOf : x[2] # a => x \in keptBooks,
           \A x \in inGroup : x[1] # a => x \in keptGroups,
           \A x \in tagged : x.node # a => x \in keptTags,
           r \notin overlapped' =>
               /\ \A x \in keptBooks : x[2] # a
               /\ \A x \in keptGroups : x[1] # a
               /\ \A x \in keptTags : x.node # a,
           Apart(r), seen'[r] = Nothing
    PROVE  WrittenInv'
<1>0. KnownInv /\ Refers(req[r]) /\ req[r].pc # "done"
  BY DEF WrittenInv, KnownInv, Busy, Steps
<1>1. /\ KnownInv' /\ \A q \in Request : req[q].pc = "done" => req'[q] = req[q]
      /\ req'[r].pc = "done" /\ \A q \in Request \ {r} : req'[q] = req[q]
  BY <1>0, EndKnown
<1>2. /\ bookOf' = keptBooks \cup ({req[r].book} \ {None}) \X {a}
      /\ inGroup' = keptGroups \cup {a} \X GroupsOf(req[r].group)
      /\ tagged' = keptTags \cup TagRelations(r, a, req[r].tags)
  BY DEF Relate
<1>3. ASSUME NEW node, node # a PROVE Untouched(node)
  <2>1. \A x : x[2] = node => (x \in bookOf <=> x \in bookOf')
    BY <1>2, <1>3
  <2>2. \A x : x[1] = node => (x \in inGroup <=> x \in inGroup')
    BY <1>2, <1>3
  <2>3. \A x : x.node = node => (x \in tagged <=> x \in tagged')
    BY <1>2, <1>3 DEF TagRelations
  <2> QED
    BY <2>1, <2>2, <2>3 DEF Untouched
<1>4. ASSUME NEW c \in DOMAIN accounts \ {a} PROVE AccountFits(c)'
  BY <1>1, <1>3, AccountStays
<1>5. AccountFits(a)'
  <2>1. /\ req'[r].book = req[r].book /\ req'[r].group = req[r].group
        /\ req'[r].tags = req[r].tags
    BY <1>0 DEF End, KnownInv, OverlapInv, TypeOK, RequestRecord
  <2>2. /\ \A g \in DOMAIN groups' : g.id = req[r].group => <<a, g>> \in inGroup'
        /\ r \notin overlapped' => \A x \in inGroup' : x[1] = a => x[2].id = req[r].group
    BY <1>2 DEF GroupsOf
  <2>3. None \notin DOMAIN books
    BY <1>0, WorkspaceAssumption DEF KnownInv, OverlapInv, TypeOK
  <2>4. /\ req[r].book \in DOMAIN books' => <<req[r].book, a>> \in bookOf'
        /\ r \notin overlapped' => \A x \in bookOf' : x[2] = a => x[1] = req[r].book
    BY <1>2, <2>3
  <2>5. /\ \A l \in req[r].tags : \E x \in tagged' : x.node = a /\ x.tag.label = l
        /\ r \notin overlapped' => \A x \in tagged' : x.node = a => x.tag.label \in req[r].tags
    <3>1. tagged' = keptTags \cup TagRelations(r, a, req[r].tags)
      BY <1>2
    <3>2. r \notin overlapped' => \A x \in keptTags : x.node # a
      OBVIOUS
    <3>3. ASSUME NEW l \in req[r].tags
          PROVE  \E x \in tagged' : x.node = a /\ x.tag.label = l
      <4>1. PICK x \in TagRelations(r, a, req[r].tags) : x.node = a /\ x.tag.label = l
        BY EachLabelRelated
      <4> QED
        BY <3>1, <4>1
    <3>4. \A x \in TagRelations(r, a, req[r].tags) : x.tag.label \in req[r].tags
      BY OnlyLabelsRelated
    <3> QED
      BY <3>1, <3>2, <3>3, <3>4
  <2> QED
    BY <2>1, <2>2, <2>4, <2>5 DEF AccountFits, GroupsHave, GroupsOnly, BooksHave, BooksOnly,
       LabelsHave, LabelsOnly
<1>6. ASSUME NEW b \in DOMAIN books PROVE BookFits(b)'
  <2>1. b # a
    BY <1>0 DEF KnownInv, Authored, Made
  <2>2. \A x : x.node = b => (x \in tagged <=> x \in tagged')
    BY <1>3, <2>1 DEF Untouched
  <2> QED
    BY <1>1, <2>2, BookStays
<1>7. BetweenFits(r)'
  BY <1>1 DEF BetweenFits, Updating
<1>8. \A q \in Request \ {r} : Foreign(q)
  BY <1>3, WriteForeign
<1>9. \A q \in Request \ {r} : BetweenFits(q)'
  BY <1>1, <1>8, OthersBetween DEF Apart
<1> QED
  BY <1>1, <1>4, <1>5, <1>6, <1>7, <1>9, Recorded DEF WrittenInv

\* A step that leaves accounts and address books alone.
LEMMA NothingWritten ==
    ASSUME WrittenInv, Record, NEW r \in Request, Busy(r), OverlapInv',
           NEW pc \in {"done", "failed", "matched", "set"}, End(r, pc),
           UNCHANGED <<users, groups, inGroup, tagged, accounts, books, bookOf>>,
           \A q \in Request \ {r} : seen'[q] = seen[q], BetweenFits(r)'
    PROVE  WrittenInv'
<1>1. /\ KnownInv' /\ \A q \in Request : req[q].pc = "done" => req'[q] = req[q]
      /\ \A q \in Request \ {r} : req'[q] = req[q]
  BY EndKnown DEF WrittenInv
<1>2. ASSUME NEW a \in DOMAIN accounts PROVE AccountFits(a)'
  <2>1. Untouched(a)
    BY DEF Untouched
  <2> QED
    BY <1>1, <2>1, AccountStays
<1>3. ASSUME NEW b \in DOMAIN books PROVE BookFits(b)'
  BY <1>1, BookStays
<1>4. \A q \in Request \ {r} : BetweenFits(q)'
  BY <1>1, NothingForeign, OthersBetween
<1> QED
  BY <1>1, <1>2, <1>3, <1>4, Recorded DEF WrittenInv

\* What a request has seen goes with its answer.
LEMMA SeenAnswered ==
    ASSUME WrittenInv, NEW r \in Request, NEW pc \in {"done", "failed"}, End(r, pc),
           \/ req[r].pc # "matched" /\ seen' = seen
           \/ seen' = [seen EXCEPT ![r] = Nothing]
           \/ Forget(r)
    PROVE  BetweenFits(r)' /\ seen'[r] = Nothing
<1>1. /\ req[r].pc # "matched" => seen[r] = Nothing
      /\ seen \in [Request -> Relations] /\ TypeOK
  BY DEF WrittenInv, BetweenFits, KnownInv, OverlapInv, TypeOK
<1>2. seen'[r] = Nothing
  BY <1>1 DEF Forget
<1>3. req'[r].pc = pc
  BY <1>1, EndsOne
<1> QED
  BY <1>2, <1>3 DEF BetweenFits, Updating

\* With one user node the caller owns every tag relation.
LEMMA OwnIsAll ==
    ASSUME KnownInv, NEW r \in Request, Busy(r), req[r].op \in {"updateAccount", "updateBook"},
           NEW node
    PROVE  \A x \in tagged : x.node = node => x \in OwnRelations(r, node)
<1>1. req[r].token \in users
  BY DEF KnownInv, OverlapInv, Armed
<1>2. \A x \in tagged : x.owner \in users
  BY DEF KnownInv, OverlapInv, TypeOK
<1> QED
  BY <1>1, <1>2 DEF KnownInv, OneUser, OwnRelations

LEMMA AccountEndsWritten ==
    ASSUME WrittenInv, Record, NEW r \in Request, OverlapInv',
           CreateAccount(r) \/ MatchAccount(r) \/ UpdateAccount(r) \/ DeleteAccount(r)
    PROVE  WrittenInv'
<1>0. /\ KnownInv /\ TypeOK /\ BetweenFits(r)
      /\ req[r].pc # "new" => Refers(req[r])
      /\ r \notin overlapped' => r \notin overlapped
  BY Recorded DEF WrittenInv, KnownInv, OverlapInv
<1> USE DEF bookVars, registryVars
<1>1. CASE CreateAccount(r)
  <2>1. /\ req[r].pc = "write" /\ req[r].op = "createAccount" /\ Busy(r)
        /\ UNCHANGED <<users, groups, books, has, seen>>
    BY <1>1 DEF CreateAccount, Busy, Steps
  <2>2. CASE Matches(r)
    <3>1. /\ accounts' = [a \in DOMAIN accounts \cup {r} |->
                IF a = r THEN [address |-> req[r].address, data |-> r] ELSE accounts[a]]
          /\ Relate(r, r, bookOf, inGroup, tagged) /\ End(r, "done")
      BY <1>1, <2>2 DEF CreateAccount
    <3>2. r \notin DOMAIN accounts /\ r \notin DOMAIN books
      BY <1>0, <2>1 DEF KnownInv, Authored, Made
    <3>3. /\ \A x \in bookOf : x[2] # r
          /\ \A x \in inGroup : x[1] # r
          /\ \A x \in tagged : x.node # r
      BY <1>0, <3>2 DEF TypeOK
    <3>4. seen'[r] = Nothing /\ Apart(r)
      BY <1>0, <2>1 DEF BetweenFits, Apart
    <3>5. DOMAIN accounts' = DOMAIN accounts \cup {r} /\ accounts'[r].data = r
      BY <3>1
    <3>6. \A c \in DOMAIN accounts \ {r} : accounts'[c] = accounts[c]
      BY <3>1
    <3> QED
      BY <2>1, <2>2, <3>1, <3>3, <3>4, <3>5, <3>6, RelateWritten
  <2>3. CASE ~Matches(r)
    <3>1. End(r, "failed") /\ UNCHANGED <<accounts, bookOf, inGroup, tags, tagged>>
      BY <1>1, <2>3 DEF CreateAccount
    <3>2. BetweenFits(r)'
      BY <2>1, <3>1, SeenAnswered
    <3> QED
      BY <2>1, <3>1, <3>2, NothingWritten
  <2> QED
    BY <2>2, <2>3
<1>2. CASE MatchAccount(r)
  <2> DEFINE a == req[r].id
  <2>1. /\ req[r].pc = "write" /\ req[r].op = "updateAccount" /\ Busy(r) /\ seen[r] = Nothing
        /\ UNCHANGED <<users, groups, inGroup, tags, tagged, accounts, books, bookOf, has>>
    BY <1>0, <1>2 DEF MatchAccount, Busy, Steps, BetweenFits
  <2>2. CASE a \in DOMAIN accounts /\ Matches(r)
    <3>1. /\ seen' = [seen EXCEPT ![r] =
                [accounts |-> {}, books |-> {x \in bookOf : x[2] = a},
                 groups |-> {x \in inGroup : x[1] = a}, tags |-> OwnRelations(r, a)]]
          /\ End(r, "matched")
      BY <1>2, <2>2 DEF MatchAccount
    <3>2. /\ seen'[r].books = {x \in bookOf : x[2] = a}
          /\ seen'[r].groups = {x \in inGroup : x[1] = a}
          /\ seen'[r].tags = OwnRelations(r, a)
          /\ \A q \in Request \ {r} : seen'[q] = seen[q]
      BY <1>0, <3>1 DEF TypeOK
    <3>3. req'[r].id = a /\ req'[r].pc = "matched"
      BY <1>0, <3>1 DEF End, TypeOK, RequestRecord
    <3>4. \A x \in tagged : x.node = a => x \in OwnRelations(r, a)
      BY <1>0, <2>1, OwnIsAll
    <3>5. FoundOwn(r)' /\ FoundAll(r)'
      BY <2>1, <3>2, <3>3, <3>4 DEF FoundOwn, FoundAll, OwnRelations
    <3>6. BetweenFits(r)'
      BY <3>3, <3>5 DEF BetweenFits
    <3> QED
      BY <2>1, <3>1, <3>2, <3>6, NothingWritten
  <2>3. CASE ~(a \in DOMAIN accounts /\ Matches(r))
    <3>1. UNCHANGED seen /\ (End(r, "done") \/ End(r, "failed"))
      BY <1>2, <2>3 DEF MatchAccount
    <3>2. BetweenFits(r)'
      BY <2>1, <3>1, SeenAnswered
    <3> QED
      BY <2>1, <3>1, <3>2, NothingWritten
  <2> QED
    BY <2>2, <2>3
<1>3. CASE UpdateAccount(r)
  <2> DEFINE a == req[r].id
  <2>1. /\ req[r].pc = "matched" /\ req[r].op = "updateAccount" /\ Busy(r)
        /\ UNCHANGED <<users, groups, books, has>> /\ Between(r) /\ Updating(r)
    BY <1>3 DEF UpdateAccount, Busy, Steps, Between, Updating
  <2>2. CASE a \in DOMAIN accounts /\ Matches(r)
    <3> DEFINE keptBooks == bookOf \ seen[r].books
               keptGroups == inGroup \ seen[r].groups
               keptTags == tagged \ seen[r].tags
    <3>1. /\ accounts' = [accounts EXCEPT ![a] = [address |-> req[r].address, data |-> r]]
          /\ Relate(r, a, keptBooks, keptGroups, keptTags)
          /\ Forget(r) /\ End(r, "done")
      BY <1>3, <2>2 DEF UpdateAccount
    <3>2. FoundOwn(r) /\ (r \notin overlapped' => FoundAll(r))
      BY <1>0, <2>1 DEF BetweenFits
    <3>3. /\ \A x \in bookOf : x[2] # a => x \in keptBooks
          /\ \A x \in inGroup : x[1] # a => x \in keptGroups
          /\ \A x \in tagged : x.node # a => x \in keptTags
      BY <3>2 DEF FoundOwn
    <3>4. r \notin overlapped' =>
              /\ \A x \in keptBooks : x[2] # a
              /\ \A x \in keptGroups : x[1] # a
              /\ \A x \in keptTags : x.node # a
      BY <3>2 DEF FoundAll
    <3>5. keptBooks \subseteq bookOf /\ keptGroups \subseteq inGroup /\ keptTags \subseteq tagged
      OBVIOUS
    <3>6. seen'[r] = Nothing /\ Apart(r)
      BY <2>1, <3>1, SeenAnswered DEF Apart
    <3>7. /\ DOMAIN accounts' = DOMAIN accounts \cup {a} /\ accounts'[a].data = r
          /\ \A c \in DOMAIN accounts \ {a} : accounts'[c] = accounts[c]
      BY <2>2, <3>1
    <3> HIDE DEF keptBooks, keptGroups, keptTags
    <3> QED
      BY <2>1, <2>2, <3>1, <3>3, <3>4, <3>5, <3>6, <3>7, RelateWritten
  <2>3. CASE ~(a \in DOMAIN accounts /\ Matches(r))
    <3>1. /\ End(r, "failed") /\ seen' = [seen EXCEPT ![r] = Nothing]
          /\ UNCHANGED <<accounts, bookOf, inGroup, tags, tagged>>
      BY <1>3, <2>3 DEF UpdateAccount
    <3>2. BetweenFits(r)' /\ \A q \in Request \ {r} : seen'[q] = seen[q]
      BY <1>0, <3>1, SeenAnswered DEF TypeOK
    <3> QED
      BY <2>1, <3>1, <3>2, NothingWritten
  <2> QED
    BY <2>2, <2>3
<1>4. CASE DeleteAccount(r)
  <2> DEFINE a == req[r].id
             as == DOMAIN accounts \ {a}
  <2>1. /\ accounts' = Restrict(accounts, as)
        /\ bookOf' = {x \in bookOf : x[2] # a} /\ inGroup' = {x \in inGroup : x[1] # a}
        /\ tagged' = {x \in tagged : x.node # a}
        /\ End(r, "done") /\ UNCHANGED <<users, tags, groups, books, seen>>
        /\ req[r].pc = "write" /\ req[r].op = "deleteAccount" /\ Busy(r)
    BY <1>4 DEF DeleteAccount, Busy, Steps
  <2>2. DOMAIN accounts' = as /\ \A c \in as : accounts'[c] = accounts[c]
    BY <2>1 DEF Restrict
  <2>3. /\ KnownInv' /\ \A q \in Request : req[q].pc = "done" => req'[q] = req[q]
        /\ \A q \in Request \ {r} : req'[q] = req[q]
    BY <1>0, <2>1, <2>2, EndKnown
  <2>4. ASSUME NEW node, node # a PROVE Untouched(node)
    BY <2>1, <2>4 DEF Untouched
  <2>5. ASSUME NEW c \in as PROVE AccountFits(c)'
    BY <2>1, <2>2, <2>3, <2>4, AccountStays
  <2>6. a \notin DOMAIN books
    BY <1>0, <2>1 DEF KnownInv, Authored, Refers, Made
  <2>7. ASSUME NEW b \in DOMAIN books PROVE BookFits(b)'
    <3>1. \A x : x.node = b => (x \in tagged <=> x \in tagged')
      BY <2>4, <2>6 DEF Untouched
    <3> QED
      BY <2>1, <2>3, <3>1, BookStays
  <2>8. BetweenFits(r)'
    BY <2>1, SeenAnswered
  <2>9. \A q \in Request \ {r} : Foreign(q)
    BY <2>1, <2>6, DeleteForeign
  <2>10. \A q \in Request \ {r} : BetweenFits(q)'
    BY <2>1, <2>3, <2>9, OthersBetween
  <2> QED
    BY <2>1, <2>2, <2>3, <2>5, <2>7, <2>8, <2>10, Recorded DEF WrittenInv
<1> QED
  BY <1>1, <1>2, <1>3, <1>4

\* An address book that is written, new or not, and no other node.
LEMMA BookWritten ==
    ASSUME WrittenInv, Record, NEW r \in Request, Busy(r), OverlapInv', End(r, "done"), NEW b,
           \/ b = r /\ req[r].op = "createBook"
           \/ Between(r) /\ b = req[r].id /\ b \in DOMAIN books,
           DOMAIN books' = DOMAIN books \cup {b}, books'[b] = r,
           \A c \in DOMAIN books \ {b} : books'[c] = books[c],
           UNCHANGED <<users, groups, inGroup, accounts, bookOf>>,
           \A x : x.node # b => (x \in tagged <=> x \in tagged'),
           r \notin overlapped' =>
               /\ \A l \in req[r].tags : \E x \in tagged' : x.node = b /\ x.tag.label = l
               /\ \A x \in tagged' : x.node = b => x.tag.label \in req[r].tags,
           Apart(r), seen'[r] = Nothing
    PROVE  WrittenInv'
<1>0. KnownInv /\ TypeOK /\ req[r].pc # "done"
  BY DEF WrittenInv, KnownInv, OverlapInv, Busy, Steps
<1>1. /\ KnownInv' /\ \A q \in Request : req[q].pc = "done" => req'[q] = req[q]
      /\ req'[r].pc = "done" /\ \A q \in Request \ {r} : req'[q] = req[q]
  BY <1>0, EndKnown
<1>2. ASSUME NEW node, node # b PROVE Untouched(node)
  BY <1>2 DEF Untouched
<1>3. ASSUME NEW a \in DOMAIN accounts PROVE AccountFits(a)'
  <2>1. a # b
    BY <1>0 DEF KnownInv, Authored, Made
  <2>2. Untouched(a)
    BY <1>2, <2>1
  <2>3. \/ DOMAIN books' \subseteq DOMAIN books
        \/ \E q \in Request : DOMAIN books' = DOMAIN books \cup {q} /\ req[q].pc # "done"
    BY <1>0
  <2> QED
    BY <1>1, <2>2, <2>3, AccountStays
<1>4. ASSUME NEW c \in DOMAIN books \ {b} PROVE BookFits(c)'
  <2>1. \A x : x.node = c => (x \in tagged <=> x \in tagged')
    BY <1>2, <1>4 DEF Untouched
  <2> QED
    BY <1>1, <2>1, BookStays
<1>5. BookFits(b)'
  <2>1. req'[r].tags = req[r].tags
    BY <1>0 DEF End, TypeOK, RequestRecord
  <2> QED
    BY <2>1 DEF BookFits, LabelsHave, LabelsOnly
<1>6. BetweenFits(r)'
  BY <1>1 DEF BetweenFits, Updating
<1>7. \A q \in Request \ {r} : Foreign(q)
  BY <1>2, WriteForeign
<1>8. \A q \in Request \ {r} : BetweenFits(q)'
  BY <1>1, <1>7, OthersBetween DEF Apart
<1> QED
  BY <1>1, <1>3, <1>4, <1>5, <1>6, <1>8, Recorded DEF WrittenInv

LEMMA UpdateBookWritten ==
    ASSUME WrittenInv, Record, NEW r \in Request, OverlapInv', UpdateBook(r)
    PROVE  WrittenInv'
<1> USE DEF registryVars
<1> DEFINE b == req[r].id
           new == TagRelations(r, b, req[r].tags)
           kept == tagged \ seen[r].tags
<1>0. /\ KnownInv /\ TypeOK /\ BetweenFits(r)
      /\ r \notin overlapped' => r \notin overlapped
  BY Recorded DEF WrittenInv, KnownInv, OverlapInv
<1>1. /\ req[r].pc = "matched" /\ req[r].op = "updateBook" /\ Busy(r)
      /\ UNCHANGED <<users, groups, inGroup, accounts, bookOf, has>> /\ Between(r) /\ Updating(r)
  BY DEF UpdateBook, Busy, Steps, Between, Updating
<1>2. /\ FoundOwn(r) /\ (r \notin overlapped' => FoundAll(r))
      /\ \A x \in new : x.node = b
  BY <1>0, <1>1 DEF BetweenFits, TagRelations
<1>3. CASE b \notin DOMAIN books
  <2>1. /\ End(r, "failed") /\ seen' = [seen EXCEPT ![r] = Nothing]
        /\ UNCHANGED <<tags, tagged, books>>
    BY <1>3 DEF UpdateBook
  <2>2. BetweenFits(r)' /\ \A q \in Request \ {r} : seen'[q] = seen[q]
    BY <1>0, <2>1, SeenAnswered DEF TypeOK
  <2> QED
    BY <1>1, <2>1, <2>2, NothingWritten
<1>4. ASSUME b \in DOMAIN books
      PROVE  /\ tagged' = kept \cup new
             /\ \A l \in req[r].tags : \E x \in tagged' : x.node = b /\ x.tag.label = l
             /\ r \notin overlapped' =>
                    \A x \in tagged' : x.node = b => x.tag.label \in req[r].tags
  <2>1. tagged' = kept \cup new
    BY <1>4 DEF UpdateBook
  <2>2. r \notin overlapped' => \A x \in kept : x.node # b
    BY <1>2 DEF FoundAll
  <2> HIDE DEF kept
  <2>3. tagged' = kept \cup TagRelations(r, b, req[r].tags)
    BY <2>1
  <2>4. ASSUME NEW l \in req[r].tags PROVE \E x \in tagged' : x.node = b /\ x.tag.label = l
    <3>1. PICK x \in TagRelations(r, b, req[r].tags) : x.node = b /\ x.tag.label = l
      BY EachLabelRelated
    <3> QED
      BY <2>3, <3>1
  <2>5. \A x \in TagRelations(r, b, req[r].tags) : x.tag.label \in req[r].tags
    BY OnlyLabelsRelated
  <2> QED
    BY <2>1, <2>2, <2>3, <2>4, <2>5
<1>5. CASE b \in DOMAIN books /\ (seen[r].tags \cap tagged # {} \/ ~(new \subseteq tagged))
  <2>1. books' = [books EXCEPT ![b] = r] /\ Forget(r) /\ End(r, "done")
    BY <1>5 DEF UpdateBook
  <2>2. /\ DOMAIN books' = DOMAIN books \cup {b} /\ books'[b] = r
        /\ \A c \in DOMAIN books \ {b} : books'[c] = books[c]
    BY <1>5, <2>1
  <2>3. \A x : x.node # b => (x \in tagged <=> x \in tagged')
    BY <1>2, <1>4, <1>5 DEF FoundOwn
  <2>4. seen'[r] = Nothing /\ Apart(r)
    BY <1>1, <2>1, SeenAnswered DEF Apart
  <2> HIDE DEF b
  <2> QED
    BY <1>1, <1>4, <1>5, <2>1, <2>2, <2>3, <2>4, BookWritten DEF b
<1>6. CASE b \in DOMAIN books /\ ~(seen[r].tags \cap tagged # {} \/ ~(new \subseteq tagged))
  <2>1. seen' = [seen EXCEPT ![r] = Nothing] /\ End(r, "set") /\ UNCHANGED books
    BY <1>6 DEF UpdateBook
  <2>2. tagged' = tagged
    BY <1>4, <1>6
  <2>3. seen'[r] = Nothing /\ \A q \in Request \ {r} : seen'[q] = seen[q]
    BY <1>0, <2>1 DEF TypeOK
  <2>4. /\ req'[r].pc = "set" /\ req'[r].op = "updateBook" /\ req'[r].id = b
        /\ req'[r].tags = req[r].tags
    BY <1>0, <1>1, <2>1 DEF End, TypeOK, RequestRecord
  <2>5. r \notin overlapped' => Exact(r)'
    BY <1>4, <1>6, <2>4 DEF Exact, LabelsHave, LabelsOnly
  <2>6. BetweenFits(r)'
    BY <2>3, <2>4, <2>5 DEF BetweenFits, Updating
  <2> QED
    BY <1>1, <2>1, <2>2, <2>3, <2>6, NothingWritten
<1> QED
  BY <1>3, <1>5, <1>6

LEMMA CreateBookWritten ==
    ASSUME WrittenInv, Record, NEW r \in Request, OverlapInv', CreateBook(r)
    PROVE  WrittenInv'
<1> USE DEF registryVars
<1>0. KnownInv /\ TypeOK /\ BetweenFits(r)
  BY DEF WrittenInv, KnownInv, OverlapInv
<1>1. /\ req[r].op = "createBook" /\ Busy(r) /\ seen' = [seen EXCEPT ![r] = Nothing]
      /\ UNCHANGED <<users, groups, inGroup, accounts, bookOf>>
  BY DEF CreateBook, Busy, Steps
<1>2. \A q \in Request \ {r} : seen'[q] = seen[q]
  BY <1>0, <1>1 DEF TypeOK
<1>3. CASE seen[r].accounts \subseteq DOMAIN accounts
  <2>1. /\ books' = [b \in DOMAIN books \cup {r} |-> IF b = r THEN r ELSE books[b]]
        /\ tagged' = tagged \cup TagRelations(r, r, req[r].tags) /\ End(r, "done")
    BY <1>3 DEF CreateBook
  <2>2. r \notin DOMAIN accounts /\ r \notin DOMAIN books
    BY <1>0, <1>1 DEF KnownInv, Authored, Made, Busy, Steps
  <2>3. \A x \in tagged : x.node # r
    BY <1>0, <2>2 DEF TypeOK
  <2>4. ASSUME NEW l \in req[r].tags
        PROVE  \E x \in tagged' : x.node = r /\ x.tag.label = l
    <3>1. PICK x \in TagRelations(r, r, req[r].tags) : x.node = r /\ x.tag.label = l
      BY EachLabelRelated
    <3> QED
      BY <2>1, <3>1
  <2>5. \A x \in tagged' : x.node = r => x.tag.label \in req[r].tags
    <3>1. \A x \in TagRelations(r, r, req[r].tags) : x.tag.label \in req[r].tags
      BY OnlyLabelsRelated
    <3> QED
      BY <2>1, <2>3, <3>1
  <2>6. \A x : x.node # r => (x \in tagged <=> x \in tagged')
    BY <2>1 DEF TagRelations
  <2>7. seen'[r] = Nothing /\ Apart(r)
    BY <1>0, <1>1, <1>2 DEF Apart, TypeOK
  <2>8. /\ DOMAIN books' = DOMAIN books \cup {r} /\ books'[r] = r
        /\ \A c \in DOMAIN books \ {r} : books'[c] = books[c]
    BY <2>1
  <2> QED
    BY <1>1, <2>1, <2>4, <2>5, <2>6, <2>7, <2>8, BookWritten
<1>4. CASE ~(seen[r].accounts \subseteq DOMAIN accounts)
  <2>1. End(r, "failed") /\ UNCHANGED <<books, has, tags, tagged>>
    BY <1>4 DEF CreateBook
  <2>2. BetweenFits(r)'
    BY <1>1, <2>1, SeenAnswered
  <2> QED
    BY <1>1, <1>2, <2>1, <2>2, NothingWritten
<1> QED
  BY <1>3, <1>4

LEMMA BookEndsWritten ==
    ASSUME WrittenInv, Record, NEW r \in Request, OverlapInv',
           MatchAddress(r) \/ MatchBook(r) \/ SetBook(r) \/ DeleteBook(r)
    PROVE  WrittenInv'
<1>0. /\ KnownInv /\ TypeOK /\ BetweenFits(r)
      /\ req[r].pc # "new" => Refers(req[r])
      /\ r \notin overlapped' => r \notin overlapped
  BY Recorded DEF WrittenInv, KnownInv, OverlapInv
<1> USE DEF bookVars, registryVars
<1>1. CASE MatchAddress(r)
  <2>1. /\ req[r].pc = "write" /\ req[r].op = "createBook" /\ Busy(r) /\ seen[r] = Nothing
        /\ UNCHANGED <<users, groups, inGroup, tags, tagged, accounts, books, bookOf, has>>
        /\ seen' = [seen EXCEPT ![r].accounts = WithAddress(req[r].address)]
    BY <1>0, <1>1 DEF MatchAddress, Busy, Steps, BetweenFits
  <2>2. \A q \in Request \ {r} : seen'[q] = seen[q]
    BY <1>0, <2>1 DEF TypeOK
  <2>3. CASE WithAddress(req[r].address) = {}
    <3>1. End(r, "done")
      BY <1>1, <2>3 DEF MatchAddress
    <3>2. seen' = seen
      <4>1. seen[r].accounts = {}
        BY <2>1 DEF Nothing
      <4>2. seen' = [seen EXCEPT ![r] = [seen[r] EXCEPT !.accounts = {}]]
        BY <2>1, <2>3, Zenon
      <4>3. [seen[r] EXCEPT !.accounts = {}] = seen[r]
        BY <2>1 DEF Nothing
      <4>4. seen' = [seen EXCEPT ![r] = seen[r]]
        BY <4>2, <4>3
      <4> QED
        BY <1>0, <4>4 DEF TypeOK
    <3>3. BetweenFits(r)'
      BY <2>1, <3>1, <3>2, SeenAnswered
    <3> QED
      BY <2>1, <2>2, <3>1, <3>3, NothingWritten
  <2>4. CASE WithAddress(req[r].address) # {}
    <3>1. End(r, "matched")
      BY <1>1, <2>4 DEF MatchAddress
    <3>2. req'[r].pc = "matched" /\ req'[r].op = "createBook"
      BY <1>0, <2>1, <3>1 DEF End, TypeOK, RequestRecord
    <3>3. BetweenFits(r)'
      BY <3>2 DEF BetweenFits, Updating
    <3> QED
      BY <2>1, <2>2, <3>1, <3>3, NothingWritten
  <2> QED
    BY <2>3, <2>4
<1>2. CASE MatchBook(r)
  <2> DEFINE b == req[r].id
  <2>1. /\ req[r].pc = "write" /\ req[r].op = "updateBook" /\ Busy(r) /\ seen[r] = Nothing
        /\ UNCHANGED <<users, groups, inGroup, tags, tagged, accounts, books, bookOf, has>>
    BY <1>0, <1>2 DEF MatchBook, Busy, Steps, BetweenFits
  <2>2. CASE b \in DOMAIN books
    <3>1. /\ seen' = [seen EXCEPT ![r].tags = OwnRelations(r, b)] /\ End(r, "matched")
      BY <1>2, <2>2 DEF MatchBook
    <3>2. /\ seen'[r].books = {} /\ seen'[r].groups = {} /\ seen'[r].tags = OwnRelations(r, b)
          /\ \A q \in Request \ {r} : seen'[q] = seen[q]
      BY <1>0, <2>1, <3>1 DEF TypeOK, Nothing
    <3>3. req'[r].id = b /\ req'[r].pc = "matched"
      BY <1>0, <3>1 DEF End, TypeOK, RequestRecord
    <3>4. \A x \in tagged : x.node = b => x \in OwnRelations(r, b)
      BY <1>0, <2>1, OwnIsAll
    <3>5. b \notin DOMAIN accounts
      BY <1>0, <2>2 DEF KnownInv, Authored, Made
    <3>6. (\A x \in bookOf : x[2] # b) /\ (\A x \in inGroup : x[1] # b)
      BY <1>0, <3>5 DEF TypeOK
    <3>7. FoundOwn(r)' /\ FoundAll(r)'
      BY <2>1, <3>2, <3>3, <3>4, <3>6 DEF FoundOwn, FoundAll, OwnRelations
    <3>8. BetweenFits(r)'
      BY <3>3, <3>7 DEF BetweenFits
    <3> QED
      BY <2>1, <3>1, <3>2, <3>8, NothingWritten
  <2>3. CASE b \notin DOMAIN books
    <3>1. UNCHANGED seen /\ End(r, "done")
      BY <1>2, <2>3 DEF MatchBook
    <3>2. BetweenFits(r)'
      BY <2>1, <3>1, SeenAnswered
    <3> QED
      BY <2>1, <3>1, <3>2, NothingWritten
  <2> QED
    BY <2>2, <2>3
<1>3. CASE SetBook(r)
  <2> DEFINE b == req[r].id
  <2>1. /\ req[r].pc = "set" /\ req[r].op = "updateBook" /\ Busy(r) /\ Between(r)
        /\ UNCHANGED <<users, groups, inGroup, tags, tagged, accounts, bookOf, has, seen>>
    BY <1>3 DEF SetBook, Busy, Steps, Between
  <2>2. CASE b \in DOMAIN books
    <3>1. books' = [books EXCEPT ![b] = r] /\ End(r, "done")
      BY <1>3, <2>2 DEF SetBook
    <3>2. r \notin overlapped' => Exact(r)
      BY <1>0, <2>1, <2>2 DEF BetweenFits
    <3>3. r \notin overlapped' =>
              /\ \A l \in req[r].tags : \E x \in tagged' : x.node = b /\ x.tag.label = l
              /\ \A x \in tagged' : x.node = b => x.tag.label \in req[r].tags
      BY <2>1, <3>2 DEF Exact, LabelsHave, LabelsOnly
    <3>4. seen'[r] = Nothing /\ Apart(r)
      BY <1>0, <2>1 DEF BetweenFits, Apart
    <3>5. /\ DOMAIN books' = DOMAIN books \cup {b} /\ books'[b] = r
          /\ \A c \in DOMAIN books \ {b} : books'[c] = books[c]
      BY <2>2, <3>1
    <3> QED
      BY <2>1, <2>2, <3>1, <3>3, <3>4, <3>5, BookWritten
  <2>3. CASE b \notin DOMAIN books
    <3>1. End(r, "failed") /\ UNCHANGED books
      BY <1>3, <2>3 DEF SetBook
    <3>2. BetweenFits(r)'
      BY <2>1, <3>1, SeenAnswered
    <3> QED
      BY <2>1, <3>1, <3>2, NothingWritten
  <2> QED
    BY <2>2, <2>3
<1>4. CASE DeleteBook(r)
  <2> DEFINE b == req[r].id
             bs == DOMAIN books \ {b}
  <2>1. /\ books' = Restrict(books, bs) /\ bookOf' = {x \in bookOf : x[1] # b}
        /\ tagged' = {x \in tagged : x.node # b}
        /\ End(r, "done") /\ UNCHANGED <<users, tags, groups, inGroup, accounts, seen>>
        /\ req[r].pc = "write" /\ req[r].op = "deleteBook" /\ Busy(r)
    BY <1>4 DEF DeleteBook, Busy, Steps
  <2>2. DOMAIN books' = bs /\ \A c \in bs : books'[c] = books[c]
    BY <2>1 DEF Restrict
  <2>3. /\ KnownInv' /\ \A q \in Request : req[q].pc = "done" => req'[q] = req[q]
        /\ \A q \in Request \ {r} : req'[q] = req[q]
    BY <1>0, <2>1, <2>2, EndKnown
  <2>4. ASSUME NEW c \in bs PROVE BookFits(c)'
    BY <2>1, <2>2, <2>3, BookStays
  <2>5. ASSUME NEW a \in DOMAIN accounts PROVE AccountFits(a)'
    <3> DEFINE w == req[accounts[a].data]
    <3>1. req'[accounts'[a].data] = w
      BY <1>0, <2>1, <2>3 DEF KnownInv, Authored, TypeOK
    <3>2. /\ GroupsHave(a, w) /\ BooksHave(a, w) /\ LabelsHave(a, w)
          /\ accounts'[a].data \notin overlapped' =>
                 GroupsOnly(a, w) /\ BooksOnly(a, w) /\ LabelsOnly(a, w)
      BY <2>1, Recorded DEF WrittenInv, AccountFits
    <3>3. a # b
      BY <1>0, <2>1 DEF KnownInv, Authored, Refers, Made
    <3> HIDE DEF w
    <3>4. /\ \A g \in DOMAIN groups' : g.id = w.group => <<a, g>> \in inGroup'
          /\ GroupsOnly(a, w) => \A x \in inGroup' : x[1] = a => x[2].id = w.group
      BY <2>1, <3>2 DEF GroupsHave, GroupsOnly
    <3>5. /\ w.book \in DOMAIN books' => <<w.book, a>> \in bookOf'
          /\ BooksOnly(a, w) => \A x \in bookOf' : x[2] = a => x[1] = w.book
      BY <2>1, <2>2, <3>2 DEF BooksHave, BooksOnly
    <3>6. /\ \A l \in w.tags : \E x \in tagged' : x.node = a /\ x.tag.label = l
          /\ LabelsOnly(a, w) => \A x \in tagged' : x.node = a => x.tag.label \in w.tags
      BY <2>1, <3>2, <3>3 DEF LabelsHave, LabelsOnly
    <3> QED
      BY <3>1, <3>2, <3>4, <3>5, <3>6 DEF AccountFits, GroupsHave, GroupsOnly, BooksHave,
         BooksOnly, LabelsHave, LabelsOnly
  <2>6. BetweenFits(r)'
    BY <2>1, SeenAnswered
  <2>7. \A q \in Request \ {r} : Foreign(q)
    BY <2>1, <2>2, DeleteForeign
  <2>8. \A q \in Request \ {r} : BetweenFits(q)'
    BY <2>1, <2>3, <2>7, OthersBetween
  <2> QED
    BY <2>1, <2>2, <2>3, <2>4, <2>5, <2>6, <2>8, Recorded DEF WrittenInv
<1> QED
  BY <1>1, <1>2, <1>3, <1>4

---------------------------------------------------------------------------
LEMMA StepWritten == WrittenInv /\ [EditNext]_editVars => WrittenInv'
<1> SUFFICES ASSUME WrittenInv, [EditNext]_editVars PROVE WrittenInv'
  OBVIOUS
<1>0. OverlapInv'
  <2>1. [ApartNext]_vars
    BY DEF EditNext, editVars
  <2> QED
    BY <2>1, StepOverlaps DEF WrittenInv, KnownInv
<1>1. CASE UNCHANGED editVars
  <2>1. /\ UNCHANGED <<users, groups, inGroup, tags, tagged, accounts, books, bookOf, has, seen>>
        /\ UNCHANGED <<req, overlapped>>
    BY <1>1 DEF editVars, vars, registryVars, bookVars
  <2>2. KnownInv'
    BY <1>0, <2>1 DEF WrittenInv, KnownInv, OneUser, SoleSignIn, Authored, Refers, Made
  <2>3. RivalsInv'
    BY <2>1 DEF WrittenInv, RivalsInv, Rivals, Between
  <2>4. \A a \in DOMAIN accounts' : AccountFits(a)'
    BY <2>1 DEF WrittenInv, AccountFits, GroupsHave, GroupsOnly, BooksHave, BooksOnly,
       LabelsHave, LabelsOnly
  <2>5. \A b \in DOMAIN books' : BookFits(b)'
    BY <2>1 DEF WrittenInv, BookFits, LabelsHave, LabelsOnly
  <2>6. ASSUME NEW r \in Request PROVE BetweenFits(r)'
    <3>1. BetweenFits(r)
      BY DEF WrittenInv
    <3> QED
      BY <2>1, <3>1 DEF BetweenFits, Updating, FoundOwn, FoundAll, Exact, LabelsHave, LabelsOnly
  <2> QED
    BY <2>2, <2>3, <2>4, <2>5, <2>6 DEF WrittenInv
<1>2. CASE EditNext
  <2>1. PICK r \in Request :
          \/ /\ SignIn(r)
             /\ \A q \in Request : req[q].op # "signIn" \/ req[q].pc # "write"
          \/ RegistryStep(r) \/ BookStep(r)
    BY <1>2 DEF EditNext, ApartNext
  <2>2. Record
    BY <1>2 DEF EditNext
  <2>3. CASE \/ /\ SignIn(r)
                /\ \A q \in Request : req[q].op # "signIn" \/ req[q].pc # "write"
             \/ MergeTag(r) \/ MergeGroup(r) \/ FindGroup(r)
    BY <1>0, <2>2, <2>3, RegistryBeginsWritten
  <2>4. CASE CheckAddress(r) \/ FindAccount(r) \/ CheckAccount(r) \/ FindBook(r)
    BY <1>0, <2>2, <2>4, BookBeginsWritten
  <2>5. CASE CreateUser(r) \/ CreateTag(r) \/ CreateGroup(r) \/ UpdateGroup(r) \/ DeleteGroup(r)
    BY <1>0, <2>2, <2>5, RegistryEndsWritten
  <2>6. CASE CreateAccount(r) \/ MatchAccount(r) \/ UpdateAccount(r) \/ DeleteAccount(r)
    BY <1>0, <2>2, <2>6, AccountEndsWritten
  <2>7. CASE MatchAddress(r) \/ MatchBook(r) \/ SetBook(r) \/ DeleteBook(r)
    BY <1>0, <2>2, <2>7, BookEndsWritten
  <2>8. CASE CreateBook(r) \/ UpdateBook(r)
    BY <1>0, <2>2, <2>8, CreateBookWritten, UpdateBookWritten
  <2> QED
    BY <2>1, <2>3, <2>4, <2>5, <2>6, <2>7, <2>8 DEF RegistryStep, BookStep
<1> QED
  BY <1>1, <1>2

LEMMA WrittenInvariant == EditSpec => []WrittenInv
<1>1. EditSpec => EditInit /\ [][EditNext]_editVars
  BY DEF EditSpec
<1> QED
  BY <1>1, InitWritten, StepWritten, PTL

\* However other requests overlap, an account has the address book, the group and the tags
\* of the request that wrote it last, and nothing of the ones before unless that request
\* and another update of the account had both matched it before either wrote.
THEOREM AccountsAsWritten == EditSpec => []AccountAsWritten
<1>1. WrittenInv => AccountAsWritten
  BY FitsAsWritten
<1> QED
  BY <1>1, WrittenInvariant, PTL

\* ... and an address book exactly the tags of the request that wrote it last, with the
\* same exception.
THEOREM BooksAsWritten == EditSpec => []BookAsWritten
<1>1. WrittenInv => BookAsWritten
  BY FitsAsWritten
<1> QED
  BY <1>1, WrittenInvariant, PTL
=============================================================================
