--------------------------- MODULE WorkspaceProofs ---------------------------
(***************************************************************************)
(* What a client that waits for each answer may rely on: nothing is made   *)
(* twice.  Overlapping requests break every one of these, and an update    *)
(* breaks the last two on its own.  Then what overlapping requests leave   *)
(* intact.                                                                 *)
(***************************************************************************)
EXTENDS UserWorkspace, TLAPS

\* What the first query of a request found still holds when its second one runs.
Checked(args) ==
    /\ args.op = "signIn" => users = {}
    /\ args.op = "mergeTag" => \A t \in tags : t.label # args.label
    /\ args.op = "mergeGroup" => \A g \in DOMAIN groups : groups[g] # args.label
    /\ args.op = "createAccount" => WithAddress(args.address) = {}

Sole == \A q, r \in Request : Busy(q) /\ Busy(r) => q = r

Unique ==
    /\ OneUser /\ OneTagPerLabel
    /\ "updateGroup" \notin Ops => OneGroupPerLabel
    /\ "updateAccount" \notin Ops => OneAccountPerAddress

Typed == users \subseteq Request /\ req \in [Request -> RequestRecord]

UniqueInv ==
    /\ Typed /\ Sole /\ Unique
    /\ \A r \in Request : Busy(r) => Checked(req[r]) /\ req[r].op \in Ops

---------------------------------------------------------------------------
LEMMA InitUnique == Init => UniqueInv
<1> SUFFICES ASSUME Init PROVE UniqueInv
  OBVIOUS
<1> USE DEF Init
<1>1. Blank \in RequestRecord /\ Blank.pc = "new"
  BY DEF Blank, RequestRecord
<1>2. Typed /\ Sole
  BY <1>1 DEF Typed, Sole, Busy, Steps
<1>3. Unique
  BY DEF Unique, OneUser, OneTagPerLabel, OneGroupPerLabel, OneAccountPerAddress
<1> QED
  BY <1>1, <1>2, <1>3 DEF UniqueInv, Busy, Steps

\* A first query that runs while nobody writes.
LEMMA BeginKeeps ==
    ASSUME UniqueInv, Idle, NEW r \in Request, NEW args \in RequestRecord,
           NEW next \in {"write", "done", "failed"}, Begin(r, args, next),
           next = "write" => Checked(args) /\ args.op \in Ops
    PROVE  UniqueInv'
<1> DEFINE new == [args EXCEPT !.pc = next]
<1>1. /\ new \in RequestRecord /\ new.pc = next /\ new.op = args.op
      /\ new.label = args.label /\ new.address = args.address
  BY DEF RequestRecord, Steps
<1>2. /\ req' = [req EXCEPT ![r] = new]
      /\ UNCHANGED <<users, groups, inGroup, tags, tagged, accounts, books, bookOf, has>>
  BY DEF Begin, registryVars, bookVars
<1>3. req' \in [Request -> RequestRecord] /\ req'[r] = new
  BY <1>1, <1>2 DEF UniqueInv, Typed
<1>4. \A q \in Request \ {r} : req'[q] = req[q] /\ ~Busy(q)'
  BY <1>2 DEF UniqueInv, Typed, Idle, Busy
<1> HIDE DEF new
<1>5. Typed' /\ Sole'
  BY <1>2, <1>3, <1>4 DEF UniqueInv, Typed, Sole
<1>6. Unique'
  BY <1>2 DEF UniqueInv, Unique, OneUser, OneTagPerLabel, OneGroupPerLabel, OneAccountPerAddress
<1>7. next = "write" => Checked(new)' /\ new.op \in Ops
  BY <1>1, <1>2 DEF Checked, WithAddress
<1> QED
  BY <1>1, <1>3, <1>4, <1>5, <1>6, <1>7 DEF UniqueInv, Checked, WithAddress, Busy, Steps

\* A request that has to match something before it writes.
Matching(args) == args.op \in {"updateAccount", "createBook", "updateBook"}

\* The only writing request goes on or answers.
LEMMA EndKeeps ==
    ASSUME UniqueInv, NEW r \in Request, Busy(r),
           NEW pc \in {"done", "failed"} \cup Steps, End(r, pc),
           pc \in Steps => Matching(req[r]), users' \subseteq Request, Unique'
    PROVE  UniqueInv'
<1> USE DEF UniqueInv, Typed, Sole
<1>1. [req[r] EXCEPT !.pc = pc] \in RequestRecord
  BY DEF RequestRecord
<1>2. [req[r] EXCEPT !.pc = pc].pc = pc /\ [req[r] EXCEPT !.pc = pc].op = req[r].op
  BY DEF RequestRecord
<1>3. /\ req' \in [Request -> RequestRecord] /\ req'[r].pc = pc /\ req'[r].op = req[r].op
      /\ \A q \in Request \ {r} : req'[q] = req[q] /\ ~Busy(q)'
  BY <1>1, <1>2 DEF End, Busy
<1>4. Busy(r)' => Checked(req[r])' /\ req'[r].op \in Ops
  BY <1>3 DEF Busy, Matching, Checked
<1> QED
  BY <1>3, <1>4

LEMMA CallsTyped ==
    ASSUME Typed, NEW op \in Operation, NEW args \in Calls(op)
    PROVE  args \in RequestRecord /\ args.op = op /\ op \in Ops
<1>1. PICK u \in users : args = [Blank EXCEPT !.op = op, !.token = u]
  BY DEF Calls
<1> QED
  BY <1>1 DEF Calls, Blank, RequestRecord, Typed

LEMMA AccountCallsTyped ==
    ASSUME Typed, NEW op \in Operation, NEW args \in AccountCalls(op)
    PROVE  args \in RequestRecord /\ args.op = op /\ op \in Ops
BY DEF AccountCalls, RequestRecord, Typed, Made

---------------------------------------------------------------------------
(* The first queries.                                                      *)

LEMMA RegistryChecks ==
    ASSUME UniqueInv, Idle, NEW r \in Request,
           SignIn(r) \/ MergeTag(r) \/ MergeGroup(r) \/ FindGroup(r)
    PROVE  UniqueInv'
<1> USE DEF Checked
<1>1. CASE SignIn(r)
  <2> DEFINE args == [Blank EXCEPT !.op = "signIn"]
  <2>1. args \in RequestRecord /\ args.op = "signIn"
    BY DEF Blank, RequestRecord, Operation
  <2>2. /\ "signIn" \in Ops
        /\ Begin(r, args, IF users = {} THEN "write" ELSE "done")
    BY <1>1 DEF SignIn
  <2> QED
    BY <2>1, <2>2, BeginKeeps
<1>2. CASE MergeTag(r)
  <2>1. PICK call \in Calls("mergeTag"), label \in Label :
          Begin(r, [call EXCEPT !.label = label],
                IF \E t \in tags : t.label = label THEN "done" ELSE "write")
    BY <1>2 DEF MergeTag
  <2>2. call \in RequestRecord /\ call.op = "mergeTag" /\ "mergeTag" \in Ops
    BY CallsTyped DEF UniqueInv, Operation
  <2> DEFINE args == [call EXCEPT !.label = label]
  <2>3. args \in RequestRecord /\ args.op = "mergeTag" /\ args.label = label
    BY <2>2 DEF RequestRecord
  <2> QED
    BY <2>1, <2>2, <2>3, BeginKeeps
<1>3. CASE MergeGroup(r)
  <2>1. PICK call \in Calls("mergeGroup"), label \in GroupLabel :
          Begin(r, [call EXCEPT !.label = label],
                IF \E g \in DOMAIN groups : groups[g] = label THEN "done" ELSE "write")
    BY <1>3 DEF MergeGroup
  <2>2. call \in RequestRecord /\ call.op = "mergeGroup" /\ "mergeGroup" \in Ops
    BY CallsTyped DEF UniqueInv, Operation
  <2> DEFINE args == [call EXCEPT !.label = label]
  <2>3. args \in RequestRecord /\ args.op = "mergeGroup" /\ args.label = label
    BY <2>2 DEF RequestRecord
  <2> QED
    BY <2>1, <2>2, <2>3, BeginKeeps
<1>4. CASE FindGroup(r)
  <2>1. PICK id \in Request, label \in GroupLabel,
             call \in Calls("updateGroup") \cup Calls("deleteGroup") :
          Begin(r, [call EXCEPT !.id = id, !.label = label],
                IF GroupsOf(id) = {} THEN "failed" ELSE "write")
    BY <1>4 DEF FindGroup, Made
  <2>2. call \in RequestRecord /\ call.op \in {"updateGroup", "deleteGroup"} /\ call.op \in Ops
    BY CallsTyped DEF UniqueInv, Operation
  <2> DEFINE args == [call EXCEPT !.id = id, !.label = label]
  <2>3. args \in RequestRecord /\ args.op = call.op
    BY <2>2 DEF RequestRecord
  <2> QED
    BY <2>1, <2>2, <2>3, BeginKeeps
<1> QED
  BY <1>1, <1>2, <1>3, <1>4

LEMMA BookChecks ==
    ASSUME UniqueInv, Idle, NEW r \in Request,
           CheckAddress(r) \/ FindAccount(r) \/ CheckAccount(r) \/ FindBook(r)
    PROVE  UniqueInv'
<1> USE DEF Checked
<1>1. CASE CheckAddress(r)
  <2>1. PICK args \in AccountCalls("createAccount") :
          Begin(r, args, IF WithAddress(args.address) = {} THEN "write" ELSE "failed")
    BY <1>1 DEF CheckAddress
  <2>2. args \in RequestRecord /\ args.op = "createAccount" /\ "createAccount" \in Ops
    BY AccountCallsTyped DEF UniqueInv, Operation
  <2> QED
    BY <2>1, <2>2, BeginKeeps
<1>2. CASE FindAccount(r)
  <2>1. PICK id \in Request, call \in AccountCalls("updateAccount") \cup Calls("deleteAccount") :
          Begin(r, [call EXCEPT !.id = id], IF id \in DOMAIN accounts THEN "write" ELSE "failed")
    BY <1>2 DEF FindAccount, Made
  <2>2. call \in RequestRecord /\ call.op \in {"updateAccount", "deleteAccount"} /\ call.op \in Ops
    BY CallsTyped, AccountCallsTyped DEF UniqueInv, Operation
  <2> DEFINE args == [call EXCEPT !.id = id]
  <2>3. args \in RequestRecord /\ args.op = call.op
    BY <2>2 DEF RequestRecord
  <2> QED
    BY <2>1, <2>2, <2>3, BeginKeeps
<1>3. CASE CheckAccount(r)
  <2>1. PICK call \in Calls("createBook"), address \in Address \cup {None}, labels \in SUBSET Label :
          Begin(r, [call EXCEPT !.address = address, !.tags = labels],
                IF address # None /\ WithAddress(address) = {} THEN "failed" ELSE "write")
    BY <1>3 DEF CheckAccount
  <2>2. call \in RequestRecord /\ call.op = "createBook" /\ "createBook" \in Ops
    BY CallsTyped DEF UniqueInv, Operation
  <2> DEFINE args == [call EXCEPT !.address = address, !.tags = labels]
  <2>3. args \in RequestRecord
    BY <2>2 DEF RequestRecord
  <2>4. args.op = "createBook"
    BY <2>2 DEF RequestRecord
  <2> QED
    BY <2>1, <2>2, <2>3, <2>4, BeginKeeps
<1>4. CASE FindBook(r)
  <2>1. PICK id \in Request, labels \in SUBSET Label,
             call \in Calls("updateBook") \cup Calls("deleteBook") :
          Begin(r, [call EXCEPT !.id = id, !.tags = labels],
                IF id \in DOMAIN books THEN "write" ELSE "failed")
    BY <1>4 DEF FindBook, Made
  <2>2. call \in RequestRecord /\ call.op \in {"updateBook", "deleteBook"} /\ call.op \in Ops
    BY CallsTyped DEF UniqueInv, Operation
  <2> DEFINE args == [call EXCEPT !.id = id, !.tags = labels]
  <2>3. args \in RequestRecord /\ args.op = call.op
    BY <2>2 DEF RequestRecord
  <2> QED
    BY <2>1, <2>2, <2>3, BeginKeeps
<1> QED
  BY <1>1, <1>2, <1>3, <1>4

---------------------------------------------------------------------------
(* The writes.                                                             *)

\* MERGE of tags by label adds no second tag of a label.
LEMMA MergedUnique ==
    ASSUME OneTagPerLabel, NEW r \in Request, NEW labels, tags' = tags \cup Merged(r, labels)
    PROVE  OneTagPerLabel'
<1> SUFFICES ASSUME NEW s \in tags', NEW t \in tags', s.label = t.label PROVE s = t
  BY DEF OneTagPerLabel
<1> DEFINE new == {x \in [by : {r}, label : labels] : \A y \in tags : y.label # x.label}
<1>1. tags' = tags \cup new
  BY DEF Merged
<1>2. CASE s \in tags \/ t \in tags
  BY <1>1, <1>2 DEF OneTagPerLabel
<1>3. CASE s \in new /\ t \in new
  BY <1>3
<1> QED
  BY <1>1, <1>2, <1>3

LEMMA RegistryWrites ==
    ASSUME UniqueInv, NEW r \in Request, Busy(r),
           CreateUser(r) \/ CreateTag(r) \/ CreateGroup(r) \/ UpdateGroup(r) \/ DeleteGroup(r)
    PROVE  UniqueInv'
<1>0. Checked(req[r]) /\ req[r].op \in Ops /\ Unique /\ users \subseteq Request
  BY DEF UniqueInv, Typed
<1> USE DEF Unique, Steps, bookVars, registryVars
<1>1. CASE CreateUser(r)
  <2>1. users = {} /\ users' = {r} /\ UNCHANGED <<tags, groups, accounts>> /\ End(r, "done")
    BY <1>0, <1>1 DEF CreateUser, Checked
  <2>2. Unique'
    BY <1>0, <2>1 DEF OneUser, OneTagPerLabel, OneGroupPerLabel, OneAccountPerAddress
  <2> QED
    BY <2>1, <2>2, EndKeeps
<1>2. CASE CreateTag(r)
  <2>1. /\ tags' = tags \cup {[by |-> r, label |-> req[r].label]}
        /\ \A t \in tags : t.label # req[r].label
        /\ UNCHANGED <<users, groups, accounts>> /\ End(r, "done")
    BY <1>0, <1>2 DEF CreateTag, Checked
  <2>2. OneTagPerLabel'
    BY <1>0, <2>1 DEF OneTagPerLabel
  <2>3. Unique'
    BY <1>0, <2>1, <2>2 DEF OneUser, OneGroupPerLabel, OneAccountPerAddress
  <2> QED
    BY <1>0, <2>1, <2>3, EndKeeps
<1>3. CASE CreateGroup(r)
  <2> DEFINE new == [id : {r}, owner : users]
  <2>1. /\ groups' = [g \in DOMAIN groups \cup new |->
                         IF g \in new THEN req[r].label ELSE groups[g]]
        /\ \A g \in DOMAIN groups : groups[g] # req[r].label
        /\ UNCHANGED <<users, tags, accounts>> /\ End(r, "done")
    BY <1>0, <1>3 DEF CreateGroup, Checked
  <2>2. \A g \in new : g.id = r
    OBVIOUS
  <2>3. OneGroupPerLabel => OneGroupPerLabel'
    BY <2>1, <2>2 DEF OneGroupPerLabel
  <2>4. Unique'
    BY <1>0, <2>1, <2>3 DEF OneUser, OneTagPerLabel, OneAccountPerAddress
  <2> QED
    BY <1>0, <2>1, <2>4, EndKeeps
<1>4. CASE UpdateGroup(r)
  <2>1. UNCHANGED <<users, tags, accounts>> /\ End(r, "done") /\ "updateGroup" \in Ops
    BY <1>0, <1>4 DEF UpdateGroup
  <2>2. Unique'
    BY <1>0, <2>1 DEF OneUser, OneTagPerLabel, OneAccountPerAddress
  <2> QED
    BY <1>0, <2>1, <2>2, EndKeeps
<1>5. CASE DeleteGroup(r)
  <2>1. /\ groups' = Restrict(groups, DOMAIN groups \ GroupsOf(req[r].id))
        /\ UNCHANGED <<users, tags, accounts>> /\ End(r, "done")
    BY <1>5 DEF DeleteGroup
  <2>2. OneGroupPerLabel => OneGroupPerLabel'
    BY <2>1 DEF OneGroupPerLabel, Restrict
  <2>3. Unique'
    BY <1>0, <2>1, <2>2 DEF OneUser, OneTagPerLabel, OneAccountPerAddress
  <2> QED
    BY <1>0, <2>1, <2>3, EndKeeps
<1> QED
  BY <1>1, <1>2, <1>3, <1>4, <1>5

LEMMA AccountWrites ==
    ASSUME UniqueInv, NEW r \in Request, Busy(r),
           CreateAccount(r) \/ MatchAccount(r) \/ UpdateAccount(r) \/ DeleteAccount(r)
    PROVE  UniqueInv'
<1>0. Checked(req[r]) /\ req[r].op \in Ops /\ Unique /\ users \subseteq Request
  BY DEF UniqueInv, Typed
<1> USE DEF Unique, Steps
<1>1. CASE CreateAccount(r)
  <2>1. /\ UNCHANGED <<users, groups>>
        /\ End(r, "done") \/ End(r, "failed")
        /\ WithAddress(req[r].address) = {}
    BY <1>0, <1>1 DEF CreateAccount, Checked
  <2>2. CASE Matches(r)
    <3>1. /\ accounts' = [a \in DOMAIN accounts \cup {r} |->
                 IF a = r THEN [address |-> req[r].address, data |-> r] ELSE accounts[a]]
          /\ tags' = tags \cup Merged(r, req[r].tags)
      BY <1>1, <2>2 DEF CreateAccount, Relate
    <3>2. OneAccountPerAddress => OneAccountPerAddress'
      BY <2>1, <3>1 DEF OneAccountPerAddress, WithAddress
    <3>3. OneTagPerLabel'
      BY <1>0, <3>1, MergedUnique
    <3>4. Unique'
      BY <1>0, <2>1, <3>2, <3>3 DEF OneUser, OneGroupPerLabel
    <3> QED
      BY <1>0, <2>1, <3>4, EndKeeps
  <2>3. CASE ~Matches(r)
    <3>1. UNCHANGED <<accounts, tags>>
      BY <1>1, <2>3 DEF CreateAccount
    <3>2. Unique'
      BY <1>0, <2>1, <3>1 DEF OneUser, OneTagPerLabel, OneGroupPerLabel, OneAccountPerAddress
    <3> QED
      BY <1>0, <2>1, <3>2, EndKeeps
  <2> QED
    BY <2>2, <2>3
<1>2. CASE UpdateAccount(r)
  <2>1. /\ UNCHANGED <<users, groups>>
        /\ End(r, "done") \/ End(r, "failed")
        /\ "updateAccount" \in Ops
        /\ tags' = tags \cup Merged(r, req[r].tags) \/ tags' = tags
    BY <1>0, <1>2 DEF UpdateAccount, Relate
  <2>2. OneTagPerLabel'
    BY <1>0, <2>1, MergedUnique DEF OneTagPerLabel
  <2>3. Unique'
    BY <1>0, <2>1, <2>2 DEF OneUser, OneGroupPerLabel
  <2> QED
    BY <1>0, <2>1, <2>3, EndKeeps
<1>3. CASE DeleteAccount(r)
  <2>1. /\ UNCHANGED <<users, groups, tags>> /\ End(r, "done")
        /\ accounts' = Restrict(accounts, DOMAIN accounts \ {req[r].id})
    BY <1>3 DEF DeleteAccount
  <2>2. OneAccountPerAddress => OneAccountPerAddress'
    BY <2>1 DEF OneAccountPerAddress, Restrict
  <2>3. Unique'
    BY <1>0, <2>1, <2>2 DEF OneUser, OneTagPerLabel, OneGroupPerLabel
  <2> QED
    BY <1>0, <2>1, <2>3, EndKeeps
<1>4. CASE MatchAccount(r)
  <2>1. PICK pc \in {"done", "failed", "matched"} : End(r, pc)
    BY <1>4 DEF MatchAccount
  <2>2. UNCHANGED <<users, groups, tags, accounts>> /\ Matching(req[r])
    BY <1>4 DEF MatchAccount, registryVars, Matching
  <2>3. Unique'
    BY <1>0, <2>2 DEF OneUser, OneTagPerLabel, OneGroupPerLabel, OneAccountPerAddress
  <2> QED
    BY <1>0, <2>1, <2>2, <2>3, EndKeeps DEF Steps
<1> QED
  BY <1>1, <1>2, <1>3, <1>4

LEMMA BookWrites ==
    ASSUME UniqueInv, NEW r \in Request, Busy(r),
           \/ MatchAddress(r) \/ CreateBook(r)
           \/ MatchBook(r) \/ UpdateBook(r) \/ SetBook(r) \/ DeleteBook(r)
    PROVE  UniqueInv'
<1>0. Unique /\ users \subseteq Request
  BY DEF UniqueInv, Typed
<1> USE DEF Unique, Steps
<1>1. /\ UNCHANGED <<users, groups, accounts>>
      /\ tags' = tags \cup Merged(r, req[r].tags) \/ tags' = tags
  BY DEF MatchAddress, CreateBook, MatchBook, UpdateBook, SetBook, DeleteBook, registryVars
<1>4. PICK pc \in {"done", "failed"} \cup Steps :
         End(r, pc) /\ (pc \in Steps => Matching(req[r]))
  BY DEF MatchAddress, CreateBook, MatchBook, UpdateBook, SetBook, DeleteBook, Steps, Matching
<1>2. OneTagPerLabel'
  BY <1>0, <1>1, MergedUnique DEF OneTagPerLabel
<1>3. Unique'
  BY <1>0, <1>1, <1>2 DEF OneUser, OneGroupPerLabel, OneAccountPerAddress
<1> QED
  BY <1>0, <1>1, <1>3, <1>4, EndKeeps

---------------------------------------------------------------------------
LEMMA StepUnique == UniqueInv /\ [SerialNext]_vars => UniqueInv'
<1> SUFFICES ASSUME UniqueInv, [SerialNext]_vars PROVE UniqueInv'
  OBVIOUS
<1>1. CASE UNCHANGED vars
  BY <1>1 DEF vars, registryVars, bookVars, UniqueInv, Typed, Sole, Unique, Checked, WithAddress,
     OneUser, OneTagPerLabel, OneGroupPerLabel, OneAccountPerAddress, Busy
<1>2. CASE SerialNext
  <2>1. PICK r \in Request : /\ Idle \/ Busy(r)
                             /\ SignIn(r) \/ RegistryStep(r) \/ BookStep(r)
    BY <1>2 DEF SerialNext
  <2>2. CASE SignIn(r) \/ MergeTag(r) \/ MergeGroup(r) \/ FindGroup(r)
    <3>1. req[r].pc = "new"
      BY <2>2 DEF SignIn, MergeTag, MergeGroup, FindGroup, Begin
    <3> QED
      BY <2>1, <2>2, <3>1, RegistryChecks DEF Busy, Steps
  <2>3. CASE CheckAddress(r) \/ FindAccount(r) \/ CheckAccount(r) \/ FindBook(r)
    <3>1. req[r].pc = "new"
      BY <2>3 DEF CheckAddress, FindAccount, CheckAccount, FindBook, Begin
    <3> QED
      BY <2>1, <2>3, <3>1, BookChecks DEF Busy, Steps
  <2>4. CASE CreateUser(r) \/ CreateTag(r) \/ CreateGroup(r) \/ UpdateGroup(r) \/ DeleteGroup(r)
    <3>1. Busy(r)
      BY <2>4 DEF CreateUser, CreateTag, CreateGroup, UpdateGroup, DeleteGroup, Busy, Steps
    <3> QED
      BY <2>4, <3>1, RegistryWrites
  <2>5. CASE CreateAccount(r) \/ MatchAccount(r) \/ UpdateAccount(r) \/ DeleteAccount(r)
    <3>1. Busy(r)
      BY <2>5 DEF CreateAccount, MatchAccount, UpdateAccount, DeleteAccount, Busy, Steps
    <3> QED
      BY <2>5, <3>1, AccountWrites
  <2>6. CASE \/ MatchAddress(r) \/ CreateBook(r)
             \/ MatchBook(r) \/ UpdateBook(r) \/ SetBook(r) \/ DeleteBook(r)
    <3>1. Busy(r)
      BY <2>6 DEF MatchAddress, CreateBook, MatchBook, UpdateBook, SetBook, DeleteBook, Busy, Steps
    <3> QED
      BY <2>6, <3>1, BookWrites
  <2> QED
    BY <2>1, <2>2, <2>3, <2>4, <2>5, <2>6 DEF RegistryStep, BookStep
<1> QED
  BY <1>1, <1>2

LEMMA UniqueInvariant == SerialSpec => []UniqueInv
<1>1. SerialSpec => Init /\ [][SerialNext]_vars
  BY DEF SerialSpec
<1> QED
  BY <1>1, InitUnique, StepUnique, PTL

\* Whatever else a client does that waits for each answer, sign-in makes one user node
\* per public key.
THEOREM OneUserPerKey == SerialSpec => []OneUser
<1>1. UniqueInv => OneUser
  BY DEF UniqueInv, Unique
<1> QED
  BY <1>1, UniqueInvariant, PTL

\* ... and the tags of POST /tag, of accounts and of address books share one node per
\* label.
THEOREM TagsAreUnique == SerialSpec => []OneTagPerLabel
<1>1. UniqueInv => OneTagPerLabel
  BY DEF UniqueInv, Unique
<1> QED
  BY <1>1, UniqueInvariant, PTL

\* ... and, as long as no group is given a new label, one group per label.
THEOREM GroupsAreUnique ==
    ASSUME "updateGroup" \notin Ops PROVE SerialSpec => []OneGroupPerLabel
<1>1. UniqueInv => OneGroupPerLabel
  BY DEF UniqueInv, Unique
<1> QED
  BY <1>1, UniqueInvariant, PTL

\* ... and, as long as no account is given a new address, one account per address.
THEOREM AccountsAreUnique ==
    ASSUME "updateAccount" \notin Ops PROVE SerialSpec => []OneAccountPerAddress
<1>1. UniqueInv => OneAccountPerAddress
  BY DEF UniqueInv, Unique
<1> QED
  BY <1>1, UniqueInvariant, PTL

---------------------------------------------------------------------------
(* However requests overlap: the relations of the graph join nodes that    *)
(* are there, and an address book made for an address comes with the       *)
(* account.                                                                 *)

\* The arguments its second query uses are there when a request has passed its first.
Armed(args) ==
    /\ args.op \in {"createAccount", "updateAccount", "createBook", "updateBook"} =>
           args.token \in users
    /\ args.op = "mergeTag" => args.label \in Label
    /\ args.op \in {"mergeGroup", "updateGroup"} => args.label \in GroupLabel
    /\ args.op \in {"createAccount", "updateAccount"} => args.address \in Address

OverlapInv == TypeOK /\ \A r \in Request : Busy(r) => Armed(req[r])

---------------------------------------------------------------------------
LEMMA InitOverlap == Init => OverlapInv
<1> SUFFICES ASSUME Init PROVE OverlapInv
  OBVIOUS
<1>1. Blank \in RequestRecord /\ Blank.pc = "new"
  BY DEF Blank, RequestRecord
<1>2. Nothing \in Relations
  BY DEF Nothing, Relations
<1>3. \A r \in Request : ~Busy(r)
  BY <1>1 DEF Init, Busy, Steps
<1>4. TypeOK
  BY <1>1, <1>2 DEF Init, TypeOK
<1> QED
  BY <1>3, <1>4 DEF OverlapInv

\* A first query arms its request and changes nothing else.
LEMMA BeginOverlaps ==
    ASSUME OverlapInv, NEW r \in Request, NEW args \in RequestRecord,
           NEW next \in {"write", "done", "failed"}, Begin(r, args, next),
           next = "write" => Armed(args)
    PROVE  OverlapInv'
<1> DEFINE new == [args EXCEPT !.pc = next]
<1>1. /\ new \in RequestRecord /\ new.pc = next /\ new.op = args.op
      /\ new.label = args.label /\ new.address = args.address /\ new.token = args.token
  BY DEF RequestRecord, Steps
<1>2. /\ req' = [req EXCEPT ![r] = new]
      /\ UNCHANGED <<users, groups, inGroup, tags, tagged, accounts, books, bookOf, has, seen>>
  BY DEF Begin, registryVars, bookVars
<1> HIDE DEF new
<1>3. /\ req' \in [Request -> RequestRecord] /\ req'[r] = new
      /\ \A q \in Request \ {r} : req'[q] = req[q]
  BY <1>1, <1>2 DEF OverlapInv, TypeOK
<1>4. TypeOK'
  BY <1>2, <1>3 DEF OverlapInv, TypeOK
<1>5. next = "write" => Armed(new)'
  BY <1>1, <1>2 DEF Armed
<1> QED
  BY <1>1, <1>2, <1>3, <1>4, <1>5 DEF OverlapInv, Armed, Busy, Steps

\* A request that goes on or is answered is the request it was.
LEMMA EndedRecord ==
    ASSUME NEW args \in RequestRecord, NEW pc \in {"done", "failed"} \cup Steps,
           NEW new, new = [args EXCEPT !.pc = pc]
    PROVE  /\ new \in RequestRecord /\ new.pc = pc /\ new.op = args.op
           /\ new.book = args.book /\ new.group = args.group /\ new.id = args.id
BY DEF RequestRecord

\* A second query keeps the graph typed and loses no user.
LEMMA EndOverlaps ==
    ASSUME OverlapInv, NEW r \in Request, Busy(r), NEW pc \in {"done", "failed"} \cup Steps,
           End(r, pc), users \subseteq users', req' \in [Request -> RequestRecord] => TypeOK'
    PROVE  OverlapInv'
<1> DEFINE new == [req[r] EXCEPT !.pc = pc]
<1>1. req[r] \in RequestRecord
  BY DEF OverlapInv, TypeOK
<1>2. /\ new \in RequestRecord /\ new.pc = pc /\ new.op = req[r].op /\ new.token = req[r].token
      /\ new.label = req[r].label /\ new.address = req[r].address
  BY <1>1 DEF RequestRecord
<1>3. req' = [req EXCEPT ![r] = new]
  BY DEF End
<1> HIDE DEF new
<1>4. /\ req' \in [Request -> RequestRecord] /\ req'[r] = new
      /\ \A q \in Request \ {r} : req'[q] = req[q]
  BY <1>2, <1>3 DEF OverlapInv, TypeOK
<1>5. Armed(req[r])
  BY DEF OverlapInv
<1>6. \A q \in Request \ {r} : Busy(q)' => Armed(req[q])'
  BY <1>4 DEF OverlapInv, Armed, Busy
<1>7. TypeOK' /\ Armed(req[r])'
  BY <1>2, <1>4, <1>5 DEF Armed
<1> QED
  BY <1>6, <1>7 DEF OverlapInv

\* What requests have seen keeps its type: of one that goes on, and of one that forgets.
LEMMA SeenTyped ==
    ASSUME TypeOK, NEW r \in Request
    PROVE  /\ seen[r] \in Relations
           /\ \A x \in Relations : [seen EXCEPT ![r] = x] \in [Request -> Relations]
           /\ Nothing \in Relations
           /\ Forget(r) => seen' \in [Request -> Relations]
<1>1. seen[r] \in Relations /\ Nothing \in Relations
  BY DEF TypeOK, Nothing, Relations
<1>2. \A x \in Relations : [seen EXCEPT ![r] = x] \in [Request -> Relations]
  BY DEF TypeOK
<1>3. ASSUME Forget(r) PROVE seen' \in [Request -> Relations]
  <2> DEFINE rest(q) == [accounts |-> seen[q].accounts, books |-> seen[q].books \ seen[r].books,
                         groups |-> seen[q].groups \ seen[r].groups,
                         tags |-> seen[q].tags \ seen[r].tags]
  <2>1. \A q \in Request : seen[q] \in Relations
    BY DEF TypeOK
  <2>2. \A q \in Request : rest(q) \in Relations
    BY <2>1 DEF Relations
  <2>3. seen' = [q \in Request |-> IF q = r THEN Nothing ELSE rest(q)]
    BY <1>3 DEF Forget
  <2> HIDE DEF rest
  <2> QED
    BY <1>1, <2>2, <2>3
<1> QED
  BY <1>1, <1>2, <1>3

LEMMA TokensOfCalls ==
    ASSUME OverlapInv, NEW op \in Operation, NEW args \in Calls(op)
    PROVE  args \in RequestRecord /\ args.op = op /\ args.token \in users
<1>1. PICK u \in users : args = [Blank EXCEPT !.op = op, !.token = u]
  BY DEF Calls
<1> QED
  BY <1>1 DEF Blank, RequestRecord, OverlapInv, TypeOK

LEMMA AccountCallsAreArmed ==
    ASSUME OverlapInv, NEW op \in Operation, NEW args \in AccountCalls(op)
    PROVE  /\ args \in RequestRecord /\ args.op = op /\ args.token \in users
           /\ args.address \in Address
BY DEF AccountCalls, RequestRecord, OverlapInv, TypeOK, Made

---------------------------------------------------------------------------
(* The first queries.                                                      *)

LEMMA RegistryBegins ==
    ASSUME OverlapInv, NEW r \in Request,
           SignIn(r) \/ MergeTag(r) \/ MergeGroup(r) \/ FindGroup(r)
    PROVE  OverlapInv'
<1>1. CASE SignIn(r)
  <2> DEFINE args == [Blank EXCEPT !.op = "signIn"]
  <2>1. args \in RequestRecord /\ Armed(args)
    BY DEF Blank, RequestRecord, Operation, Armed
  <2>2. Begin(r, args, IF users = {} THEN "write" ELSE "done")
    BY <1>1 DEF SignIn
  <2> QED
    BY <2>1, <2>2, BeginOverlaps
<1>2. CASE MergeTag(r)
  <2>1. PICK call \in Calls("mergeTag"), label \in Label :
          Begin(r, [call EXCEPT !.label = label],
                IF \E t \in tags : t.label = label THEN "done" ELSE "write")
    BY <1>2 DEF MergeTag
  <2>2. call \in RequestRecord /\ call.op = "mergeTag"
    BY TokensOfCalls DEF Operation
  <2>3. [call EXCEPT !.label = label] \in RequestRecord /\ Armed([call EXCEPT !.label = label])
    BY <2>2 DEF RequestRecord, Armed
  <2> QED
    BY <2>1, <2>3, BeginOverlaps
<1>3. CASE MergeGroup(r)
  <2>1. PICK call \in Calls("mergeGroup"), label \in GroupLabel :
          Begin(r, [call EXCEPT !.label = label],
                IF \E g \in DOMAIN groups : groups[g] = label THEN "done" ELSE "write")
    BY <1>3 DEF MergeGroup
  <2>2. call \in RequestRecord /\ call.op = "mergeGroup"
    BY TokensOfCalls DEF Operation
  <2>3. [call EXCEPT !.label = label] \in RequestRecord /\ Armed([call EXCEPT !.label = label])
    BY <2>2 DEF RequestRecord, Armed
  <2> QED
    BY <2>1, <2>3, BeginOverlaps
<1>4. CASE FindGroup(r)
  <2>1. PICK id \in Made("mergeGroup"), label \in GroupLabel,
             call \in Calls("updateGroup") \cup Calls("deleteGroup") :
          Begin(r, [call EXCEPT !.id = id, !.label = label],
                IF GroupsOf(id) = {} THEN "failed" ELSE "write")
    BY <1>4 DEF FindGroup
  <2> DEFINE args == [call EXCEPT !.id = id, !.label = label]
  <2>2. call \in RequestRecord /\ call.op \in {"updateGroup", "deleteGroup"}
    BY TokensOfCalls DEF Operation
  <2>3. args \in RequestRecord /\ Armed(args)
    BY <2>2 DEF RequestRecord, Armed, Made
  <2> QED
    BY <2>1, <2>3, BeginOverlaps
<1> QED
  BY <1>1, <1>2, <1>3, <1>4

LEMMA BookBegins ==
    ASSUME OverlapInv, NEW r \in Request,
           CheckAddress(r) \/ FindAccount(r) \/ CheckAccount(r) \/ FindBook(r)
    PROVE  OverlapInv'
<1>1. CASE CheckAddress(r)
  <2>1. PICK args \in AccountCalls("createAccount") :
          Begin(r, args, IF WithAddress(args.address) = {} THEN "write" ELSE "failed")
    BY <1>1 DEF CheckAddress
  <2>2. args \in RequestRecord /\ Armed(args)
    BY AccountCallsAreArmed DEF Operation, Armed
  <2> QED
    BY <2>1, <2>2, BeginOverlaps
<1>2. CASE FindAccount(r)
  <2>1. PICK id \in Made("createAccount"),
             call \in AccountCalls("updateAccount") \cup Calls("deleteAccount") :
          Begin(r, [call EXCEPT !.id = id],
                IF id \in DOMAIN accounts THEN "write" ELSE "failed")
    BY <1>2 DEF FindAccount
  <2> DEFINE args == [call EXCEPT !.id = id]
  <2>2. call \in RequestRecord /\ Armed(call)
    BY AccountCallsAreArmed, TokensOfCalls DEF Operation, Armed
  <2>3. args \in RequestRecord /\ Armed(args)
    BY <2>2 DEF RequestRecord, Armed, Made
  <2> QED
    BY <2>1, <2>3, BeginOverlaps
<1>3. CASE CheckAccount(r)
  <2>1. PICK call \in Calls("createBook"), address \in Address \cup {None},
             labels \in SUBSET Label :
          Begin(r, [call EXCEPT !.address = address, !.tags = labels],
                IF address # None /\ WithAddress(address) = {} THEN "failed" ELSE "write")
    BY <1>3 DEF CheckAccount
  <2> DEFINE args == [call EXCEPT !.address = address, !.tags = labels]
  <2>2. call \in RequestRecord /\ call.op = "createBook" /\ call.token \in users
    BY TokensOfCalls DEF Operation
  <2>3. [call EXCEPT !.address = address] \in RequestRecord
    BY <2>2 DEF RequestRecord
  <2>4. args = [[call EXCEPT !.address = address] EXCEPT !.tags = labels]
    BY <2>2 DEF RequestRecord
  <2>5. args \in RequestRecord
    BY <2>3, <2>4 DEF RequestRecord
  <2>6. args.op = call.op /\ args.token = call.token
    BY <2>2 DEF RequestRecord
  <2>7. Armed(args)
    BY <2>2, <2>6 DEF Armed
  <2> QED
    BY <2>1, <2>5, <2>7, BeginOverlaps
<1>4. CASE FindBook(r)
  <2>1. PICK id \in Made("createBook"), labels \in SUBSET Label,
             call \in Calls("updateBook") \cup Calls("deleteBook") :
          Begin(r, [call EXCEPT !.id = id, !.tags = labels],
                IF id \in DOMAIN books THEN "write" ELSE "failed")
    BY <1>4 DEF FindBook
  <2> DEFINE args == [call EXCEPT !.id = id, !.tags = labels]
  <2>2. /\ call \in RequestRecord /\ call.op \in {"updateBook", "deleteBook"}
        /\ call.token \in users
    BY TokensOfCalls DEF Operation
  <2>3. [call EXCEPT !.id = id] \in RequestRecord
    BY <2>2 DEF RequestRecord, Made
  <2>4. args = [[call EXCEPT !.id = id] EXCEPT !.tags = labels]
    BY <2>2 DEF RequestRecord
  <2>5. args \in RequestRecord
    BY <2>3, <2>4 DEF RequestRecord
  <2>6. args.op = call.op /\ args.token = call.token
    BY <2>2 DEF RequestRecord
  <2>7. Armed(args)
    BY <2>2, <2>6 DEF Armed
  <2> QED
    BY <2>1, <2>5, <2>7, BeginOverlaps
<1> QED
  BY <1>1, <1>2, <1>3, <1>4

---------------------------------------------------------------------------
(* The second queries.                                                     *)

LEMMA LabelsTyped ==
    ASSUME OverlapInv, NEW r \in Request, req[r].token \in users, NEW node
    PROVE  /\ Merged(r, req[r].tags) \subseteq Tag
           /\ TagRelations(r, node, req[r].tags)
                \subseteq [node : {node}, tag : Merged(r, req[r].tags), owner : users]
<1>1. req[r].tags \subseteq Label
  BY DEF OverlapInv, TypeOK, RequestRecord
<1>2. Merged(r, req[r].tags) \subseteq Tag
  BY <1>1 DEF Merged, Tag, OverlapInv, TypeOK
<1>3. TagRelations(r, node, req[r].tags)
        \subseteq [node : {node}, tag : Merged(r, req[r].tags), owner : users]
  BY DEF TagRelations
<1> QED
  BY <1>2, <1>3

\* Relations stay between nodes that are there when nodes, tags and users are added.
LEMMA TaggedGrows ==
    ASSUME NEW nodes, NEW ts, NEW us, NEW moreNodes, NEW moreTags, NEW moreUsers,
           nodes \subseteq moreNodes, ts \subseteq moreTags, us \subseteq moreUsers
    PROVE  [node : nodes, tag : ts, owner : us]
             \subseteq [node : moreNodes, tag : moreTags, owner : moreUsers]
OBVIOUS

LEMMA RegistryEnds ==
    ASSUME OverlapInv, NEW r \in Request,
           CreateUser(r) \/ CreateTag(r) \/ CreateGroup(r) \/ UpdateGroup(r) \/ DeleteGroup(r)
    PROVE  OverlapInv'
<1>0. TypeOK /\ Busy(r) /\ Armed(req[r])
  BY DEF OverlapInv, Busy, Steps, CreateUser, CreateTag,
     CreateGroup, UpdateGroup, DeleteGroup
<1> USE DEF Steps, bookVars, registryVars
<1>1. CASE CreateUser(r)
  <2>1. /\ users' = users \cup {r} /\ End(r, "done")
        /\ UNCHANGED <<tags, tagged, groups, inGroup, accounts, books, bookOf, has, seen>>
    BY <1>1 DEF CreateUser
  <2>2. tagged \subseteq [node : (DOMAIN accounts) \cup (DOMAIN books), tag : tags, owner : users']
    BY <1>0, <2>1, TaggedGrows DEF TypeOK
  <2>3. req' \in [Request -> RequestRecord] => TypeOK'
    BY <1>0, <2>1, <2>2 DEF TypeOK
  <2> QED
    BY <1>0, <2>1, <2>3, EndOverlaps
<1>2. CASE CreateTag(r)
  <2>1. /\ tags' = tags \cup {[by |-> r, label |-> req[r].label]} /\ End(r, "done")
        /\ UNCHANGED <<users, tagged, groups, inGroup, accounts, books, bookOf, has, seen>>
        /\ req[r].label \in Label
    BY <1>0, <1>2 DEF CreateTag, Armed
  <2>2. tagged \subseteq [node : (DOMAIN accounts) \cup (DOMAIN books), tag : tags', owner : users]
    BY <1>0, <2>1, TaggedGrows DEF TypeOK
  <2>3. req' \in [Request -> RequestRecord] => TypeOK'
    BY <1>0, <2>1, <2>2 DEF TypeOK, Tag
  <2> QED
    BY <1>0, <2>1, <2>3, EndOverlaps
<1>3. CASE CreateGroup(r)
  <2> DEFINE new == [id : {r}, owner : users]
  <2>1. /\ groups' = [g \in DOMAIN groups \cup new |->
                         IF g \in new THEN req[r].label ELSE groups[g]]
        /\ UNCHANGED <<users, inGroup, tags, tagged, accounts, books, bookOf, has, seen>>
        /\ End(r, "done") /\ req[r].label \in GroupLabel
    BY <1>0, <1>3 DEF CreateGroup, Armed
  <2>2. new \subseteq Group
    BY <1>0 DEF TypeOK, Group
  <2>3. DOMAIN groups' \subseteq Group /\ groups' \in [DOMAIN groups' -> GroupLabel]
    BY <1>0, <2>1, <2>2 DEF TypeOK
  <2>4. inGroup' \subseteq (DOMAIN accounts) \X (DOMAIN groups')
    BY <1>0, <2>1 DEF TypeOK
  <2>5. req' \in [Request -> RequestRecord] => TypeOK'
    BY <1>0, <2>1, <2>3, <2>4 DEF TypeOK
  <2> QED
    BY <1>0, <2>1, <2>5, EndOverlaps
<1>4. CASE UpdateGroup(r)
  <2>1. /\ groups' = [g \in DOMAIN groups |->
                         IF g.id = req[r].id THEN req[r].label ELSE groups[g]]
        /\ UNCHANGED <<users, inGroup, tags, tagged, accounts, books, bookOf, has, seen>>
        /\ End(r, "done") /\ req[r].label \in GroupLabel
    BY <1>0, <1>4 DEF UpdateGroup, Armed
  <2>2. DOMAIN groups' = DOMAIN groups /\ groups' \in [DOMAIN groups' -> GroupLabel]
    BY <1>0, <2>1 DEF TypeOK
  <2>3. req' \in [Request -> RequestRecord] => TypeOK'
    BY <1>0, <2>1, <2>2 DEF TypeOK
  <2> QED
    BY <1>0, <2>1, <2>3, EndOverlaps
<1>5. CASE DeleteGroup(r)
  <2> DEFINE kept == DOMAIN groups \ GroupsOf(req[r].id)
  <2>1. /\ groups' = Restrict(groups, kept)
        /\ inGroup' = {x \in inGroup : x[2].id # req[r].id}
        /\ UNCHANGED <<users, tags, tagged, accounts, books, bookOf, has, seen>> /\ End(r, "done")
    BY <1>5 DEF DeleteGroup
  <2>2. DOMAIN groups' = kept /\ groups' \in [kept -> GroupLabel] /\ kept \subseteq Group
    BY <1>0, <2>1 DEF TypeOK, Restrict
  <2>3. inGroup' \subseteq (DOMAIN accounts) \X kept
    BY <1>0, <2>1 DEF TypeOK, GroupsOf
  <2>4. req' \in [Request -> RequestRecord] => TypeOK'
    BY <1>0, <2>1, <2>2, <2>3 DEF TypeOK
  <2> QED
    BY <1>0, <2>1, <2>4, EndOverlaps
<1> QED
  BY <1>1, <1>2, <1>3, <1>4, <1>5

LEMMA GraphTyped ==
    ASSUME TypeOK
    PROVE  /\ tagged \subseteq [node : Request, tag : Tag, owner : Request]
           /\ inGroup \subseteq Request \X Group /\ bookOf \subseteq Request \X Request
<1>1. /\ (DOMAIN accounts) \cup (DOMAIN books) \subseteq Request
      /\ tags \subseteq Tag /\ users \subseteq Request
  BY DEF TypeOK
<1>2. tagged \subseteq [node : Request, tag : Tag, owner : Request]
  BY <1>1, TaggedGrows DEF TypeOK
<1> QED
  BY <1>2 DEF TypeOK

\* The relations an account's write leaves are typed if those it keeps are.
LEMMA RelateTyped ==
    ASSUME OverlapInv, NEW r \in Request, req[r].token \in users, Matches(r), NEW a,
           NEW keptBooks, NEW keptGroups, NEW keptTags,
           NEW as, DOMAIN accounts \subseteq as, a \in as,
           keptBooks \subseteq bookOf, keptGroups \subseteq inGroup, keptTags \subseteq tagged,
           Relate(r, a, keptBooks, keptGroups, keptTags)
    PROVE  /\ tags' \subseteq Tag
           /\ tagged' \subseteq [node : as \cup (DOMAIN books), tag : tags', owner : users]
           /\ inGroup' \subseteq as \X (DOMAIN groups)
           /\ bookOf' \subseteq (DOMAIN books) \X as
<1>0. TypeOK
  BY DEF OverlapInv
<1>1. /\ bookOf' = keptBooks \cup ({req[r].book} \ {None}) \X {a}
      /\ inGroup' = keptGroups \cup {a} \X GroupsOf(req[r].group)
      /\ tags' = tags \cup Merged(r, req[r].tags)
      /\ tagged' = keptTags \cup TagRelations(r, a, req[r].tags)
  BY DEF Relate
<1>2. tags' \subseteq Tag
  BY <1>0, <1>1, LabelsTyped DEF TypeOK
<1>3. tagged \subseteq [node : as \cup (DOMAIN books), tag : tags', owner : users]
  BY <1>0, <1>1, TaggedGrows DEF TypeOK
<1>4. [node : {a}, tag : Merged(r, req[r].tags), owner : users]
        \subseteq [node : as \cup (DOMAIN books), tag : tags', owner : users]
  BY <1>1, TaggedGrows
<1>5. tagged' \subseteq [node : as \cup (DOMAIN books), tag : tags', owner : users]
  BY <1>1, <1>3, <1>4, LabelsTyped
<1>6. inGroup' \subseteq as \X (DOMAIN groups)
  <2>1. inGroup \subseteq as \X (DOMAIN groups)
    BY <1>0 DEF TypeOK
  <2>2. {a} \X GroupsOf(req[r].group) \subseteq as \X (DOMAIN groups)
    BY DEF GroupsOf
  <2> QED
    BY <1>1, <2>1, <2>2
<1>7. {req[r].book} \ {None} \subseteq DOMAIN books
  BY DEF Matches
<1>8. bookOf \subseteq (DOMAIN books) \X as
  BY <1>0 DEF TypeOK
<1>9. bookOf' \subseteq (DOMAIN books) \X as
  BY <1>1, <1>7, <1>8
<1> QED
  BY <1>2, <1>5, <1>6, <1>9

LEMMA AccountEnds ==
    ASSUME OverlapInv, NEW r \in Request,
           CreateAccount(r) \/ MatchAccount(r) \/ UpdateAccount(r) \/ DeleteAccount(r)
    PROVE  OverlapInv'
<1>0. TypeOK /\ Busy(r) /\ Armed(req[r])
  BY DEF OverlapInv, Busy, Steps, CreateAccount, MatchAccount,
     UpdateAccount, DeleteAccount
<1> USE DEF Steps, bookVars, registryVars
<1>1. CASE CreateAccount(r)
  <2>1. /\ UNCHANGED <<users, groups, books, has, seen>>
        /\ End(r, "done") \/ End(r, "failed")
        /\ req[r].token \in users /\ req[r].address \in Address
    BY <1>0, <1>1 DEF CreateAccount, Armed
  <2>2. CASE Matches(r)
    <3> DEFINE as == DOMAIN accounts \cup {r}
    <3>1. /\ accounts' = [a \in as |->
                IF a = r THEN [address |-> req[r].address, data |-> r] ELSE accounts[a]]
          /\ Relate(r, r, bookOf, inGroup, tagged)
      BY <1>1, <2>2 DEF CreateAccount
    <3>2. /\ DOMAIN accounts' = as /\ as \subseteq Request
          /\ accounts' \in [as -> [address : Address, data : Request]]
      BY <1>0, <2>1, <3>1 DEF TypeOK
    <3>3. /\ tags' \subseteq Tag
          /\ tagged' \subseteq [node : as \cup (DOMAIN books), tag : tags', owner : users]
          /\ inGroup' \subseteq as \X (DOMAIN groups)
          /\ bookOf' \subseteq (DOMAIN books) \X as
      BY <2>1, <2>2, <3>1, RelateTyped
    <3>4. has \subseteq (DOMAIN books) \X as
      BY <1>0 DEF TypeOK
    <3>5. req' \in [Request -> RequestRecord] => TypeOK'
      BY <1>0, <2>1, <3>2, <3>3, <3>4 DEF TypeOK
    <3> QED
      BY <1>0, <2>1, <3>5, EndOverlaps
  <2>3. CASE ~Matches(r)
    <3>1. UNCHANGED <<accounts, bookOf, inGroup, tags, tagged>>
      BY <1>1, <2>3 DEF CreateAccount
    <3>2. req' \in [Request -> RequestRecord] => TypeOK'
      BY <1>0, <2>1, <3>1 DEF TypeOK
    <3> QED
      BY <1>0, <2>1, <3>2, EndOverlaps
  <2> QED
    BY <2>2, <2>3
<1>2. CASE UpdateAccount(r)
  <2> DEFINE a == req[r].id
  <2>1. /\ UNCHANGED <<users, groups, books, has>>
        /\ End(r, "done") \/ End(r, "failed")
        /\ req[r].token \in users /\ req[r].address \in Address
    BY <1>0, <1>2 DEF UpdateAccount, Armed
  <2>2. CASE a \in DOMAIN accounts /\ Matches(r)
    <3>1. /\ accounts' = [accounts EXCEPT ![a] = [address |-> req[r].address, data |-> r]]
          /\ Relate(r, a, bookOf \ seen[r].books, inGroup \ seen[r].groups, tagged \ seen[r].tags)
          /\ Forget(r)
      BY <1>2, <2>2 DEF UpdateAccount
    <3>5. seen' \in [Request -> Relations]
      BY <1>0, <3>1, SeenTyped
    <3>2. /\ DOMAIN accounts' = DOMAIN accounts
          /\ accounts' \in [DOMAIN accounts -> [address : Address, data : Request]]
      BY <1>0, <2>1, <3>1 DEF TypeOK
    <3>3. /\ tags' \subseteq Tag
          /\ tagged' \subseteq [node : (DOMAIN accounts) \cup (DOMAIN books), tag : tags',
                                 owner : users]
          /\ inGroup' \subseteq (DOMAIN accounts) \X (DOMAIN groups)
          /\ bookOf' \subseteq (DOMAIN books) \X (DOMAIN accounts)
      BY <2>1, <2>2, <3>1, RelateTyped
    <3>4. req' \in [Request -> RequestRecord] => TypeOK'
      BY <1>0, <2>1, <3>2, <3>3, <3>5 DEF TypeOK
    <3> QED
      BY <1>0, <2>1, <3>4, EndOverlaps
  <2>3. CASE ~(a \in DOMAIN accounts /\ Matches(r))
    <3>1. UNCHANGED <<accounts, bookOf, inGroup, tags, tagged>>
          /\ seen' = [seen EXCEPT ![r] = Nothing]
      BY <1>2, <2>3 DEF UpdateAccount
    <3>3. seen' \in [Request -> Relations]
      BY <1>0, <3>1, SeenTyped
    <3>2. req' \in [Request -> RequestRecord] => TypeOK'
      BY <1>0, <2>1, <3>1, <3>3 DEF TypeOK
    <3> QED
      BY <1>0, <2>1, <3>2, EndOverlaps
  <2> QED
    BY <2>2, <2>3
<1>3. CASE DeleteAccount(r)
  <2> DEFINE a == req[r].id
             as == DOMAIN accounts \ {a}
  <2>1. /\ accounts' = Restrict(accounts, as)
        /\ bookOf' = {x \in bookOf : x[2] # a} /\ has' = {x \in has : x[2] # a}
        /\ inGroup' = {x \in inGroup : x[1] # a}
        /\ tagged' = {x \in tagged : x.node # a}
        /\ End(r, "done") /\ UNCHANGED <<users, tags, groups, books, seen>>
    BY <1>3 DEF DeleteAccount
  <2>2. /\ DOMAIN accounts' = as /\ as \subseteq Request
        /\ accounts' \in [as -> [address : Address, data : Request]]
    BY <1>0, <2>1 DEF TypeOK, Restrict
  <2>3. /\ bookOf' \subseteq (DOMAIN books) \X as /\ has' \subseteq (DOMAIN books) \X as
        /\ inGroup' \subseteq as \X (DOMAIN groups)
    BY <1>0, <2>1 DEF TypeOK
  <2>4. tagged' \subseteq [node : as \cup (DOMAIN books), tag : tags, owner : users]
    BY <1>0, <2>1 DEF TypeOK
  <2>5. req' \in [Request -> RequestRecord] => TypeOK'
    BY <1>0, <2>1, <2>2, <2>3, <2>4 DEF TypeOK
  <2> QED
    BY <1>0, <2>1, <2>5, EndOverlaps
<1>4. CASE MatchAccount(r)
  <2> DEFINE a == req[r].id
             found == [accounts |-> {}, books |-> {x \in bookOf : x[2] = a},
                       groups |-> {x \in inGroup : x[1] = a}, tags |-> OwnRelations(r, a)]
  <2>1. /\ UNCHANGED <<users, tags, tagged, groups, inGroup, accounts, books, bookOf, has>>
        /\ seen' = [seen EXCEPT ![r] = found] \/ seen' = seen
    BY <1>4 DEF MatchAccount
  <2>2. PICK pc \in {"done", "failed", "matched"} : End(r, pc)
    BY <1>4 DEF MatchAccount
  <2>3. OwnRelations(r, a) \subseteq [node : Request, tag : Tag, owner : Request]
    BY <1>0, GraphTyped DEF OwnRelations
  <2>4. found \in Relations
    BY <1>0, <2>3, GraphTyped DEF Relations
  <2> HIDE DEF found
  <2>5. seen' \in [Request -> Relations]
    BY <1>0, <2>1, <2>4, SeenTyped DEF TypeOK
  <2>6. req' \in [Request -> RequestRecord] => TypeOK'
    BY <1>0, <2>1, <2>5 DEF TypeOK
  <2> QED
    BY <1>0, <2>1, <2>2, <2>6, EndOverlaps
<1> QED
  BY <1>1, <1>2, <1>3, <1>4

LEMMA BookEnds ==
    ASSUME OverlapInv, NEW r \in Request,
           \/ MatchAddress(r) \/ CreateBook(r)
           \/ MatchBook(r) \/ UpdateBook(r) \/ SetBook(r) \/ DeleteBook(r)
    PROVE  OverlapInv'
<1>0. TypeOK /\ Busy(r) /\ Armed(req[r])
  BY DEF OverlapInv, Busy, Steps, MatchAddress, CreateBook, MatchBook,
     UpdateBook, SetBook, DeleteBook
<1> USE DEF Steps, bookVars, registryVars
<1>1. CASE CreateBook(r)
  <2>1. /\ UNCHANGED <<users, groups, inGroup, accounts, bookOf>>
        /\ End(r, "done") \/ End(r, "failed")
        /\ req[r].token \in users /\ seen' = [seen EXCEPT ![r] = Nothing]
    BY <1>0, <1>1 DEF CreateBook, Armed
  <2>4. seen' \in [Request -> Relations]
    BY <1>0, <2>1, SeenTyped
  <2>2. CASE seen[r].accounts \subseteq DOMAIN accounts
    <3> DEFINE bs == DOMAIN books \cup {r}
               nodes == (DOMAIN accounts) \cup bs
    <3>1. /\ books' = [b \in bs |-> IF b = r THEN r ELSE books[b]]
          /\ has' = has \cup {r} \X seen[r].accounts
          /\ tags' = tags \cup Merged(r, req[r].tags)
          /\ tagged' = tagged \cup TagRelations(r, r, req[r].tags)
      BY <1>1, <2>2 DEF CreateBook
    <3>2. /\ DOMAIN books' = bs /\ bs \subseteq Request /\ books' \in [bs -> Request]
          /\ has' \subseteq bs \X (DOMAIN accounts) /\ bookOf \subseteq bs \X (DOMAIN accounts)
      BY <1>0, <2>2, <3>1 DEF TypeOK
    <3>3. tags' \subseteq Tag
      BY <1>0, <2>1, <3>1, LabelsTyped DEF TypeOK
    <3>4. tagged \subseteq [node : nodes, tag : tags', owner : users]
      BY <1>0, <3>1, TaggedGrows DEF TypeOK
    <3>5. [node : {r}, tag : Merged(r, req[r].tags), owner : users]
            \subseteq [node : nodes, tag : tags', owner : users]
      BY <3>1, TaggedGrows
    <3>6. tagged' \subseteq [node : nodes, tag : tags', owner : users]
      BY <2>1, <3>1, <3>4, <3>5, LabelsTyped
    <3>7. req' \in [Request -> RequestRecord] => TypeOK'
      BY <1>0, <2>1, <2>4, <3>2, <3>3, <3>6 DEF TypeOK
    <3> QED
      BY <1>0, <2>1, <3>7, EndOverlaps
  <2>3. CASE ~(seen[r].accounts \subseteq DOMAIN accounts)
    <3>1. UNCHANGED <<books, has, tags, tagged>>
      BY <1>1, <2>3 DEF CreateBook
    <3>2. req' \in [Request -> RequestRecord] => TypeOK'
      BY <1>0, <2>1, <2>4, <3>1 DEF TypeOK
    <3> QED
      BY <1>0, <2>1, <3>2, EndOverlaps
  <2> QED
    BY <2>2, <2>3
<1>2. CASE UpdateBook(r)
  <2> DEFINE b == req[r].id
             nodes == (DOMAIN accounts) \cup (DOMAIN books)
  <2>1. /\ UNCHANGED <<users, groups, inGroup, accounts, bookOf, has>>
        /\ req[r].token \in users
        /\ Forget(r) \/ seen' = [seen EXCEPT ![r] = Nothing]
    BY <1>0, <1>2 DEF UpdateBook, Armed
  <2>4. PICK pc \in {"done", "failed", "set"} : End(r, pc)
    BY <1>2 DEF UpdateBook
  <2>5. seen' \in [Request -> Relations]
    BY <1>0, <2>1, SeenTyped
  <2>2. CASE b \in DOMAIN books
    <3>1. /\ books' = [books EXCEPT ![b] = r] \/ books' = books
          /\ tags' = tags \cup Merged(r, req[r].tags)
          /\ tagged' = (tagged \ seen[r].tags) \cup TagRelations(r, b, req[r].tags)
      BY <1>2, <2>2 DEF UpdateBook
    <3>2. DOMAIN books' = DOMAIN books /\ books' \in [DOMAIN books -> Request]
      BY <1>0, <3>1 DEF TypeOK
    <3>3. tags' \subseteq Tag
      BY <1>0, <2>1, <3>1, LabelsTyped DEF TypeOK
    <3>4. tagged \subseteq [node : nodes, tag : tags', owner : users]
      BY <1>0, <3>1, TaggedGrows DEF TypeOK
    <3>5. [node : {b}, tag : Merged(r, req[r].tags), owner : users]
            \subseteq [node : nodes, tag : tags', owner : users]
      BY <2>2, <3>1, TaggedGrows
    <3>6. tagged' \subseteq [node : nodes, tag : tags', owner : users]
      BY <2>1, <3>1, <3>4, <3>5, LabelsTyped
    <3>7. req' \in [Request -> RequestRecord] => TypeOK'
      BY <1>0, <2>1, <2>5, <3>2, <3>3, <3>6 DEF TypeOK
    <3> QED
      BY <1>0, <2>1, <2>4, <3>7, EndOverlaps
  <2>3. CASE b \notin DOMAIN books
    <3>1. UNCHANGED <<books, tags, tagged>>
      BY <1>2, <2>3 DEF UpdateBook
    <3>2. req' \in [Request -> RequestRecord] => TypeOK'
      BY <1>0, <2>1, <2>5, <3>1 DEF TypeOK
    <3> QED
      BY <1>0, <2>1, <2>4, <3>2, EndOverlaps
  <2> QED
    BY <2>2, <2>3
<1>3. CASE DeleteBook(r)
  <2> DEFINE b == req[r].id
             bs == DOMAIN books \ {b}
  <2>1. /\ books' = Restrict(books, bs)
        /\ bookOf' = {x \in bookOf : x[1] # b} /\ has' = {x \in has : x[1] # b}
        /\ tagged' = {x \in tagged : x.node # b}
        /\ End(r, "done") /\ UNCHANGED <<users, tags, groups, inGroup, accounts, seen>>
    BY <1>3 DEF DeleteBook
  <2>2. DOMAIN books' = bs /\ bs \subseteq Request /\ books' \in [bs -> Request]
    BY <1>0, <2>1 DEF TypeOK, Restrict
  <2>3. bookOf' \subseteq bs \X (DOMAIN accounts) /\ has' \subseteq bs \X (DOMAIN accounts)
    BY <1>0, <2>1 DEF TypeOK
  <2>4. tagged' \subseteq [node : (DOMAIN accounts) \cup bs, tag : tags, owner : users]
    BY <1>0, <2>1 DEF TypeOK
  <2>5. req' \in [Request -> RequestRecord] => TypeOK'
    BY <1>0, <2>1, <2>2, <2>3, <2>4 DEF TypeOK
  <2> QED
    BY <1>0, <2>1, <2>5, EndOverlaps
<1>4. CASE MatchAddress(r)
  <2> DEFINE found == [seen[r] EXCEPT !.accounts = WithAddress(req[r].address)]
  <2>1. /\ UNCHANGED <<users, tags, tagged, groups, inGroup, accounts, books, bookOf, has>>
        /\ seen' = [seen EXCEPT ![r] = found]
    BY <1>4 DEF MatchAddress
  <2>2. PICK pc \in {"done", "matched"} : End(r, pc)
    BY <1>4 DEF MatchAddress
  <2>3. seen[r] \in Relations /\ WithAddress(req[r].address) \subseteq Request
    BY <1>0 DEF TypeOK, WithAddress
  <2>4. found \in Relations
    BY <2>3 DEF Relations
  <2> HIDE DEF found
  <2>5. seen' \in [Request -> Relations]
    BY <1>0, <2>1, <2>4, SeenTyped
  <2>6. req' \in [Request -> RequestRecord] => TypeOK'
    BY <1>0, <2>1, <2>5 DEF TypeOK
  <2> QED
    BY <1>0, <2>1, <2>2, <2>6, EndOverlaps
<1>5. CASE MatchBook(r)
  <2> DEFINE found == [seen[r] EXCEPT !.tags = OwnRelations(r, req[r].id)]
  <2>1. /\ UNCHANGED <<users, tags, tagged, groups, inGroup, accounts, books, bookOf, has>>
        /\ seen' = [seen EXCEPT ![r] = found] \/ seen' = seen
    BY <1>5 DEF MatchBook
  <2>2. PICK pc \in {"done", "matched"} : End(r, pc)
    BY <1>5 DEF MatchBook
  <2>3. /\ seen[r] \in Relations
        /\ OwnRelations(r, req[r].id) \subseteq [node : Request, tag : Tag, owner : Request]
    BY <1>0, GraphTyped DEF TypeOK, OwnRelations
  <2>4. found \in Relations
    BY <2>3 DEF Relations
  <2> HIDE DEF found
  <2>5. seen' \in [Request -> Relations]
    BY <1>0, <2>1, <2>4, SeenTyped DEF TypeOK
  <2>6. req' \in [Request -> RequestRecord] => TypeOK'
    BY <1>0, <2>1, <2>5 DEF TypeOK
  <2> QED
    BY <1>0, <2>1, <2>2, <2>6, EndOverlaps
<1>6. CASE SetBook(r)
  <2>1. /\ UNCHANGED <<users, tags, tagged, groups, inGroup, accounts, bookOf, has, seen>>
        /\ books' = [books EXCEPT ![req[r].id] = r] \/ books' = books
    BY <1>6 DEF SetBook
  <2>2. PICK pc \in {"done", "failed"} : End(r, pc)
    BY <1>6 DEF SetBook
  <2>3. DOMAIN books' = DOMAIN books /\ books' \in [DOMAIN books -> Request]
    BY <1>0, <2>1 DEF TypeOK
  <2>4. req' \in [Request -> RequestRecord] => TypeOK'
    BY <1>0, <2>1, <2>3 DEF TypeOK
  <2> QED
    BY <1>0, <2>1, <2>2, <2>4, EndOverlaps
<1> QED
  BY <1>1, <1>2, <1>3, <1>4, <1>5, <1>6

---------------------------------------------------------------------------
LEMMA StepOverlaps == OverlapInv /\ [ApartNext]_vars => OverlapInv'
<1> SUFFICES ASSUME OverlapInv, [ApartNext]_vars PROVE OverlapInv'
  OBVIOUS
<1>1. CASE UNCHANGED vars
  BY <1>1 DEF vars, registryVars, bookVars, OverlapInv, TypeOK, Armed, Busy
<1>2. CASE ApartNext
  <2>1. PICK r \in Request : SignIn(r) \/ RegistryStep(r) \/ BookStep(r)
    BY <1>2 DEF ApartNext
  <2>2. CASE SignIn(r) \/ MergeTag(r) \/ MergeGroup(r) \/ FindGroup(r)
    BY <2>2, RegistryBegins
  <2>3. CASE CheckAddress(r) \/ FindAccount(r) \/ CheckAccount(r) \/ FindBook(r)
    BY <2>3, BookBegins
  <2>4. CASE CreateUser(r) \/ CreateTag(r) \/ CreateGroup(r) \/ UpdateGroup(r) \/ DeleteGroup(r)
    BY <2>4, RegistryEnds
  <2>5. CASE CreateAccount(r) \/ MatchAccount(r) \/ UpdateAccount(r) \/ DeleteAccount(r)
    BY <2>5, AccountEnds
  <2>6. CASE \/ MatchAddress(r) \/ CreateBook(r)
             \/ MatchBook(r) \/ UpdateBook(r) \/ SetBook(r) \/ DeleteBook(r)
    BY <2>6, BookEnds
  <2> QED
    BY <2>1, <2>2, <2>3, <2>4, <2>5, <2>6 DEF RegistryStep, BookStep
<1> QED
  BY <1>1, <1>2

\* However requests overlap, every relation of the workspace joins nodes that are there:
\* no deletion leaves one behind, and no write that lost its account, group or address
\* book to a deletion makes one.
THEOREM WorkspaceTypeOK == ApartSpec => []TypeOK
<1>1. ApartSpec => Init /\ [][ApartNext]_vars
  BY DEF ApartSpec
<1>2. OverlapInv => TypeOK
  BY DEF OverlapInv
<1> QED
  BY <1>1, <1>2, InitOverlap, StepOverlaps, PTL

---------------------------------------------------------------------------
\* A write of an address book that goes on has matched an account.
FoundInv == \A r \in Request :
    req[r].op = "createBook" /\ req[r].pc = "matched" => seen[r].accounts # {}

\* A first query, and a step that ends one, concerns one request.
LEMMA BeginsOne ==
    ASSUME TypeOK, TypeOK', NEW r \in Request, NEW args, NEW next, Begin(r, args, next)
    PROVE  /\ req'[r].pc = next /\ seen' = seen
           /\ \A q \in Request \ {r} : req'[q] = req[q]
<1>1. req' = [req EXCEPT ![r] = [args EXCEPT !.pc = next]] /\ seen' = seen
  BY DEF Begin, bookVars
<1>2. req'[r] = [args EXCEPT !.pc = next] /\ req'[r] \in RequestRecord
  BY <1>1 DEF TypeOK
<1>3. "pc" \in DOMAIN req'[r]
  BY <1>2 DEF RequestRecord
<1>4. "pc" \in DOMAIN args
  BY <1>2, <1>3
<1>5. req'[r].pc = next
  BY <1>2, <1>4
<1> QED
  BY <1>1, <1>5 DEF TypeOK

LEMMA EndsOne ==
    ASSUME TypeOK, NEW r \in Request, NEW pc, End(r, pc)
    PROVE  /\ req'[r].pc = pc /\ req'[r].op = req[r].op
           /\ \A q \in Request \ {r} : req'[q] = req[q]
<1>1. req[r] \in RequestRecord /\ req' = [req EXCEPT ![r] = [req[r] EXCEPT !.pc = pc]]
  BY DEF End, TypeOK
<1>2. [req[r] EXCEPT !.pc = pc].pc = pc /\ [req[r] EXCEPT !.pc = pc].op = req[r].op
  BY <1>1 DEF RequestRecord
<1> QED
  BY <1>1, <1>2 DEF TypeOK

\* What a request has seen of accounts only its own steps change.
LEMMA SeenOfOthers ==
    ASSUME TypeOK, NEW r \in Request,
           \/ seen' = seen \/ Forget(r) \/ \E x : seen' = [seen EXCEPT ![r] = x]
    PROVE  \A q \in Request \ {r} : seen'[q].accounts = seen[q].accounts
<1>1. CASE Forget(r)
  BY <1>1 DEF Forget
<1>2. CASE \E x : seen' = [seen EXCEPT ![r] = x]
  BY <1>2 DEF TypeOK
<1> QED
  BY <1>1, <1>2

LEMMA StepFinds ==
    ASSUME TypeOK, TypeOK', FoundInv, NEW r \in Request, SignIn(r) \/ RegistryStep(r) \/ BookStep(r)
    PROVE  FoundInv'
<1> USE DEF registryVars, bookVars
<1>1. ASSUME NEW pc, pc # "matched", req'[r].pc = pc,
             \A q \in Request \ {r} : req'[q] = req[q],
             \A q \in Request \ {r} : seen'[q].accounts = seen[q].accounts
      PROVE  FoundInv'
  BY <1>1 DEF FoundInv
<1>2. CASE \E args, next : Begin(r, args, next) /\ next # "matched"
  BY <1>1, <1>2, BeginsOne
<1>3. CASE /\ \/ CreateUser(r) \/ CreateTag(r) \/ CreateGroup(r) \/ UpdateGroup(r) \/ DeleteGroup(r)
              \/ CreateAccount(r) \/ UpdateAccount(r) \/ DeleteAccount(r)
              \/ CreateBook(r) \/ UpdateBook(r) \/ SetBook(r) \/ DeleteBook(r)
  <2>1. PICK pc \in {"done", "failed", "set"} : End(r, pc)
    BY <1>3 DEF CreateUser, CreateTag, CreateGroup, UpdateGroup, DeleteGroup, CreateAccount,
       UpdateAccount, DeleteAccount, CreateBook, UpdateBook, SetBook, DeleteBook
  <2>2. \/ seen' = seen \/ Forget(r) \/ seen' = [seen EXCEPT ![r] = Nothing]
    BY <1>3 DEF CreateUser, CreateTag, CreateGroup, UpdateGroup, DeleteGroup, CreateAccount,
       UpdateAccount, DeleteAccount, CreateBook, UpdateBook, SetBook, DeleteBook
  <2> QED
    BY <1>1, <2>1, <2>2, EndsOne, SeenOfOthers
<1>4. CASE MatchAccount(r) \/ MatchBook(r)
  <2>1. /\ \E pc : End(r, pc)
        /\ seen' = seen \/ \E x : seen' = [seen EXCEPT ![r] = x]
        /\ req[r].op # "createBook"
    BY <1>4 DEF MatchAccount, MatchBook
  <2>2. req'[r].op # "createBook" /\ \A q \in Request \ {r} : req'[q] = req[q]
    BY <2>1, EndsOne
  <2>3. \A q \in Request \ {r} : seen'[q].accounts = seen[q].accounts
    BY <2>1, SeenOfOthers
  <2> QED
    BY <2>2, <2>3 DEF FoundInv
<1>5. CASE MatchAddress(r)
  <2> DEFINE found == WithAddress(req[r].address)
  <2>1. /\ seen' = [seen EXCEPT ![r] = [seen[r] EXCEPT !.accounts = found]]
        /\ End(r, IF found = {} THEN "done" ELSE "matched")
    BY <1>5 DEF MatchAddress
  <2>2. /\ req'[r].pc = "matched" => found # {}
        /\ \A q \in Request \ {r} : req'[q] = req[q]
    BY <2>1, EndsOne
  <2>3. seen[r] \in Relations /\ seen'[r] = [seen[r] EXCEPT !.accounts = found]
    BY <2>1 DEF TypeOK
  <2>4. seen'[r].accounts = found
    BY <2>3 DEF Relations
  <2>5. \A q \in Request \ {r} : seen'[q].accounts = seen[q].accounts
    BY <2>1, SeenOfOthers
  <2> QED
    BY <2>2, <2>4, <2>5 DEF FoundInv
<1>6. ASSUME \/ SignIn(r) \/ MergeTag(r) \/ MergeGroup(r) \/ FindGroup(r) \/ CheckAddress(r)
             \/ FindAccount(r) \/ CheckAccount(r) \/ FindBook(r)
      PROVE  \E args, next : Begin(r, args, next) /\ next # "matched"
  <2>1. CASE SignIn(r)
    BY <2>1 DEF SignIn
  <2>2. CASE MergeTag(r)
    BY <2>2 DEF MergeTag
  <2>3. CASE MergeGroup(r)
    BY <2>3 DEF MergeGroup
  <2>4. CASE FindGroup(r)
    BY <2>4 DEF FindGroup
  <2>5. CASE CheckAddress(r)
    BY <2>5 DEF CheckAddress
  <2>6. CASE FindAccount(r)
    BY <2>6 DEF FindAccount
  <2>7. CASE CheckAccount(r)
    BY <2>7 DEF CheckAccount
  <2>8. CASE FindBook(r)
    BY <2>8 DEF FindBook
  <2> QED
    BY <1>6, <2>1, <2>2, <2>3, <2>4, <2>5, <2>6, <2>7, <2>8
<1> QED
  BY <1>2, <1>3, <1>4, <1>5, <1>6 DEF RegistryStep, BookStep

LEMMA FoundInvariant == ApartSpec => []FoundInv
<1>1. Init => FoundInv
  BY DEF Init, FoundInv, Blank
<1>2. TypeOK /\ TypeOK' /\ FoundInv /\ [ApartNext]_vars => FoundInv'
  <2> SUFFICES ASSUME TypeOK, TypeOK', FoundInv, [ApartNext]_vars PROVE FoundInv'
    OBVIOUS
  <2>1. CASE UNCHANGED vars
    BY <2>1 DEF vars, bookVars, FoundInv
  <2>2. CASE ApartNext
    BY <2>2, StepFinds DEF ApartNext
  <2> QED
    BY <2>1, <2>2
<1>3. ApartSpec => Init /\ [][ApartNext]_vars
  BY DEF ApartSpec
<1> QED
  BY <1>1, <1>2, <1>3, WorkspaceTypeOK, PTL

\* Only POST /address-book makes one, in the query that relates it to the account.
LEMMA StepMakesBooks ==
    ASSUME FoundInv, [ApartNext]_vars, NEW b \in DOMAIN books' \ DOMAIN books, req[b].address # None
    PROVE  \E a \in DOMAIN accounts' : <<b, a>> \in has'
<1>1. books' # books
  OBVIOUS
<1>2. PICK r \in Request : SignIn(r) \/ RegistryStep(r) \/ BookStep(r)
  BY <1>1 DEF ApartNext, vars, bookVars
<1>3. ~SignIn(r) /\ ~RegistryStep(r)
  BY <1>1 DEF SignIn, RegistryStep, CreateUser, MergeTag, CreateTag, MergeGroup, CreateGroup,
     FindGroup, UpdateGroup, DeleteGroup, Begin, bookVars
<1>4. CreateBook(r) \/ UpdateBook(r) \/ SetBook(r) \/ DeleteBook(r)
  BY <1>1, <1>2, <1>3 DEF BookStep, CheckAddress, CreateAccount, FindAccount, MatchAccount,
     UpdateAccount, DeleteAccount, CheckAccount, MatchAddress, FindBook, MatchBook, Begin, bookVars
<1>5. ~UpdateBook(r) /\ ~SetBook(r) /\ ~DeleteBook(r)
  BY DEF UpdateBook, SetBook, DeleteBook, Restrict
<1>6. CreateBook(r)
  BY <1>4, <1>5
<1>7. /\ seen[r].accounts \subseteq DOMAIN accounts
      /\ books' = [c \in DOMAIN books \cup {r} |-> IF c = r THEN r ELSE books[c]]
      /\ has' = has \cup {r} \X seen[r].accounts /\ accounts' = accounts
  BY <1>1, <1>6 DEF CreateBook
<1>8. b = r
  BY <1>7
<1>9. PICK a \in seen[r].accounts : TRUE
  BY <1>6, <1>8 DEF CreateBook, FoundInv
<1> QED
  BY <1>7, <1>8, <1>9

\* However requests overlap, an address book made for an account's address is related to
\* an account that is there when it is made.
THEOREM BooksComeWithAccounts == ApartSpec => BookMadeWithItsAccount
<1>1. FoundInv /\ [ApartNext]_vars =>
        [\A b \in DOMAIN books' \ DOMAIN books : req[b].address # None =>
           \E a \in DOMAIN accounts' : <<b, a>> \in has']_vars
  BY StepMakesBooks
<1>2. ApartSpec => [][ApartNext]_vars
  BY DEF ApartSpec
<1> QED
  BY <1>1, <1>2, FoundInvariant, PTL DEF BookMadeWithItsAccount
=============================================================================
