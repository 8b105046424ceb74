-------------------------- MODULE PortfolioProofs --------------------------
(***************************************************************************)
(* The invariants of Portfolio, for any set of requests and of addresses,  *)
(* any chain, page and prices.  SyncedAreListed and ListedOnce are not     *)
(* inductive: IInv adds who a message on its way belongs to.               *)
(***************************************************************************)
EXTENDS Portfolio, FiniteSetTheorems, TLAPS

\* What holds between two requests as well as while a topic is drained.
Unique == \A a, b \in DOMAIN address : address[a] = address[b] => a = b

PricesStay == PricedAtStart <= priced

MessagesKnowTheirTask ==
    \A m \in topic : task[m.tid] # NoTask => m.tid \in TasksOf(m.address)

StoredOnce == \A a \in Request, s \in Sig : onTask[a][s] <= 1

\* A synced signature with a price is stored, or its message is on its way.
SyncedAreKept ==
    \A a \in DOMAIN address : \A s \in task[a].synced :
        s <= PricedAtStart =>
            onTask[a][s] > 0 \/ \E m \in topic : m.sig = s /\ m.tid = a

\* Ids are fresh: a task is that of a request there was.
TasksAreNamed == \A a \in Request : task[a] # NoTask => a \in named

IInv ==
    /\ TypeOK /\ Unique /\ PricesStay /\ TasksAreNamed
    /\ MessagesKnowTheirTask /\ StoredOnce /\ SyncedAreKept

---------------------------------------------------------------------------
(* The operators of the module.                                            *)

\* The length of any set of signatures is a number.
LEMMA SetOfSigs ==
    ASSUME NEW S, S \subseteq Sig
    PROVE  Cardinality(S) \in Nat
<1>1. MaxHeight \in Nat
  BY PortfolioAssumption DEF PortfolioAssumption
<1>2. IsFiniteSet(Sig)
  BY <1>1, FS_Interval DEF Sig
<1> QED
  BY <1>2, FS_Subset, FS_CardinalityType

\* A page is made of signatures of the chain.
LEMMA PageIsSigs == ASSUME NEW adr, NEW limit PROVE Newest(adr, limit) \subseteq Sig
  BY DEF Newest, History

\* The chain has a natural number of transactions.
LEMMA HeightIsNat == Height \in Nat
  BY SetOfSigs DEF Height

\* ... and no more than the bound.
LEMMA HeightIsBounded == Height <= MaxHeight
<1>1. MaxHeight \in Nat
  BY PortfolioAssumption DEF PortfolioAssumption
<1>2. IsFiniteSet(Sig) /\ Cardinality(Sig) = MaxHeight
  <2>1. IsFiniteSet(Sig) /\ Cardinality(Sig) = IF 1 > MaxHeight THEN 0 ELSE MaxHeight - 1 + 1
    BY <1>1, FS_Interval DEF Sig
  <2> QED
    BY <1>1, <2>1
<1> DEFINE used == {s \in Sig : parties[s] # {}}
<1>3. Cardinality(used) <= Cardinality(Sig)
  BY <1>2, FS_Subset
<1> QED
  BY <1>2, <1>3 DEF Height

\* A task is not the absence of one.
LEMMA TaskIsNotNone == ASSUME NEW t \in Task PROVE t # NoTask
<1>1. t.amount \in Nat
  BY DEF Task
<1> QED
  BY <1>1 DEF NoTask

\* A node in the listing of one address is on the task of an account with it.
LEMMA ListedMembers ==
    ASSUME NEW adr, NEW t
    PROVE  t \in FindTransactions({adr}) <=>
               \E a \in TasksOf(adr), s \in Sig : t \in Transactions(a, s, onTask[a][s])
  BY DEF FindTransactions

---------------------------------------------------------------------------
(* The handlers and services, one lemma each: what a step does to the      *)
(* invariant when the other variables stay.                                *)

\* The inductive invariant holds before anything is asked.
LEMMA InitIInv == Init => IInv
<1> SUFFICES ASSUME Init PROVE IInv
  OBVIOUS
<1>1. PricedAtStart \in 0 .. MaxHeight
  BY PortfolioAssumption DEF PortfolioAssumption
<1>2. TypeOK
  BY <1>1 DEF Init, TypeOK
<1>3. Unique /\ PricesStay /\ TasksAreNamed /\ MessagesKnowTheirTask /\ SyncedAreKept
  BY <1>1 DEF Init, Unique, PricesStay, TasksAreNamed, MessagesKnowTheirTask, SyncedAreKept
<1>4. StoredOnce
  BY DEF Init, StoredOnce
<1> QED
  BY <1>2, <1>3, <1>4 DEF IInv

\* POST /account.
LEMMA CreateAccountKeeps ==
    ASSUME IInv, NEW r \in Request \ named, NEW adr \in Address, topic = {},
           CreateAccount(r, adr), named' = named \cup {r},
           UNCHANGED <<parties, priced, loose, loop, awaited>>
    PROVE  IInv'
<1> USE DEF IInv, CreateAccount, pipelineVars
<1>1. TypeOK'
  BY DEF TypeOK
<1>2. Unique'
  BY DEF Unique, WithAddress, TypeOK
<1>3. PricesStay' /\ TasksAreNamed' /\ MessagesKnowTheirTask' /\ StoredOnce'
  BY DEF PricesStay, TasksAreNamed, MessagesKnowTheirTask, StoredOnce
<1>4. task[r].synced = {}
  BY DEF TasksAreNamed, NoTask
<1>5. SyncedAreKept'
  BY <1>4 DEF SyncedAreKept
<1> QED
  BY <1>1, <1>2, <1>3, <1>5

\* POST /account/sync of a new address.
LEMMA SyncNewKeeps ==
    ASSUME IInv, NEW r \in Request \ named, NEW adr \in Address, topic = {},
           SyncNew(r, adr), named' = named \cup {r},
           UNCHANGED <<parties, priced, loose, loop, awaited>>
    PROVE  IInv'
<1> DEFINE listed == Newest(adr, Page)
           new == [amount |-> Cardinality(listed), progress |-> 0, synced |-> listed]
<1> USE DEF IInv
<1>1. listed \subseteq Sig /\ new \in Task /\ new.synced = listed
  BY PageIsSigs, SetOfSigs DEF Task
<1> HIDE DEF listed
<1>2. /\ WithAddress(adr) = {} /\ onTask' = onTask
      /\ address' = [a \in DOMAIN address \cup {r} |-> IF a = r THEN adr ELSE address[a]]
      /\ task' = [task EXCEPT ![r] = new]
      /\ topic' = [sig : listed, address : {adr}, tid : {r}]
  BY DEF SyncNew, Send, listed
<1> HIDE DEF new
<1>3. TypeOK'
  BY <1>1, <1>2 DEF TypeOK, Message
<1>4. Unique'
  BY <1>2 DEF Unique, WithAddress, TypeOK
<1>5. PricesStay' /\ TasksAreNamed' /\ StoredOnce'
  BY <1>1, <1>2 DEF PricesStay, TasksAreNamed, StoredOnce, TypeOK
<1>6. MessagesKnowTheirTask'
  <2> SUFFICES ASSUME NEW m \in topic', task'[m.tid] # NoTask
               PROVE  (m.tid \in TasksOf(m.address))'
    BY DEF MessagesKnowTheirTask
  <2>1. m.tid = r /\ m.address = adr
    BY <1>2
  <2> QED
    BY <1>2, <2>1 DEF TasksOf, WithAddress
<1>7. SyncedAreKept'
  <2> SUFFICES ASSUME NEW a \in DOMAIN address', NEW s \in task'[a].synced,
                      s <= PricedAtStart
               PROVE  onTask'[a][s] > 0 \/ \E m \in topic' : m.sig = s /\ m.tid = a
    BY DEF SyncedAreKept
  <2>1. CASE a = r
    <3>1. s \in listed
      BY <1>1, <1>2, <2>1 DEF TypeOK
    <3> DEFINE m == [sig |-> s, address |-> adr, tid |-> r]
    <3>2. m \in topic' /\ m.sig = s /\ m.tid = r
      BY <1>2, <3>1
    <3> QED
      BY <2>1, <3>2
  <2>2. CASE a # r
    BY <1>2, <2>2 DEF SyncedAreKept
  <2> QED
    BY <2>1, <2>2
<1> QED
  BY <1>3, <1>4, <1>5, <1>6, <1>7

\* PUT /account with another address, and DELETE /account/:id.
LEMMA MoveAccountKeeps ==
    ASSUME IInv, NEW a \in DOMAIN address, NEW adr \in Address, topic = {},
           WithAddress(adr) = {}, MoveAccount(a, adr),
           UNCHANGED <<parties, priced, named, loose, loop, awaited>>
    PROVE  IInv'
<1> USE DEF IInv, MoveAccount, pipelineVars
<1>1. TypeOK'
  BY DEF TypeOK
<1>2. Unique'
  BY DEF Unique, WithAddress, TypeOK
<1>3. PricesStay' /\ TasksAreNamed' /\ MessagesKnowTheirTask' /\ StoredOnce' /\ SyncedAreKept'
  BY DEF PricesStay, TasksAreNamed, MessagesKnowTheirTask, StoredOnce, SyncedAreKept
<1> QED
  BY <1>1, <1>2, <1>3

LEMMA DeleteAccountKeeps ==
    ASSUME IInv, NEW a \in DOMAIN address, topic = {}, DeleteAccount(a),
           UNCHANGED <<parties, priced, named, loose, loop, awaited>>
    PROVE  IInv'
<1> USE DEF IInv, DeleteAccount, pipelineVars, Restrict
<1>1. TypeOK'
  BY DEF TypeOK
<1>2. Unique'
  BY DEF Unique
<1>3. PricesStay' /\ TasksAreNamed' /\ MessagesKnowTheirTask' /\ StoredOnce' /\ SyncedAreKept'
  BY DEF PricesStay, TasksAreNamed, MessagesKnowTheirTask, StoredOnce, SyncedAreKept
<1> QED
  BY <1>1, <1>2, <1>3

\* POST /account/sync and /resync of an address there is: the address has one account
\* at most, so the task that is read is the task that is set, and what is not sent was
\* stored by it before.
LEMMA SyncAgainKeeps ==
    ASSUME IInv, NEW r \in Request \ named, NEW adr \in Address, topic = {},
           SyncAgain(r, adr), named' = named \cup {r},
           UNCHANGED <<parties, priced, loose, loop, awaited>>
    PROVE  IInv'
<1> DEFINE listed == Newest(adr, Page)
<1> USE DEF IInv
<1>1. listed \subseteq Sig /\ Cardinality(listed) \in Nat
  BY PageIsSigs, SetOfSigs
<1> HIDE DEF listed
<1>2. onTask' = onTask /\ address' = address
  BY DEF SyncAgain
<1>3. CASE TasksOf(adr) = {} /\ Send(listed, adr, r) /\ UNCHANGED task
  <2>1. topic' = [sig : listed, address : {adr}, tid : {r}] /\ task' = task
    BY <1>3 DEF Send
  <2>2. TypeOK'
    BY <1>1, <1>2, <2>1 DEF TypeOK, Message
  <2>3. task[r] = NoTask
    BY DEF TasksAreNamed
  <2>4. MessagesKnowTheirTask'
    BY <2>1, <2>3 DEF MessagesKnowTheirTask
  <2>5. Unique' /\ PricesStay' /\ TasksAreNamed' /\ StoredOnce' /\ SyncedAreKept'
    BY <1>2, <2>1 DEF Unique, PricesStay, TasksAreNamed, StoredOnce, SyncedAreKept
  <2> QED
    BY <2>2, <2>4, <2>5
<1>4. CASE \E first, owner \in TasksOf(adr) :
               /\ task' = [a \in Request |->
                      IF a \in TasksOf(adr)
                      THEN [amount |-> Cardinality(listed),
                            progress |-> Cardinality(task[first].synced), synced |-> listed]
                      ELSE task[a]]
               /\ Send(listed \ task[first].synced, adr, owner)
  <2>1. PICK first, owner \in TasksOf(adr) :
               /\ task' = [a \in Request |->
                      IF a \in TasksOf(adr)
                      THEN [amount |-> Cardinality(listed),
                            progress |-> Cardinality(task[first].synced), synced |-> listed]
                      ELSE task[a]]
               /\ Send(listed \ task[first].synced, adr, owner)
    BY <1>4
  <2>2. /\ owner = first /\ first \in DOMAIN address /\ address[first] = adr
        /\ first \in named /\ first \in Request /\ task[first] \in Task
        /\ \A a \in TasksOf(adr) : a = first
    BY DEF Unique, TasksOf, WithAddress, TypeOK
  <2> DEFINE new == [amount |-> Cardinality(listed),
                     progress |-> Cardinality(task[first].synced), synced |-> listed]
  <2>3. new \in Task /\ new.synced = listed
    BY <1>1, <2>2, SetOfSigs DEF Task
  <2>4. task' = [task EXCEPT ![first] = new]
    BY <2>1, <2>2 DEF TypeOK
  <2> HIDE DEF new
  <2>5. new # NoTask
    BY <2>3, TaskIsNotNone
  <2>6. topic' = [sig : listed \ task[first].synced, address : {adr}, tid : {first}]
    BY <2>1, <2>2 DEF Send
  <2>7. TypeOK'
    BY <1>1, <1>2, <2>2, <2>3, <2>4, <2>6 DEF TypeOK, Message
  <2>8. Unique' /\ PricesStay' /\ TasksAreNamed' /\ StoredOnce'
    BY <1>2, <2>2, <2>4 DEF Unique, PricesStay, TasksAreNamed, StoredOnce, TypeOK
  <2>9. MessagesKnowTheirTask'
    <3> SUFFICES ASSUME NEW m \in topic'
                 PROVE  (m.tid \in TasksOf(m.address))'
      BY DEF MessagesKnowTheirTask
    <3>1. m.tid = first /\ m.address = adr
      BY <2>6
    <3>2. task'[first] # NoTask
      BY <2>2, <2>4, <2>5 DEF TypeOK
    <3> QED
      BY <1>2, <2>2, <3>1, <3>2 DEF TasksOf, WithAddress
  <2>10. SyncedAreKept'
    <3> SUFFICES ASSUME NEW a \in DOMAIN address', NEW s \in task'[a].synced,
                        s <= PricedAtStart
                 PROVE  onTask'[a][s] > 0 \/ \E m \in topic' : m.sig = s /\ m.tid = a
      BY DEF SyncedAreKept
    <3>1. CASE a = first /\ s \notin task[first].synced
      <4>1. s \in listed
        BY <2>2, <2>3, <2>4, <3>1 DEF TypeOK
      <4> DEFINE m == [sig |-> s, address |-> adr, tid |-> first]
      <4>2. m \in topic' /\ m.sig = s /\ m.tid = first
        BY <2>6, <3>1, <4>1
      <4> QED
        BY <3>1, <4>2
    <3>2. CASE a = first /\ s \in task[first].synced
      BY <1>2, <2>2, <3>2 DEF SyncedAreKept
    <3>3. CASE a # first
      BY <1>2, <2>4, <3>3 DEF SyncedAreKept
    <3> QED
      BY <3>1, <3>2, <3>3
  <2> QED
    BY <2>7, <2>8, <2>9, <2>10
<1> QED
  BY <1>3, <1>4 DEF SyncAgain, listed

\* Collector and keeper on one signature.
LEMMA ProcessKeeps ==
    ASSUME IInv, NEW m \in topic, Process(m),
           UNCHANGED <<parties, priced, named, address, loose, loop, awaited>>
    PROVE  IInv'
<1> DEFINE stores == ~Exists(m) /\ m.sig <= priced /\ task[m.tid] # NoTask
<1> USE DEF IInv
<1>1. m.sig \in Sig /\ m.tid \in Request /\ topic' = topic \ {m}
  BY DEF TypeOK, Message, Process
<1>2. onTask' = IF stores THEN [onTask EXCEPT ![m.tid][m.sig] = @ + 1] ELSE onTask
  BY DEF Process
<1>3. task' = IF task[m.tid] = NoTask THEN task ELSE [task EXCEPT ![m.tid].progress = @ + 1]
  BY DEF Process
<1>4. \A a \in Request : /\ task'[a].synced = task[a].synced
                         /\ task'[a] \in Task \cup {NoTask}
                         /\ task[a] = NoTask <=> task'[a] = NoTask
  <2>1. CASE task[m.tid] = NoTask
    BY <1>3, <2>1 DEF TypeOK
  <2>2. CASE task[m.tid] # NoTask
    <3> DEFINE old == task[m.tid]
    <3>1. old \in Task
      BY <1>1, <2>2 DEF TypeOK
    <3>2. task' = [task EXCEPT ![m.tid] = [old EXCEPT !.progress = old.progress + 1]]
      BY <1>3, <2>2
    <3>3. /\ [old EXCEPT !.progress = old.progress + 1] \in Task
          /\ [old EXCEPT !.progress = old.progress + 1].synced = old.synced
      BY <3>1 DEF Task
    <3>4. [old EXCEPT !.progress = old.progress + 1] # NoTask
      BY <3>3, TaskIsNotNone
    <3> HIDE DEF old
    <3>5. /\ task'[m.tid] = [old EXCEPT !.progress = old.progress + 1]
          /\ \A a \in Request \ {m.tid} : task'[a] = task[a]
      BY <1>1, <3>2 DEF TypeOK
    <3> QED
      BY <2>2, <3>3, <3>4, <3>5 DEF old, TypeOK
  <2> QED
    BY <2>1, <2>2
<1>5. TypeOK'
  <2>1. task' \in [Request -> Task \cup {NoTask}]
    BY <1>3, <1>4 DEF TypeOK
  <2>2. onTask' \in [Request -> [Sig -> Nat]]
    BY <1>1, <1>2 DEF TypeOK
  <2> QED
    BY <1>1, <2>1, <2>2 DEF TypeOK
<1>6. Unique' /\ PricesStay' /\ TasksAreNamed'
  BY <1>4 DEF Unique, PricesStay, TasksAreNamed
<1>7. MessagesKnowTheirTask'
  <2> SUFFICES ASSUME NEW x \in topic', task'[x.tid] # NoTask
               PROVE  (x.tid \in TasksOf(x.address))'
    BY DEF MessagesKnowTheirTask
  <2>1. x \in topic /\ x.tid \in Request
    BY <1>1 DEF TypeOK, Message
  <2>2. x.tid \in TasksOf(x.address)
    BY <1>4, <2>1 DEF MessagesKnowTheirTask
  <2> QED
    BY <2>2 DEF TasksOf, WithAddress
<1>8. StoredOnce'
  <2>1. CASE stores
    <3>1. m.tid \in TasksOf(m.address)
      BY <2>1 DEF MessagesKnowTheirTask
    <3>2. onTask[m.tid][m.sig] = 0
      BY <1>1, <2>1, <3>1 DEF Exists, TypeOK
    <3> QED
      BY <1>1, <1>2, <2>1, <3>2 DEF StoredOnce, TypeOK
  <2>2. CASE ~stores
    BY <1>2, <2>2 DEF StoredOnce
  <2> QED
    BY <2>1, <2>2
<1>9. SyncedAreKept'
  <2> SUFFICES ASSUME NEW a \in DOMAIN address', NEW s \in task'[a].synced,
                      s <= PricedAtStart
               PROVE  onTask'[a][s] > 0 \/ \E x \in topic' : x.sig = s /\ x.tid = a
    BY DEF SyncedAreKept
  <2>1. a \in DOMAIN address /\ a \in Request /\ s \in task[a].synced
    BY <1>4 DEF TypeOK
  <2>2. task[a] # NoTask
    BY <2>1 DEF NoTask
  <2>3. s \in Sig
    BY <2>1, <2>2 DEF TypeOK, Task
  <2>4. CASE m.sig = s /\ m.tid = a
    <3>1. CASE Exists(m)
      <4>1. a \in TasksOf(m.address)
        BY <2>2, <2>4 DEF MessagesKnowTheirTask
      <4>2. \A b \in TasksOf(m.address) : b = a
        BY <4>1 DEF Unique, TasksOf, WithAddress
      <4>3. onTask[a][s] > 0
        BY <2>4, <3>1, <4>2 DEF Exists
      <4> QED
        BY <1>2, <3>1, <4>3
    <3>2. CASE ~Exists(m)
      <4>1. s <= priced
        <5>1. PricedAtStart \in Int /\ priced \in Int /\ s \in Int
          BY <2>3, PortfolioAssumption DEF TypeOK, PortfolioAssumption, Sig
        <5> QED
          BY <5>1 DEF PricesStay
      <4>2. onTask' = [onTask EXCEPT ![a][s] = @ + 1]
        BY <1>2, <2>2, <2>4, <3>2, <4>1
      <4>3. onTask'[a][s] = onTask[a][s] + 1 /\ onTask[a][s] \in Nat
        BY <2>1, <2>3, <4>2 DEF TypeOK
      <4> QED
        BY <4>3
    <3> QED
      BY <3>1, <3>2
  <2>5. CASE ~(m.sig = s /\ m.tid = a)
    <3>1. onTask'[a][s] = onTask[a][s]
      BY <1>1, <1>2, <2>1, <2>3, <2>5 DEF TypeOK
    <3>2. \A x \in topic : x.sig = s /\ x.tid = a => x \in topic'
      BY <1>1, <2>5
    <3> QED
      BY <2>1, <3>1, <3>2 DEF SyncedAreKept
  <2> QED
    BY <2>4, <2>5
<1> QED
  BY <1>5, <1>6, <1>7, <1>8, <1>9

---------------------------------------------------------------------------
\* Every step keeps the inductive invariant.
LEMMA NextIInv == IInv /\ [Next]_vars => IInv'
<1> SUFFICES ASSUME IInv, [Next]_vars PROVE IInv'
  OBVIOUS
<1>1. CASE AccountRequest
  <2>1. CASE \E r \in Request \ named, adr \in Address :
               /\ CreateAccount(r, adr) \/ SyncNew(r, adr) \/ SyncAgain(r, adr)
               /\ named' = named \cup {r}
    BY <1>1, <2>1, CreateAccountKeeps, SyncNewKeeps, SyncAgainKeeps DEF AccountRequest, handVars
  <2>2. CASE \E a \in DOMAIN address :
               /\ \/ DeleteAccount(a)
                  \/ \E adr \in Address : WithAddress(adr) = {} /\ MoveAccount(a, adr)
               /\ UNCHANGED named
    BY <1>1, <2>2, DeleteAccountKeeps, MoveAccountKeeps DEF AccountRequest, handVars
  <2> QED
    BY <1>1, <2>1, <2>2 DEF AccountRequest
<1>2. CASE (\E m \in topic : Process(m))
           /\ UNCHANGED <<parties, priced, named, address, handVars>>
  BY <1>2, ProcessKeeps DEF handVars
<1>3. ASSUME UNCHANGED <<address, pipelineVars>>, named \subseteq named', TypeOK',
             priced <= priced'
      PROVE  IInv'
  <2>1. PricesStay'
    <3>1. PricedAtStart \in Int /\ priced \in Int /\ priced' \in Int
      BY <1>3, PortfolioAssumption DEF IInv, TypeOK, PortfolioAssumption
    <3> QED
      BY <1>3, <3>1 DEF IInv, PricesStay
  <2>2. Unique' /\ TasksAreNamed' /\ MessagesKnowTheirTask' /\ StoredOnce' /\ SyncedAreKept'
    BY <1>3 DEF IInv, Unique, TasksAreNamed, MessagesKnowTheirTask, StoredOnce,
                SyncedAreKept, TasksOf, WithAddress, pipelineVars
  <2> QED
    BY <1>3, <2>1, <2>2 DEF IInv
<1>4. priced \in Int /\ priced <= priced
  BY DEF IInv, TypeOK
<1>5. CASE HandRequest
  <2>1. CASE \E s \in Sig : StoreTransaction(s)
    <3>1. TypeOK'
      BY <1>5, <2>1 DEF HandRequest, StoreTransaction, IInv, TypeOK, pipelineVars
    <3> QED
      BY <1>3, <1>4, <1>5, <2>1, <3>1 DEF HandRequest, StoreTransaction
  <2>2. CASE \E r \in Request \ named, adr \in Address : SyncAccountTransactions(r, adr)
    <3>1. named \subseteq named'
      BY <2>2 DEF SyncAccountTransactions
    <3>2. loop' \in [Request -> SUBSET Sig] /\ named' \subseteq Request /\ awaited' \subseteq named'
      BY <2>2, PageIsSigs DEF SyncAccountTransactions, IInv, TypeOK
    <3>3. TypeOK'
      BY <1>5, <2>2, <3>1, <3>2 DEF HandRequest, SyncAccountTransactions, IInv, TypeOK,
                                    pipelineVars
    <3> QED
      BY <1>3, <1>4, <1>5, <3>1, <3>3 DEF HandRequest
  <2> QED
    BY <1>5, <2>1, <2>2 DEF HandRequest
<1>6. CASE (\E r \in Request : StoreNext(r))
           /\ UNCHANGED <<parties, priced, named, address, pipelineVars>>
  <2>1. PICK r \in Request : StoreNext(r)
    BY <1>6
  <2>2. loop' \in [Request -> SUBSET Sig] /\ awaited' \subseteq named
    BY <2>1 DEF StoreNext, IInv, TypeOK
  <2>3. loose' \in [Sig -> Nat]
    BY <2>1 DEF StoreNext, IInv, TypeOK
  <2>4. TypeOK'
    BY <1>6, <2>2, <2>3 DEF IInv, TypeOK, pipelineVars
  <2> QED
    BY <1>3, <1>4, <1>6, <2>4
<1>10. CASE TimeOut
  <2>1. TypeOK'
    BY <1>10 DEF TimeOut, IInv, TypeOK, pipelineVars
  <2> QED
    BY <1>3, <1>4, <1>10, <2>1 DEF TimeOut
<1>7. CASE Grow
  <2>1. TypeOK'
    BY <1>7 DEF Grow, IInv, TypeOK, pipelineVars, handVars
  <2> QED
    BY <1>3, <1>4, <1>7, <2>1 DEF Grow
<1>8. CASE FetchPrices
  <2>1. MaxHeight \in Nat /\ Height \in Nat /\ Height <= MaxHeight
    BY HeightIsNat, HeightIsBounded, PortfolioAssumption DEF PortfolioAssumption
  <2>2. PICK p \in priced + 1 .. Height : priced' = p
    BY <1>8 DEF FetchPrices
  <2>3. priced' \in 0 .. MaxHeight /\ priced <= priced'
    BY <2>1, <2>2 DEF IInv, TypeOK
  <2>4. TypeOK'
    BY <1>8, <2>3 DEF FetchPrices, IInv, TypeOK, pipelineVars, handVars
  <2> QED
    BY <1>3, <1>8, <2>3, <2>4 DEF FetchPrices
<1>9. CASE UNCHANGED vars
  <2>1. TypeOK'
    BY <1>9 DEF vars, IInv, TypeOK
  <2> QED
    BY <1>3, <1>4, <1>9, <2>1 DEF vars, pipelineVars
<1> QED
  BY <1>1, <1>2, <1>5, <1>6, <1>7, <1>8, <1>9, <1>10 DEF Next

\* With nothing on its way, what is synced is stored on the account's own task, and the
\* listing of the account's address goes through it.
LEMMA IInvLists == IInv => SyncedAreListed
<1> SUFFICES ASSUME IInv, topic = {}, NEW a \in DOMAIN address, NEW s \in task[a].synced,
                    s <= PricedAtStart
             PROVE  \E t \in FindTransactions({address[a]}) : t.sig = s
  BY DEF SyncedAreListed
<1>1. a \in Request /\ task[a] # NoTask
  BY DEF IInv, TypeOK, NoTask
<1>2. s \in Sig
  BY <1>1 DEF IInv, TypeOK, Task
<1>3. onTask[a][s] \in Nat /\ onTask[a][s] > 0
  BY <1>1, <1>2 DEF IInv, TypeOK, SyncedAreKept
<1>4. a \in TasksOf(address[a])
  BY <1>1 DEF TasksOf, WithAddress
<1> DEFINE t == [on |-> a, sig |-> s, copy |-> 1]
<1>5. t \in Transactions(a, s, onTask[a][s]) /\ t.sig = s
  BY <1>3 DEF Transactions
<1> QED
  BY <1>2, <1>4, <1>5, ListedMembers

\* One account per address and one transaction per signature on its task.
LEMMA IInvOnce == IInv => ListedOnce
<1> SUFFICES ASSUME IInv, NEW adr \in Address, NEW t \in FindTransactions({adr}),
                    NEW u \in FindTransactions({adr}), t.sig = u.sig
             PROVE  t = u
  BY DEF ListedOnce
<1>1. PICK a \in TasksOf(adr), x \in Sig : t \in Transactions(a, x, onTask[a][x])
  BY ListedMembers
<1>2. PICK b \in TasksOf(adr), y \in Sig : u \in Transactions(b, y, onTask[b][y])
  BY ListedMembers
<1>3. a = b /\ a \in Request
  BY DEF IInv, Unique, TasksOf, WithAddress, TypeOK
<1>4. x = y
  BY <1>1, <1>2 DEF Transactions
<1>5. onTask[a][x] \in Nat /\ onTask[a][x] <= 1
  BY <1>3 DEF IInv, TypeOK, StoredOnce
<1>6. \A i \in 1 .. onTask[a][x] : i = 1
  BY <1>5
<1> QED
  BY <1>1, <1>2, <1>3, <1>4, <1>6 DEF Transactions

\* TypeOK, for every value of the constants.
THEOREM PortfolioTypeOK == Spec => []TypeOK
<1>1. IInv => TypeOK
  BY DEF IInv
<1> QED
  BY InitIInv, NextIInv, <1>1, PTL DEF Spec

\* Every synced transfer with a price is listed for its account, wherever it has moved.
THEOREM PortfolioSyncedAreListed == Spec => []SyncedAreListed
BY InitIInv, NextIInv, IInvLists, PTL DEF Spec

\* A listing of one address shows no transaction twice.
THEOREM PortfolioListedOnce == Spec => []ListedOnce
BY InitIInv, NextIInv, IInvOnce, PTL DEF Spec
=============================================================================
