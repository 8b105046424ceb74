----------------------------- MODULE Portfolio -----------------------------
(***************************************************************************)
(* Several addresses of one user on one chain: which transactions          *)
(* GET /transaction lists after requests of every kind that touches them:  *)
(* accounts made, synchronised, moved to another address and deleted, and  *)
(* transactions stored by hand with POST /transaction/store and /sync.     *)
(*                                                                         *)
(* The client of this module is patient: it waits for each answer and, for *)
(* a request about an account, until the services have nothing left to do. *)
(* A handler of AccountService then runs alone and is one action, and so   *)
(* are the collector and the keeper on one signature; what happens when    *)
(* they overlap is in SyncPipeline.  But no patience helps against the     *)
(* interceptor, which answers a request that takes too long and lets its   *)
(* handler go on: the loop of POST /transaction/sync may run beside        *)
(* anything.  All transactions are transfers.                              *)
(***************************************************************************)
EXTENDS Integers, FiniteSets, Functions, FiniteSetsExt

CONSTANTS
    Request,        \* the requests of a behaviour that need a name of their own
    Address,        \* Solana addresses
    MaxHeight,      \* bound: length the chain may reach
    Page,           \* most signatures the RPC node lists in one answer
    PricedAtStart,  \* positions 1..PricedAtStart have a price from the start
    MaxByHand       \* bound: transactions stored by hand

ASSUME PortfolioAssumption ==
    /\ IsFiniteSet(Request) /\ IsFiniteSet(Address)
    /\ MaxHeight \in Nat /\ Page \in Nat \ {0}
    /\ PricedAtStart \in 0 .. MaxHeight /\ MaxByHand \in Nat

VARIABLES
    parties,  \* position |-> the addresses its transaction concerns, {} before it exists
    priced,   \* positions 1..priced have a price in Redis
    named,    \* requests so far
    address,  \* account |-> its address; an account is named by the request that made it
    task,     \* account |-> the properties of its task, NoTask if it has none
    onTask,   \* account |-> position |-> how many transaction nodes its task has
    loose,    \* position |-> transaction nodes related to no task
    topic,    \* signatures sent to the collector and not processed
    loop,     \* POST /transaction/sync |-> the signatures it has still to store
    awaited   \* the POST /transaction/sync whose answer the client waits for, if any

vars == <<parties, priced, named, address, task, onTask, loose, topic, loop, awaited>>
pipelineVars == <<task, onTask, topic>>
handVars == <<loose, loop, awaited>>

Sig == 1 .. MaxHeight
Height == Cardinality({s \in Sig : parties[s] # {}})
Task == [amount : Nat, progress : Nat, synced : SUBSET Sig]
NoTask == [amount |-> -1, progress |-> -1, synced |-> {}]
Message == [sig : Sig, address : Address, tid : Request]

Init ==
    /\ parties = [s \in Sig |-> {}] /\ priced = PricedAtStart
    /\ named = {} /\ address = [a \in {} |-> 0]
    /\ task = [a \in Request |-> NoTask]
    /\ onTask = [a \in Request |-> [s \in Sig |-> 0]] /\ loose = [s \in Sig |-> 0]
    /\ topic = {} /\ loop = [r \in Request |-> {}] /\ awaited = {}

TypeOK ==
    /\ parties \in [Sig -> SUBSET Address] /\ priced \in 0 .. MaxHeight
    /\ named \subseteq Request
    /\ DOMAIN address \subseteq named /\ address \in [DOMAIN address -> Address]
    /\ task \in [Request -> Task \cup {NoTask}]
    /\ onTask \in [Request -> [Sig -> Nat]] /\ loose \in [Sig -> Nat]
    /\ topic \subseteq Message
    /\ loop \in [Request -> SUBSET Sig] /\ awaited \subseteq named

---------------------------------------------------------------------------
(* Reads.                                                                  *)

History(adr) == {s \in Sig : adr \in parties[s]}

\* The newest signatures of the address, limit of them at most.
Newest(adr, limit) ==
    {s \in History(adr) : Cardinality({x \in History(adr) : x > s}) < limit}

WithAddress(adr) == {a \in DOMAIN address : address[a] = adr}

\* The tasks of the user's accounts with the address.
TasksOf(adr) == {a \in WithAddress(adr) : task[a] # NoTask}

\* Mutant: a transaction of any account is taken for one of this.
ExistsSomewhere(m) == \E a \in DOMAIN address : onTask[a][m.sig] > 0

\* The exists check of the collector.
Exists(m) == \E a \in TasksOf(m.address) : onTask[a][m.sig] > 0

Transactions(on, s, copies) == [on : {on}, sig : {s}, copy : 1 .. copies]

\* Mutant: the transactions are matched without their task.
ListedWithLoose(filter) ==
    UNION ({Transactions(a, s, onTask[a][s]) :
                a \in UNION {TasksOf(adr) : adr \in filter}, s \in Sig}
           \cup {Transactions("none", s, loose[s]) : s \in Sig})

\* GET /transaction with accounts = filter.  The rows are distinct nodes, each found
\* through an account of the filter and its task.
FindTransactions(filter) ==
    UNION {Transactions(a, s, onTask[a][s]) :
               a \in UNION {TasksOf(adr) : adr \in filter}, s \in Sig}

---------------------------------------------------------------------------
(* Requests about accounts, all of them answered before anything else runs. *)

InProcess(t) == t.amount > 0 /\ t.progress > 0 /\ t.amount # t.progress

Send(sigs, adr, tid) ==
    topic' = topic \cup [sig : sigs, address : {adr}, tid : {tid}]

\* POST /account: refused if the user has an account with the address.
CreateAccount(r, adr) ==
    /\ WithAddress(adr) = {}
    /\ address' = [a \in DOMAIN address \cup {r} |-> IF a = r THEN adr ELSE address[a]]
    /\ UNCHANGED pipelineVars

\* POST /account/sync of a new address: an account, its task, and all its signatures.
SyncNew(r, adr) ==
    LET listed == Newest(adr, Page)
    IN  /\ WithAddress(adr) = {}
        /\ address' = [a \in DOMAIN address \cup {r} |-> IF a = r THEN adr ELSE address[a]]
        /\ task' = [task EXCEPT ![r] =
               [amount |-> Cardinality(listed), progress |-> 0, synced |-> listed]]
        /\ Send(listed, adr, r)
        /\ UNCHANGED onTask

\* POST /account/sync of an address there is, and POST /account/resync: every task of
\* the address is set anew, the signatures the first one did not know are sent, under
\* the id of a task, or of none if there is none.
SyncAgain(r, adr) ==
    LET listed == Newest(adr, Page)
    IN  /\ WithAddress(adr) # {}
        /\ \/ TasksOf(adr) = {} /\ Send(listed, adr, r) /\ UNCHANGED task
           \/ \E first, owner \in TasksOf(adr) :
                /\ ~InProcess(task[first])
                /\ task' = [a \in Request |->
                       IF a \in TasksOf(adr)
                       THEN [amount |-> Cardinality(listed),
                             progress |-> Cardinality(task[first].synced), synced |-> listed]
                       ELSE task[a]]
                /\ Send(listed \ task[first].synced, adr, owner)
        /\ UNCHANGED <<address, onTask>>

\* PUT /account with another address: SET a += $account; the task stays.
MoveAccount(a, adr) ==
    /\ address' = [address EXCEPT ![a] = adr]
    /\ UNCHANGED pipelineVars

\* DELETE /account/:id
DeleteAccount(a) ==
    /\ address' = Restrict(address, DOMAIN address \ {a})
    /\ UNCHANGED pipelineVars

---------------------------------------------------------------------------
(* Transactions stored by hand: they hang on no task.                      *)

ByHand == SumFunction(loose)

\* POST /transaction/store; without a price it throws.
StoreTransaction(s) ==
    /\ s <= Height /\ s <= priced
    /\ loose' = [loose EXCEPT ![s] = @ + 1]
    /\ UNCHANGED <<named, loop, awaited>>

\* POST /transaction/sync lists the newest signatures, limit of them if it is given.
SyncAccountTransactions(r, adr) ==
    /\ \E limit \in 1 .. Page : loop' = [loop EXCEPT ![r] = Newest(adr, limit)]
    /\ named' = named \cup {r} /\ awaited' = IF loop'[r] = {} THEN {} ELSE {r}
    /\ UNCHANGED loose

\* One after the other, newest first; the one that throws ends the request.
StoreNext(r) ==
    LET s == Max(loop[r])
    IN  /\ loop[r] # {}
        /\ IF s <= priced
           THEN loose' = [loose EXCEPT ![s] = @ + 1] /\ loop' = [loop EXCEPT ![r] = @ \ {s}]
           ELSE loop' = [loop EXCEPT ![r] = {}] /\ UNCHANGED loose
        /\ awaited' = IF loop'[r] = {} THEN awaited \ {r} ELSE awaited

\* The client is told of a timeout, the handler is not.
TimeOut ==
    /\ awaited # {} /\ awaited' = {}
    /\ UNCHANGED <<parties, priced, named, address, pipelineVars, loose, loop>>

---------------------------------------------------------------------------
(* The services and the world.                                             *)

\* Mutant: the increment makes the task it does not find.
ProcessAnyTask(m) ==
    LET stores == ~Exists(m) /\ m.sig <= priced /\ task[m.tid] # NoTask
    IN  /\ m \in topic /\ topic' = topic \ {m}
        /\ onTask' = IF stores THEN [onTask EXCEPT ![m.tid][m.sig] = @ + 1] ELSE onTask
        /\ task' = [task EXCEPT ![m.tid].progress = @ + 1]

\* Collector and keeper on one signature: if the transaction is not there and has its
\* price it is stored, and in any case counted.  Both queries match the task by id.
Process(m) ==
    LET stores == ~Exists(m) /\ m.sig <= priced /\ task[m.tid] # NoTask
    IN  /\ m \in topic /\ topic' = topic \ {m}
        /\ onTask' = IF stores THEN [onTask EXCEPT ![m.tid][m.sig] = @ + 1] ELSE onTask
        /\ task' = IF task[m.tid] = NoTask THEN task
                   ELSE [task EXCEPT ![m.tid].progress = @ + 1]

Grow ==
    /\ Height < MaxHeight
    /\ \E concerned \in SUBSET Address \ {{}} :
         parties' = [parties EXCEPT ![Height + 1] = concerned]
    /\ UNCHANGED <<priced, named, address, pipelineVars, handVars>>

FetchPrices ==
    /\ \E p \in priced + 1 .. Height : priced' = p
    /\ UNCHANGED <<parties, named, address, pipelineVars, handVars>>

\* A patient client.  It gives an account an address it has no account for, though the
\* code would take any.
AccountRequest ==
    /\ topic = {} /\ awaited = {}
    /\ \/ \E r \in Request \ named, adr \in Address :
            /\ CreateAccount(r, adr) \/ SyncNew(r, adr) \/ SyncAgain(r, adr)
            /\ named' = named \cup {r}
       \/ \E a \in DOMAIN address :
            /\ DeleteAccount(a) \/ \E adr \in Address : WithAddress(adr) = {} /\ MoveAccount(a, adr)
            /\ UNCHANGED named
    /\ UNCHANGED <<parties, priced, handVars>>

HandRequest ==
    /\ awaited = {} /\ ByHand < MaxByHand
    /\ \/ \E s \in Sig : StoreTransaction(s)
       \/ \E r \in Request \ named, adr \in Address : SyncAccountTransactions(r, adr)
    /\ UNCHANGED <<parties, priced, address, pipelineVars>>

Next ==
    \/ AccountRequest \/ HandRequest
    \/ (\E m \in topic : Process(m)) /\ UNCHANGED <<parties, priced, named, address, handVars>>
    \/ (\E r \in Request : StoreNext(r)) /\ UNCHANGED <<parties, priced, named, address, pipelineVars>>
    \/ TimeOut \/ Grow \/ FetchPrices

Spec == Init /\ [][Next]_vars

---------------------------------------------------------------------------
(* Properties.                                                             *)

\* syncedSignatures is what later syncs leave out, so it must be true: when nothing is
\* under way, every synced transfer with a price is listed for its account's address,
\* wherever the account has moved, whatever the page left out and whoever shares it.
SyncedAreListed ==
    topic = {} => \A a \in DOMAIN address :
        \A s \in task[a].synced :
            s <= PricedAtStart => \E t \in FindTransactions({address[a]}) : t.sig = s

\* A listing of one address shows no transaction twice: neither transactions stored by
\* hand, nor the other party's copy, nor a repeated sync after a move get in its way.
ListedOnce ==
    \A adr \in Address : \A t, u \in FindTransactions({adr}) : t.sig = u.sig => t = u
=============================================================================
