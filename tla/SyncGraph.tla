----------------------------- MODULE SyncGraph -----------------------------
(***************************************************************************)
(* The database, the two Kafka topics and the chain, as the services that  *)
(* synchronise one Solana address for one user see them.  Different        *)
(* addresses and users share no task, message or account, so one pair is   *)
(* the whole system.  An account node is named by the API request that     *)
(* created it; a task node by the request that created it and the account  *)
(* it hangs on.  A transaction of the address is its position in the       *)
(* address's history on chain, 1 being the oldest.                         *)
(***************************************************************************)
EXTENDS Integers, FiniteSets

CONSTANTS
    Request,         \* the API requests of a behaviour
    None,            \* absence of a request, a task id, a message
    MaxHeight,       \* bound: length the history on chain may reach
    Page,            \* most signatures the RPC node lists in one answer
    Transfers,       \* the positions whose transaction is a transfer
    PricedAtStart,   \* positions 1..PricedAtStart have a price from the start
    ForeignAccount,  \* another user keeps an account with this address
    Failing,         \* services that may fail: "request", "collector", "keeper"
    MaxFaults        \* bound: crashes and errors in a behaviour

ASSUME ConstantsAssumption ==
    /\ None \notin Request /\ IsFiniteSet(Request)
    /\ MaxHeight \in Nat /\ Page \in Nat \ {0}
    /\ PricedAtStart \in 0 .. MaxHeight /\ Transfers \subseteq 1 .. MaxHeight
    /\ ForeignAccount \in BOOLEAN
    /\ Failing \subseteq {"request", "collector", "keeper"} /\ MaxFaults \in Nat

VARIABLES
    accounts,        \* the user's account nodes with this address
    tasks,           \* task node |-> its properties, NoTask before it exists
    stored,          \* task node |-> position |-> transaction nodes hanging on it
    taskUpdatedAt,   \* account |-> request whose message stamped it last
    lastSync,        \* request whose message stamped the user last
    signatureTopic,  \* collector.process.signature, not yet fetched
    queryTopic,      \* keeper.process.query, not yet fetched
    height,          \* transactions of the address on chain
    priced,          \* positions 1..priced have a price in Redis
    faults           \* crashes and errors so far

graphVars == <<accounts, tasks, stored, taskUpdatedAt, lastSync>>
chainVars == <<height, priced>>

Sig == 1 .. MaxHeight
Node == [by : Request, acc : Request]
Task == [id : Request \cup {None}, amount : Nat, progress : Nat,
         transferCount : Nat, synced : SUBSET Sig]
Message == [req : Request, sig : Sig, tid : Request]

\* A value of the keeper topic: the queries built for message msg, "store" with
\* the two queries of a transfer in front, "skip" without.  copy tells apart the
\* values built for the same message when a fault makes the collector repeat it.
Delivery == [msg : Message, path : {"store", "skip"}, copy : 0 .. MaxFaults]

NoTask == [id |-> None, amount |-> 0, progress |-> 0, transferCount |-> 0, synced |-> {}]

\* Mutant: counts positions from 0.
ListedFromZero == {s \in 0 .. height : s > height - Page}

\* The newest Page transactions of the address, all of them if they fit.
Listed == {s \in 1 .. height : s > height - Page}

\* (user)-[:HAS_ACCOUNT]->(account {address})-[:HAS_TASK]->(task)
Attached == {n \in Node : n.acc \in accounts /\ tasks[n].id # None}

\* Mutant: any task with the transaction will do, the account is not matched.
ExistsAnywhere(s) == \E n \in Node : stored[n][s] > 0

\* The exists check: the transaction already hangs on a task of the account.
Exists(s) == \E n \in Attached : stored[n][s] > 0

\* count[x] things for each x of S, told apart by a number.
Copies(S, count) == UNION {{x} \X (1 .. count[x]) : x \in S}

\* GET /task/progress adds amount - progress over these tasks; zero for each of
\* them is what a client that polls waits for.
Settled == \A n \in Attached : tasks[n].amount = tasks[n].progress

GraphInit ==
    /\ accounts = {} /\ tasks = [n \in Node |-> NoTask]
    /\ stored = [n \in Node |-> [s \in Sig |-> 0]]
    /\ taskUpdatedAt = [a \in Request |-> None] /\ lastSync = None
    /\ signatureTopic = {} /\ queryTopic = {}
    /\ height \in 0 .. MaxHeight /\ priced = PricedAtStart
    /\ faults = 0

GraphTypeOK ==
    /\ accounts \subseteq Request
    /\ tasks \in [Node -> Task]
    /\ stored \in [Node -> [Sig -> Nat]]
    /\ taskUpdatedAt \in [Request -> Request \cup {None}]
    /\ lastSync \in Request \cup {None}
    /\ signatureTopic \subseteq Message
    /\ queryTopic \subseteq Delivery
    /\ height \in 0 .. MaxHeight /\ priced \in 0 .. MaxHeight
    /\ faults \in 0 .. MaxFaults

Fault(service) ==
    service \in Failing /\ faults < MaxFaults /\ faults' = faults + 1

---------------------------------------------------------------------------
(* The four queries the collector writes and the keeper runs.              *)

\* MATCH (task {id}) CREATE (t: transaction) MERGE (t)-[:HAS_TASK]->(task)
StoreTransaction(m) ==
    /\ stored' = [n \in Node |->
           [s \in Sig |-> IF tasks[n].id = m.tid /\ s = m.sig
                          THEN stored[n][s] + 1 ELSE stored[n][s]]]
    /\ UNCHANGED <<accounts, tasks, taskUpdatedAt, lastSync>>

\* Mutant: the task is matched without its id.
CountOnEveryTask(m) ==
    /\ tasks' = [n \in Node |->
           IF n \in Attached THEN [tasks[n] EXCEPT !.transferCount = @ + 1] ELSE tasks[n]]
    /\ UNCHANGED <<accounts, stored, taskUpdatedAt, lastSync>>

\* MATCH (user)-[:HAS_ACCOUNT]->(account)-[:HAS_TASK]->(task {id})
\* SET task.transferCount = task.transferCount + 1
CountTransfer(m) ==
    /\ tasks' = [n \in Node |->
           IF n \in Attached /\ tasks[n].id = m.tid
           THEN [tasks[n] EXCEPT !.transferCount = @ + 1] ELSE tasks[n]]
    /\ UNCHANGED <<accounts, stored, taskUpdatedAt, lastSync>>

\* MATCH (task {id}) SET task.progress = task.progress + 1
IncrementTask(m) ==
    /\ tasks' = [n \in Node |->
           IF tasks[n].id = m.tid
           THEN [tasks[n] EXCEPT !.progress = @ + 1] ELSE tasks[n]]
    /\ UNCHANGED <<accounts, stored, taskUpdatedAt, lastSync>>

\* Mutant: compares amount with progress before the increment.
EndOfTaskEarly(m) ==
    LET finished == {n \in Attached : tasks[n].id = m.tid
                                      /\ tasks[n].amount = tasks[n].progress + 1}
    IN  /\ taskUpdatedAt' = [a \in Request |->
               IF \E n \in finished : n.acc = a THEN m.req ELSE taskUpdatedAt[a]]
        /\ lastSync' = IF finished = {} THEN lastSync ELSE m.req
        /\ UNCHANGED <<accounts, tasks, stored>>

\* MATCH (task {id})<-[:HAS_TASK]-(account), and where amount = progress
\* SET account.taskUpdatedAt = now SET user.lastSyncTimestamp = now
EndOfTask(m) ==
    LET finished == {n \in Attached : tasks[n].id = m.tid
                                      /\ tasks[n].amount = tasks[n].progress}
    IN  /\ taskUpdatedAt' = [a \in Request |->
               IF \E n \in finished : n.acc = a THEN m.req ELSE taskUpdatedAt[a]]
        /\ lastSync' = IF finished = {} THEN lastSync ELSE m.req
        /\ UNCHANGED <<accounts, tasks, stored>>
=============================================================================
