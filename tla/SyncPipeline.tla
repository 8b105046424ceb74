---------------------------- MODULE SyncPipeline ----------------------------
(***************************************************************************)
(* The whole synchronisation: requests of the API, collectors, keepers, a  *)
(* growing chain and the price feed, over the shared database and topics.  *)
(***************************************************************************)
EXTENDS AccountSync, Collector, Keeper

vars == <<graphVars, signatureTopic, queryTopic, chainVars, faults,
          req, collectorVars, keeperVars>>

\* A new transaction of the address is finalised on chain.
Grow ==
    /\ height < MaxHeight
    /\ height' = height + 1
    /\ UNCHANGED <<graphVars, signatureTopic, queryTopic, priced, faults,
                   req, collectorVars, keeperVars>>

\* The price service stores the prices of the days it gets, at start and by cron;
\* a fetch that fails is logged and waits for the next one.
FetchPrices ==
    /\ \E p \in priced + 1 .. height : priced' = p
    /\ UNCHANGED <<graphVars, signatureTopic, queryTopic, height, faults,
                   req, collectorVars, keeperVars>>

Init == GraphInit /\ ReqInit /\ CollectorInit /\ KeeperInit

Services ==
    \/ \E r \in Request : RequestStep(r) /\ UNCHANGED <<collectorVars, keeperVars>>
    \/ \E c \in Collectors : CollectorStep(c) /\ UNCHANGED <<req, keeperVars>>
    \/ KeeperStep /\ UNCHANGED <<req, collectorVars>>

Clients ==
    /\ \E r \in Request : NewRequest(r) \/ DeleteMine(r)
    /\ UNCHANGED <<collectorVars, keeperVars>>

Failures ==
    \/ \E r \in Request : RequestFails(r) /\ UNCHANGED <<collectorVars, keeperVars>>
    \/ \E c \in Collectors :
         (TryFails(c) \/ CollectorCrash(c)) /\ UNCHANGED <<req, keeperVars>>
    \/ /\ (\E j \in jobs : JobFails(j)) \/ (\E k \in Keepers : KeeperCrash(k))
       /\ UNCHANGED <<req, collectorVars>>

Environment == Grow \/ FetchPrices

Next == Services \/ Clients \/ Failures \/ Environment

Spec == Init /\ [][Next]_vars

---------------------------------------------------------------------------
(* Clients.  Spec lets requests overlap.  A serial client waits for the     *)
(* answer before it sends the next request; a calm one also polls GET       *)
(* /task/progress down to zero.                                             *)

Idle == \A r \in Request : ~Live(r)

SerialNext ==
    \/ Services \/ Failures \/ Environment
    \/ Idle /\ Clients

CalmNext ==
    \/ Services \/ Environment
    \/ Idle /\ Settled /\ Clients

SerialSpec == Init /\ [][SerialNext]_vars
CalmSpec == Init /\ [][CalmNext]_vars

\* Node runs the event loop, and Kafka delivers as long as a consumer lives: a
\* handler that can go on does.  Clients, chain and price feed owe nothing.
Fairness ==
    /\ \A r \in Request : WF_vars(RequestStep(r) /\ UNCHANGED <<collectorVars, keeperVars>>)
    /\ \A c \in Collectors : WF_vars(CollectorStep(c) /\ UNCHANGED <<req, keeperVars>>)
    /\ WF_vars(KeeperStep /\ UNCHANGED <<req, collectorVars>>)

FairSerialSpec == SerialSpec /\ Fairness

---------------------------------------------------------------------------
(* Where the messages of task id t are before their increment has run.      *)

Unsent(t) ==
    UNION {MessagesOf(r) : r \in {q \in Request : req[q].pc = "send" /\ req[q].tid = t}}

Waiting(t) ==
      Cardinality({m \in signatureTopic : m.tid = t})
    + Cardinality({c \in Collectors : hand[c] # None /\ hand[c].msg.tid = t})
    + Cardinality({d \in queryTopic : d.msg.tid = t})
    + Cardinality({j \in jobs : j.dlv.msg.tid = t /\ j.at # "end"})

Outstanding(t) == Cardinality(Unsent(t)) + Waiting(t)

Transactions(n) == Cardinality(Copies(Sig, stored[n]))

---------------------------------------------------------------------------
(* Properties.                                                              *)

\* Every variable has its type, whatever fails and whoever overlaps.
TypeOK == GraphTypeOK /\ ReqTypeOK /\ CollectorTypeOK /\ KeeperTypeOK

\* What GET /task/progress reports is true: amount - progress of a task is the
\* number of its signatures still on their way through topics and services.
ProgressExact ==
    \A n \in Attached : tasks[n].amount = tasks[n].progress + Outstanding(tasks[n].id)

\* A task that reads complete has its transactions: every synced transfer whose
\* price was there from the start hangs on it, because a job stores before it counts.
CompleteMeansStored ==
    \A n \in Attached : tasks[n].amount = tasks[n].progress =>
        \A s \in tasks[n].synced \cap Transfers :
            s <= PricedAtStart => stored[n][s] > 0

\* The collector's purpose is to "save transaction with status and relation to
\* account": a complete task has every synced transfer, its price known or not.
CompleteMeansAllStored ==
    \A n \in Attached : tasks[n].amount = tasks[n].progress =>
        \A s \in tasks[n].synced \cap Transfers : stored[n][s] > 0

\* The transferCount of a complete task is the number of transactions on it.
CountMatchesStored ==
    \A n \in Attached : tasks[n].amount = tasks[n].progress =>
        tasks[n].transferCount = Transactions(n)

\* Once nothing of a non-empty task is under way its account carries a
\* taskUpdatedAt: some increment made amount = progress and its job saw it.
CompletionIsStamped ==
    \A n \in Attached :
        (/\ tasks[n].amount > 0 /\ Outstanding(tasks[n].id) = 0
         /\ ~\E j \in jobs : j.dlv.msg.tid = tasks[n].id)
            => taskUpdatedAt[n.acc] # None

\* The tasks of an account never show one on-chain transaction twice.
NoDuplicateTransactions ==
    \A n \in Attached, s \in Sig : stored[n][s] > 0 =>
        stored[n][s] = 1 /\ \A n2 \in Attached \ {n} : stored[n2][s] = 0

\* A repeated sync never takes back progress a client has seen.
ProgressNeverFalls ==
    [][\A n \in Attached : tasks'[n].progress >= tasks[n].progress]_vars

\* Collectors may crash and repeat themselves, but no signature drops out: a
\* task's progress and what is under way always add up to its amount at least.
NothingUncounted ==
    \A n \in Attached : tasks[n].amount <= tasks[n].progress + Outstanding(tasks[n].id)

\* Only transfers whose day has a price are ever stored, under any failure.
StoredArePricedTransfers ==
    \A n \in Node, s \in Sig :
        stored[n][s] > 0 => s \in Transfers /\ s <= priced /\ s <= height

\* transferCount never runs ahead of the transactions stored, under any failure,
\* on a task that owns its id (a task created under an older id joins midway).
CountedWereStored ==
    \A n \in Node : tasks[n].id = n.by => tasks[n].transferCount <= Transactions(n)

\* "The task is already in the process of synchronization": syncSignatures goes
\* past this test only when no task of the account is under way.
NoRestartMidSync ==
    [][\A r \in Request : req[r].pc = "read" /\ req'[r].pc = "arm" => Settled]_vars

\* "1 Merge account by address 2 Find account signatures 3 Create tasks to workers": a
\* sync that has sent its messages leaves the account with a task they are for.
SyncLeavesTask ==
    [][\A r \in Request : req[r].pc = "send" /\ req'[r].pc = "done" => Attached # {}]_vars

\* Collectors that crash and repeat themselves still count every signature: no
\* task of a serial client stays below its amount.
EverySignatureCounted ==
    (\E n \in Attached : tasks[n].amount > tasks[n].progress) ~>
    ~(\E n \in Attached : tasks[n].amount > tasks[n].progress)

\* A calm client's sync comes to its end: once the tasks of the account are not
\* settled they become so (or the account is deleted).
EveryTaskCompletes == ~Settled ~> Settled
=============================================================================
