------------------------------- MODULE Keeper -------------------------------
(***************************************************************************)
(* The keeper service (apps/keeper): a Kafka consumer that runs the        *)
(* queries of each message one after the other, every query a transaction  *)
(* of its own.  The controller does not wait for processQuery, so jobs run *)
(* beside one another and Kafka may learn the offset at any time after the *)
(* message is fetched.                                                     *)
(***************************************************************************)
EXTENDS SyncGraph

CONSTANT Keepers  \* instances in the consumer group

VARIABLES
    jobs,     \* started processQuery calls, with the query each runs next
    received  \* instance |-> deliveries it fetched, their offsets committed or not

keeperVars == <<jobs, received>>

Query == {"store", "count", "increment", "end"}
Job == [dlv : Delivery, keeper : Keepers, at : Query]

KeeperInit == jobs = {} /\ received = [k \in Keepers |-> {}]

KeeperTypeOK ==
    /\ jobs \subseteq Job
    /\ received \in [Keepers -> SUBSET Delivery]

\* The queries of a delivery run in this order.
FirstQuery(d) == IF d.path = "store" THEN "store" ELSE "increment"
\* Mutant: the transfer is stored and not counted.
QueryAfterUncounted == [store |-> "increment", count |-> "increment", increment |-> "end"]

QueryAfter == [store |-> "count", count |-> "increment", increment |-> "end"]

TakeDelivery(k) ==
    /\ \E d \in queryTopic :
         /\ queryTopic' = queryTopic \ {d}
         /\ received' = [received EXCEPT ![k] = @ \cup {d}]
         /\ jobs' = jobs \cup {[dlv |-> d, keeper |-> k, at |-> FirstQuery(d)]}
    /\ UNCHANGED <<graphVars, signatureTopic, chainVars, faults>>

RunQuery(j) ==
    /\ j \in jobs
    /\ \/ j.at = "store" /\ StoreTransaction(j.dlv.msg)
       \/ j.at = "count" /\ CountTransfer(j.dlv.msg)
       \/ j.at = "increment" /\ IncrementTask(j.dlv.msg)
       \/ j.at = "end" /\ EndOfTask(j.dlv.msg)
    /\ jobs' = (jobs \ {j}) \cup (IF j.at = "end" THEN {}
                                  ELSE {[j EXCEPT !.at = QueryAfter[j.at]]})
    /\ UNCHANGED <<signatureTopic, queryTopic, chainVars, received, faults>>

\* A query throws: the error is logged and the queries after it are skipped.
JobFails(j) ==
    /\ j \in jobs /\ Fault("keeper")
    /\ jobs' = jobs \ {j}
    /\ UNCHANGED <<graphVars, signatureTopic, queryTopic, chainVars, received>>

\* The instance stops: its jobs are gone, and any deliveries whose offset Kafka
\* does not have come again, finished ones among them.
KeeperCrash(k) ==
    /\ received[k] # {} /\ Fault("keeper")
    /\ jobs' = {j \in jobs : j.keeper # k}
    /\ \E again \in SUBSET received[k] : queryTopic' = queryTopic \cup again
    /\ received' = [received EXCEPT ![k] = {}]
    /\ UNCHANGED <<graphVars, signatureTopic, chainVars>>

KeeperStep ==
    \/ \E k \in Keepers : TakeDelivery(k)
    \/ \E j \in jobs : RunQuery(j)
=============================================================================
