----------------------------- MODULE Collector -----------------------------
(***************************************************************************)
(* The collector service (apps/collector): a Kafka consumer that turns     *)
(* each signature into the queries that store its transaction and count it *)
(* as processed.  An instance handles one message at a time; Kafka learns  *)
(* the offsets of a batch at its end, so when an instance stops, or its    *)
(* handler rejects, messages it has already handled may be delivered again.*)
(***************************************************************************)
EXTENDS SyncGraph

CONSTANT Collectors  \* instances in the consumer group

VARIABLES
    hand,     \* instance |-> the message in its handler, or None
    fetched   \* instance |-> messages it fetched, their offsets committed or not

collectorVars == <<hand, fetched>>

InHand == [msg : Message, exists : BOOLEAN, at : {"try", "catch"}]

\* An idle instance is told apart from one that holds a message.
ASSUME IdleHandAssumption == None \notin InHand

CollectorInit ==
    /\ hand = [c \in Collectors |-> None]
    /\ fetched = [c \in Collectors |-> {}]

CollectorTypeOK ==
    /\ hand \in [Collectors -> InHand \cup {None}]
    /\ fetched \in [Collectors -> SUBSET Message]

\* The handler starts with the exists check.
TakeMessage(c) ==
    /\ hand[c] = None
    /\ \E m \in signatureTopic :
         /\ signatureTopic' = signatureTopic \ {m}
         /\ fetched' = [fetched EXCEPT ![c] = @ \cup {m}]
         /\ hand' = [hand EXCEPT ![c] =
                        [msg |-> m, exists |-> Exists(m.sig), at |-> "try"]]
    /\ UNCHANGED <<graphVars, queryTopic, chainVars, faults>>

\* Mutant: a missing price is not noticed.
PriceIgnored(h) == FALSE

\* getStoreTransactionQuery of a transfer throws while Redis lacks its price.
PriceMissing(h) == ~h.exists /\ h.msg.sig \in Transfers /\ h.msg.sig > priced

\* What it answers otherwise: a query for a transfer, null for the rest.
PathOf(h) == IF h.exists \/ h.msg.sig \notin Transfers THEN "skip" ELSE "store"

Publish(m, path) ==
    queryTopic' = queryTopic \cup {[msg |-> m, path |-> path, copy |-> faults]}

CollectQueries(c) ==
    /\ hand[c] # None /\ hand[c].at = "try" /\ ~PriceMissing(hand[c])
    /\ Publish(hand[c].msg, PathOf(hand[c]))
    /\ hand' = [hand EXCEPT ![c] = None]
    /\ UNCHANGED <<graphVars, signatureTopic, chainVars, fetched, faults>>

PriceThrows(c) ==
    /\ hand[c] # None /\ hand[c].at = "try" /\ PriceMissing(hand[c])
    /\ hand' = [hand EXCEPT ![c].at = "catch"]
    /\ UNCHANGED <<graphVars, signatureTopic, queryTopic, chainVars, fetched, faults>>

\* The RPC node, Redis, the database or the send throws.  A send that throws
\* may have stored its message.
TryFails(c) ==
    /\ hand[c] # None /\ hand[c].at = "try" /\ Fault("collector")
    /\ hand' = [hand EXCEPT ![c].at = "catch"]
    /\ \/ UNCHANGED queryTopic
       \/ ~PriceMissing(hand[c]) /\ Publish(hand[c].msg, PathOf(hand[c]))
    /\ UNCHANGED <<graphVars, signatureTopic, chainVars, fetched>>

\* Mutant: the catch block only logs.
CatchLogs(c) ==
    /\ hand[c] # None /\ hand[c].at = "catch"
    /\ hand' = [hand EXCEPT ![c] = None]
    /\ UNCHANGED <<graphVars, signatureTopic, queryTopic, chainVars, fetched, faults>>

\* The catch block counts the signature and stores nothing.
CatchQueries(c) ==
    /\ hand[c] # None /\ hand[c].at = "catch"
    /\ Publish(hand[c].msg, "skip")
    /\ hand' = [hand EXCEPT ![c] = None]
    /\ UNCHANGED <<graphVars, signatureTopic, chainVars, fetched, faults>>

\* Mutant: offsets are committed on fetch, a crash loses the message in hand.
CrashLoses(c) ==
    /\ fetched[c] # {} /\ Fault("collector")
    /\ fetched' = [fetched EXCEPT ![c] = {}]
    /\ hand' = [hand EXCEPT ![c] = None]
    /\ UNCHANGED <<graphVars, signatureTopic, queryTopic, chainVars>>

\* The instance stops, or the send of the catch block throws.  Messages whose
\* offset Kafka does not have come again: the one in hand, and any of the others.
CollectorCrash(c) ==
    /\ fetched[c] # {} /\ Fault("collector")
    /\ \E again \in SUBSET fetched[c] :
         /\ hand[c] # None => hand[c].msg \in again
         /\ signatureTopic' = signatureTopic \cup again
    /\ fetched' = [fetched EXCEPT ![c] = {}]
    /\ hand' = [hand EXCEPT ![c] = None]
    /\ UNCHANGED <<graphVars, queryTopic, chainVars>>

CollectorStep(c) ==
    \/ TakeMessage(c) \/ CollectQueries(c) \/ PriceThrows(c) \/ CatchQueries(c)
=============================================================================
