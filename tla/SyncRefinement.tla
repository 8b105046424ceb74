--------------------------- MODULE SyncRefinement ---------------------------
(***************************************************************************)
(* The pipeline of a calm client implements SyncLedger.  The promise is    *)
(* syncedSignatures of the account's tasks; a signature is pending from    *)
(* the query that writes it there to the keeper's increment for it; the    *)
(* graph shows the transactions on the tasks of the account.               *)
(***************************************************************************)
EXTENDS SyncPipeline

OnTheWay ==
    (UNION {MessagesOf(r) : r \in {q \in Request : req[q].pc = "send"}})
    \cup signatureTopic
    \cup {hand[c].msg : c \in {x \in Collectors : hand[x] # None}}
    \cup {d.msg : d \in queryTopic}
    \cup {j.dlv.msg : j \in {x \in jobs : x.at # "end"}}

Promised == UNION {tasks[n].synced : n \in Attached}
Pending == {m.sig : m \in {x \in OnTheWay : \E n \in Attached : tasks[n].id = x.tid}}
Entered == [s \in Sig |-> Cardinality(Copies(Attached, [n \in Node |-> stored[n][s]]))]

Ledger == INSTANCE SyncLedger WITH
    Certain <- Transfers \cap (1 .. PricedAtStart),
    promised <- Promised, pending <- Pending, entered <- Entered

\* Through crossing awaits, two topics, two kinds of services and four queries per
\* signature, a calm client's sync keeps the promise of the ledger: no signature is
\* processed twice, lost, or counted before its transaction is there, and all of them
\* are counted in the end.
LedgerKept == Ledger!Spec
=============================================================================
