----------------------------- MODULE SyncLedger -----------------------------
(***************************************************************************)
(* What a synchronisation promises for one address of one user, without    *)
(* requests, tasks, messages or services: a signature is promised once,    *)
(* is pending until it is counted, and its transaction enters the user's   *)
(* graph at most once and only while the signature is pending.             *)
(***************************************************************************)
EXTENDS Naturals

CONSTANTS
    Sig,      \* signatures of the address
    Certain   \* those whose transaction is sure to be stored

VARIABLES
    promised,  \* signatures a sync has taken on
    pending,   \* those of them not counted yet
    entered    \* signature |-> transactions the graph shows for it

ledger == <<promised, pending, entered>>

NothingEntered == [s \in Sig |-> 0]

Init == promised = {} /\ pending = {} /\ entered = NothingEntered

\* A sync takes on every signature it lists; what was taken on before stays, and is
\* not taken on a second time.
Promise ==
    /\ promised' \in SUBSET Sig /\ promised \subseteq promised'
    /\ pending' = pending \cup (promised' \ promised)
    /\ UNCHANGED entered

\* The transaction of a pending signature is stored, if it was not before.
Enter(s) ==
    /\ s \in pending /\ entered[s] = 0
    /\ entered' = [entered EXCEPT ![s] = 1]
    /\ UNCHANGED <<promised, pending>>

\* A signature is counted, after its transaction if it is sure to have one.
Settle(s) ==
    /\ s \in pending
    /\ s \in Certain => entered[s] = 1
    /\ pending' = pending \ {s}
    /\ UNCHANGED <<promised, entered>>

\* The account is deleted, and the user's view of its signatures with it.
Forget == promised' = {} /\ pending' = {} /\ entered' = NothingEntered

Next == Promise \/ Forget \/ \E s \in Sig : Enter(s) \/ Settle(s)

\* Whatever is pending is counted in the end.
Drains == \A s \in Sig : s \in pending ~> s \notin pending

Safety == Init /\ [][Next]_ledger
Spec == Safety /\ Drains
=============================================================================
