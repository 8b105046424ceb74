---------------------------- MODULE AccountSync ----------------------------
(***************************************************************************)
(* AccountService of the API (apps/api/src/account/account.service.ts):    *)
(* POST /account, POST /account/sync, POST /account/resync and DELETE      *)
(* /account/:id for one user and one address.  Every await of a handler is *)
(* a point where other requests and the other services run, so a request   *)
(* is a sequence of actions, one per query, RPC call or send.              *)
(***************************************************************************)
EXTENDS SyncGraph

VARIABLE req  \* request |-> its next step and the values it holds across awaits

Step == {"new", "check", "insert", "mine", "recheck", "list", "read", "arm",
         "create", "send", "done", "refused", "failed"}
Ended == {"done", "refused", "failed"}

ReqRecord == [pc : Step, goal : {"create", "sync", "resync"},
              sigs : SUBSET Sig, known : SUBSET Sig, tid : Request]

ReqInit ==
    req = [r \in Request |-> [pc |-> "new", goal |-> "sync",
                              sigs |-> {}, known |-> {}, tid |-> r]]
ReqTypeOK == req \in [Request -> ReqRecord]

Live(r) == req[r].pc \notin Ended \cup {"new"}

Goto(r, step) == req' = [req EXCEPT ![r].pc = step]

dbVars == <<graphVars, signatureTopic, queryTopic, chainVars>>

---------------------------------------------------------------------------
(* POST /account and the first half of POST /account/sync: createAccount.  *)

\* The address is taken for createAccount if the user has an account with it.
AfterCheck == IF accounts = {} THEN "insert" ELSE "failed"

\* POST /account starts with the check of createAccount.
PostAccount(r) ==
    /\ req[r].pc = "new"
    /\ req' = [req EXCEPT ![r] = [@ EXCEPT !.goal = "create", !.pc = AfterCheck]]
    /\ UNCHANGED <<dbVars, faults>>

\* POST /account/sync looks the account up, then creates it or repeats the sync.
PostSync(r) ==
    /\ req[r].pc = "new"
    /\ req' = IF accounts = {}
              THEN [req EXCEPT ![r] = [@ EXCEPT !.goal = "sync", !.pc = "check"]]
              ELSE [req EXCEPT ![r] = [@ EXCEPT !.goal = "resync", !.pc = "recheck"]]
    /\ UNCHANGED <<dbVars, faults>>

CheckAccount(r) ==
    /\ req[r].pc = "check"
    /\ Goto(r, AfterCheck)
    /\ UNCHANGED <<dbVars, faults>>

\* The MERGE names a fresh id, so it always creates.
InsertAccount(r) ==
    /\ req[r].pc = "insert"
    /\ accounts' = accounts \cup {r}
    /\ Goto(r, "mine")
    /\ UNCHANGED <<tasks, stored, taskUpdatedAt, lastSync,
                   signatureTopic, queryTopic, chainVars, faults>>

\* createAccount answers with getMine by id, which fails when no row comes back.
GetMine(r) ==
    /\ req[r].pc = "mine"
    /\ Goto(r, CASE r \notin accounts -> "failed"
                 [] r \in accounts /\ req[r].goal = "sync" -> "list"
                 [] OTHER -> "done")
    /\ UNCHANGED <<dbVars, faults>>

---------------------------------------------------------------------------
(* POST /account/resync and the second half of POST /account/sync.         *)

\* reSyncAccountByAddress accepts an account of any user with the address.
AfterRecheck == IF accounts # {} \/ ForeignAccount THEN "list" ELSE "failed"

PostResync(r) ==
    /\ req[r].pc = "new"
    /\ req' = [req EXCEPT ![r] = [@ EXCEPT !.goal = "resync", !.pc = AfterRecheck]]
    /\ UNCHANGED <<dbVars, faults>>

RecheckAccount(r) ==
    /\ req[r].pc = "recheck"
    /\ Goto(r, AfterRecheck)
    /\ UNCHANGED <<dbVars, faults>>

\* syncSignatures asks the RPC node for the signatures of the address.
ListSignatures(r) ==
    /\ req[r].pc = "list"
    /\ req' = [req EXCEPT ![r] = [@ EXCEPT !.sigs = Listed, !.pc = "read"]]
    /\ UNCHANGED <<dbVars, faults>>

\* The test of the first record: JavaScript takes an amount or a progress of 0
\* for "no value", so such a task is never found in process.
InProcess(t) == t.amount # 0 /\ t.progress # 0 /\ t.amount # t.progress

\* The first record is any of the tasks: the query has no order.
ReadTask(r) ==
    /\ req[r].pc = "read"
    /\ \/ /\ Attached = {}
          /\ req' = [req EXCEPT ![r].pc = "arm"]
       \/ \E n \in Attached :
            req' = IF InProcess(tasks[n]) THEN [req EXCEPT ![r].pc = "refused"]
                   ELSE [req EXCEPT ![r] = [@ EXCEPT !.known = tasks[n].synced, !.pc = "arm"]]
    /\ UNCHANGED <<dbVars, faults>>

\* Mutant: a repeated sync counts from 0.
ArmFromZero(r) ==
    /\ req[r].pc = "arm"
    /\ tasks' = [n \in Node |->
           IF n \in Attached
           THEN [tasks[n] EXCEPT !.amount = Cardinality(req[r].sigs),
                                 !.progress = 0, !.synced = req[r].sigs]
           ELSE tasks[n]]
    /\ \E t \in IF Attached = {} THEN {req[r].tid} ELSE {tasks[n].id : n \in Attached} :
         req' = [req EXCEPT ![r] = [@ EXCEPT
                    !.tid = t, !.pc = IF req[r].goal = "resync" THEN "send" ELSE "create"]]
    /\ UNCHANGED <<accounts, stored, taskUpdatedAt, lastSync,
                   signatureTopic, queryTopic, chainVars, faults>>

\* Mutant: the signatures listed are not written to the tasks.
ArmUnlisted(r) ==
    /\ req[r].pc = "arm"
    /\ tasks' = [n \in Node |->
           IF n \in Attached
           THEN [tasks[n] EXCEPT !.amount = Cardinality(req[r].sigs),
                                 !.progress = Cardinality(req[r].known)]
           ELSE tasks[n]]
    /\ \E t \in IF Attached = {} THEN {req[r].tid} ELSE {tasks[n].id : n \in Attached} :
         req' = [req EXCEPT ![r] = [@ EXCEPT
                    !.tid = t, !.pc = IF req[r].goal = "resync" THEN "send" ELSE "create"]]
    /\ UNCHANGED <<accounts, stored, taskUpdatedAt, lastSync,
                   signatureTopic, queryTopic, chainVars, faults>>

\* SET amount, progress and syncedSignatures of every task of the account.  The id
\* of the first of them replaces the request's fresh one in the messages.
ArmTasks(r) ==
    /\ req[r].pc = "arm"
    /\ tasks' = [n \in Node |->
           IF n \in Attached
           THEN [tasks[n] EXCEPT !.amount = Cardinality(req[r].sigs),
                                 !.progress = Cardinality(req[r].known),
                                 !.synced = req[r].sigs]
           ELSE tasks[n]]
    /\ \E t \in IF Attached = {} THEN {req[r].tid} ELSE {tasks[n].id : n \in Attached} :
         req' = [req EXCEPT ![r] = [@ EXCEPT
                    !.tid = t, !.pc = IF req[r].goal = "resync" THEN "send" ELSE "create"]]
    /\ UNCHANGED <<accounts, stored, taskUpdatedAt, lastSync,
                   signatureTopic, queryTopic, chainVars, faults>>

\* One task per account with the address, all with the same id.
CreateTasks(r) ==
    /\ req[r].pc = "create"
    /\ tasks' = [n \in Node |->
           IF n.by = r /\ n.acc \in accounts
           THEN [id |-> req[r].tid, amount |-> Cardinality(req[r].sigs), progress |-> 0,
                 transferCount |-> 0, synced |-> req[r].sigs]
           ELSE tasks[n]]
    /\ Goto(r, "send")
    /\ UNCHANGED <<accounts, stored, taskUpdatedAt, lastSync,
                   signatureTopic, queryTopic, chainVars, faults>>

\* Mutant: known signatures are not filtered out.
MessagesOfAll(r) == {[req |-> r, sig |-> s, tid |-> req[r].tid] : s \in req[r].sigs}

\* The messages of the signatures that were not known, one each.
MessagesOf(r) ==
    {[req |-> r, sig |-> s, tid |-> req[r].tid] : s \in req[r].sigs \ req[r].known}

SendMessages(r) ==
    /\ req[r].pc = "send"
    /\ signatureTopic' = signatureTopic \cup MessagesOf(r)
    /\ Goto(r, "done")
    /\ UNCHANGED <<graphVars, queryTopic, chainVars, faults>>

---------------------------------------------------------------------------
(* DELETE /account/:id and failures.                                       *)

\* DETACH DELETE removes the account and its relations; the tasks stay behind.
DeleteMine(a) ==
    /\ a \in accounts
    /\ accounts' = accounts \ {a}
    /\ taskUpdatedAt' = [taskUpdatedAt EXCEPT ![a] = None]
    /\ UNCHANGED <<tasks, stored, lastSync,
                   signatureTopic, queryTopic, chainVars, req, faults>>

\* A query or a call throws, or the API stops: the rest of the handler is lost.
\* A send that throws may have handed over part of its messages.
RequestFails(r) ==
    /\ Live(r) /\ Fault("request")
    /\ Goto(r, "failed")
    /\ \E part \in SUBSET (IF req[r].pc = "send" THEN MessagesOf(r) ELSE {}) :
         signatureTopic' = signatureTopic \cup part
    /\ UNCHANGED <<graphVars, queryTopic, chainVars>>

NewRequest(r) == PostAccount(r) \/ PostSync(r) \/ PostResync(r)

RequestStep(r) ==
    \/ CheckAccount(r) \/ InsertAccount(r) \/ GetMine(r)
    \/ RecheckAccount(r) \/ ListSignatures(r) \/ ReadTask(r)
    \/ ArmTasks(r) \/ CreateTasks(r) \/ SendMessages(r)
=============================================================================
