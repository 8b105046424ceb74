------------------------- MODULE SyncPipelineProofs -------------------------
(***************************************************************************)
(* What holds of SyncPipeline for every number of requests, instances and  *)
(* failures and every length of the chain: the types, and what reaches the *)
(* database.  Only transfers that are on chain and whose day has a price   *)
(* are stored: a price is looked up once, by the collector, and acted on   *)
(* by the keeper much later, and what ties the two together is that every  *)
(* query under way was built while its price was there, and prices are     *)
(* never taken back.  And transferCount counts stored transactions only.   *)
(***************************************************************************)
EXTENDS SyncPipeline, FiniteSetTheorems, FunctionTheorems, TLAPS

USE ConstantsAssumption

\* The RPC node lists positions of the chain, whatever its page size.
LEMMA ListedIsSig == ASSUME height \in 0 .. MaxHeight PROVE Listed \subseteq Sig
BY DEF Listed, Sig

\* amount and progress, which a request sets to lengths of arrays, are numbers.
LEMMA SizeIsNat == ASSUME NEW S \in SUBSET Sig PROVE Cardinality(S) \in Nat
<1>1. IsFiniteSet(Sig)
  BY FS_Interval DEF Sig
<1> QED
  BY <1>1, FS_Subset, FS_CardinalityType

\* A task node that does not exist yet has the type of one that does.
LEMMA NoTaskType == NoTask \in Task
BY DEF NoTask, Task

LEMMA InitTypeOK == Init => TypeOK
<1> SUFFICES ASSUME Init PROVE TypeOK
  OBVIOUS
<1>1. GraphTypeOK
  BY NoTaskType DEF Init, GraphInit, GraphTypeOK, Node
<1>2. ReqTypeOK
  BY DEF Init, ReqInit, ReqTypeOK, ReqRecord, Step
<1>3. CollectorTypeOK /\ KeeperTypeOK
  BY DEF Init, CollectorInit, KeeperInit, CollectorTypeOK, KeeperTypeOK
<1> QED
  BY <1>1, <1>2, <1>3 DEF TypeOK

---------------------------------------------------------------------------
(* Type correctness, service by service.                                   *)

\* A step of a handler is one of the steps there are.
LEMMA GotoTypeOK ==
    ASSUME ReqTypeOK, NEW r \in Request, NEW step \in Step, Goto(r, step)
    PROVE  ReqTypeOK'
BY DEF ReqTypeOK, ReqRecord, Goto

\* A request starts with one of the goals there are.
LEMMA StartTypeOK ==
    ASSUME ReqTypeOK, NEW r \in Request, NEW goal \in {"create", "sync", "resync"},
           NEW step \in Step, req' = [req EXCEPT ![r] = [@ EXCEPT !.goal = goal, !.pc = step]]
    PROVE  ReqTypeOK'
<1>1. [req[r] EXCEPT !.goal = goal, !.pc = step] \in ReqRecord
  <2>1. req[r] \in ReqRecord
    BY DEF ReqTypeOK
  <2> QED
    BY <2>1 DEF ReqRecord
<1> QED
  BY <1>1 DEF ReqTypeOK

\* A record of a handler that changes its locals is again one.
LEMMA LocalsTypeOK ==
    ASSUME ReqTypeOK, NEW r \in Request, NEW step \in Step, NEW S \in SUBSET Sig,
           NEW t \in Request,
           \/ req' = [req EXCEPT ![r] = [@ EXCEPT !.sigs = S, !.pc = step]]
           \/ req' = [req EXCEPT ![r] = [@ EXCEPT !.known = S, !.pc = step]]
           \/ req' = [req EXCEPT ![r] = [@ EXCEPT !.tid = t, !.pc = step]]
    PROVE  ReqTypeOK'
<1>1. /\ [req[r] EXCEPT !.sigs = S, !.pc = step] \in ReqRecord
      /\ [req[r] EXCEPT !.known = S, !.pc = step] \in ReqRecord
      /\ [req[r] EXCEPT !.tid = t, !.pc = step] \in ReqRecord
  <2>1. req[r] \in ReqRecord
    BY DEF ReqTypeOK
  <2> QED
    BY <2>1 DEF ReqRecord
<1> QED
  BY <1>1 DEF ReqTypeOK

\* A task stays one when a request sets its amount, progress and signatures.
LEMMA TaskUpdate ==
    ASSUME NEW t \in Task, NEW amount \in Nat, NEW progress \in Nat, NEW synced \in SUBSET Sig
    PROVE  [t EXCEPT !.amount = amount, !.progress = progress, !.synced = synced] \in Task
BY DEF Task

\* The handlers of the API keep the types of the graph, the topics and req.
LEMMA RequestTypeOK ==
    ASSUME GraphTypeOK, ReqTypeOK, NEW r \in Request,
           NewRequest(r) \/ RequestStep(r) \/ RequestFails(r) \/ DeleteMine(r)
    PROVE  GraphTypeOK' /\ ReqTypeOK'
<1> USE DEF GraphTypeOK
<1>a. /\ req[r] \in ReqRecord
      /\ req[r].sigs \in SUBSET Sig /\ req[r].known \in SUBSET Sig
      /\ req[r].tid \in Request /\ MessagesOf(r) \subseteq Message
  BY DEF ReqTypeOK, MessagesOf, Message, ReqRecord
<1>b. Cardinality(req[r].sigs) \in Nat /\ Cardinality(req[r].known) \in Nat
  BY <1>a, SizeIsNat
<1>1. CASE NewRequest(r)
  <2>1. AfterCheck \in Step /\ AfterRecheck \in Step
    BY DEF AfterCheck, AfterRecheck, Step
  <2>2. ReqTypeOK'
    <3>1. CASE PostAccount(r)
      BY <3>1, <2>1, StartTypeOK DEF PostAccount
    <3>2. CASE PostSync(r)
      <4>1. "check" \in Step /\ "recheck" \in Step
        BY DEF Step
      <4> QED
        BY <3>2, <4>1, StartTypeOK DEF PostSync
    <3>3. CASE PostResync(r)
      BY <3>3, <2>1, StartTypeOK DEF PostResync
    <3> QED
      BY <1>1, <3>1, <3>2, <3>3 DEF NewRequest
  <2> QED
    BY <1>1, <2>2 DEF NewRequest, PostAccount, PostSync, PostResync, dbVars, graphVars, chainVars
<1>2. CASE CheckAccount(r) \/ GetMine(r) \/ RecheckAccount(r)
  <2>1. PICK step \in Step : Goto(r, step)
    BY <1>2 DEF CheckAccount, GetMine, RecheckAccount, AfterCheck, AfterRecheck, Step
  <2>2. ReqTypeOK'
    BY <2>1, GotoTypeOK
  <2> QED
    BY <1>2, <2>2 DEF CheckAccount, GetMine, RecheckAccount, dbVars, graphVars, chainVars
<1>3. CASE InsertAccount(r)
  <2>1. ReqTypeOK'
    BY <1>3, GotoTypeOK DEF InsertAccount, Step
  <2> QED
    BY <1>3, <2>1 DEF InsertAccount, chainVars
<1>4. CASE DeleteMine(r)
  BY <1>4 DEF DeleteMine, ReqTypeOK, chainVars
<1>5. CASE ListSignatures(r)
  <2>1. ReqTypeOK'
    BY <1>5, ListedIsSig, LocalsTypeOK DEF ListSignatures, Step
  <2> QED
    BY <1>5, <2>1 DEF ListSignatures, dbVars, graphVars, chainVars
<1>6. CASE ReadTask(r)
  <2>1. CASE req' = [req EXCEPT ![r].pc = "arm"] \/ req' = [req EXCEPT ![r].pc = "refused"]
    BY <1>6, <2>1, GotoTypeOK DEF ReadTask, Goto, Step, dbVars, graphVars, chainVars
  <2>2. ASSUME NEW n \in Attached,
               req' = [req EXCEPT ![r] = [@ EXCEPT !.known = tasks[n].synced, !.pc = "arm"]]
        PROVE  GraphTypeOK' /\ ReqTypeOK'
    <3>1. tasks[n].synced \in SUBSET Sig
      BY DEF Attached, Task
    <3>2. ReqTypeOK'
      BY <2>2, <3>1, LocalsTypeOK DEF Step
    <3> QED
      BY <1>6, <3>2 DEF ReadTask, dbVars, graphVars, chainVars
  <2> QED
    BY <1>6, <2>1, <2>2 DEF ReadTask
<1>7. CASE ArmTasks(r)
  <2>1. tasks' \in [Node -> Task]
    <3>1. ASSUME NEW n \in Node
          PROVE  [tasks[n] EXCEPT !.amount = Cardinality(req[r].sigs),
                                  !.progress = Cardinality(req[r].known),
                                  !.synced = req[r].sigs] \in Task
      <4>1. tasks[n] \in Task
        OBVIOUS
      <4> QED
        BY <4>1, <1>a, <1>b, TaskUpdate
    <3> QED
      BY <3>1, <1>7 DEF ArmTasks
  <2>2. ReqTypeOK'
    <3>1. \A n \in Attached : tasks[n].id \in Request
      BY DEF Attached, Task
    <3> DEFINE next == IF req[r].goal = "resync" THEN "send" ELSE "create"
    <3> DEFINE ids == IF Attached = {} THEN {req[r].tid} ELSE {tasks[n].id : n \in Attached}
    <3>2. ids \subseteq Request
      BY <1>a, <3>1
    <3>3. PICK t \in ids : req' = [req EXCEPT ![r] = [@ EXCEPT !.tid = t, !.pc = next]]
      BY <1>7 DEF ArmTasks
    <3>4. next \in Step
      BY DEF Step
    <3> HIDE DEF next, ids
    <3>5. t \in Request
      BY <3>2, <3>3
    <3> QED
      BY <3>3, <3>4, <3>5, LocalsTypeOK
  <2> QED
    BY <1>7, <2>1, <2>2 DEF ArmTasks, chainVars
<1>8. CASE CreateTasks(r)
  <2>1. [id |-> req[r].tid, amount |-> Cardinality(req[r].sigs), progress |-> 0,
         transferCount |-> 0, synced |-> req[r].sigs] \in Task
    BY <1>a, <1>b DEF Task
  <2>2. tasks' \in [Node -> Task]
    BY <1>8, <2>1 DEF CreateTasks
  <2>3. ReqTypeOK'
    BY <1>8, GotoTypeOK DEF CreateTasks, Step
  <2> QED
    BY <1>8, <2>2, <2>3 DEF CreateTasks, chainVars
<1>9. CASE SendMessages(r)
  <2>1. ReqTypeOK'
    BY <1>9, GotoTypeOK DEF SendMessages, Step
  <2> QED
    BY <1>9, <1>a, <2>1 DEF SendMessages, graphVars, chainVars
<1>10. CASE RequestFails(r)
  <2>1. ReqTypeOK'
    BY <1>10, GotoTypeOK DEF RequestFails, Step
  <2> QED
    BY <1>10, <1>a, <2>1 DEF RequestFails, Fault, graphVars, chainVars
<1> QED
  BY <1>1, <1>2, <1>3, <1>4, <1>5, <1>6, <1>7, <1>8, <1>9, <1>10
  DEF RequestStep

\* The collectors keep the types of the topics and of what they hold.
LEMMA CollectorStepTypeOK ==
    ASSUME GraphTypeOK, CollectorTypeOK, NEW c \in Collectors,
           CollectorStep(c) \/ TryFails(c) \/ CollectorCrash(c)
    PROVE  GraphTypeOK' /\ CollectorTypeOK'
<1> USE DEF GraphTypeOK, CollectorTypeOK, graphVars, chainVars
<1>a. None \notin InHand => (hand[c] # None => hand[c] \in InHand)
  OBVIOUS
<1>b. ASSUME hand[c] # None
      PROVE  /\ hand[c] \in InHand
             /\ [hand[c] EXCEPT !.at = "catch"] \in InHand
             /\ \A path \in {"store", "skip"} :
                  [msg |-> hand[c].msg, path |-> path, copy |-> faults] \in Delivery
  BY <1>b DEF InHand, Delivery
<1>1. CASE TakeMessage(c)
  BY <1>1 DEF TakeMessage, InHand, Exists
<1>2. CASE CollectQueries(c)
  BY <1>2, <1>b DEF CollectQueries, Publish, PathOf
<1>3. CASE PriceThrows(c)
  BY <1>3, <1>b DEF PriceThrows
<1>4. CASE CatchQueries(c)
  BY <1>4, <1>b DEF CatchQueries, Publish
<1>5. CASE TryFails(c)
  BY <1>5, <1>b DEF TryFails, Fault, Publish, PathOf
<1>6. CASE CollectorCrash(c)
  BY <1>6 DEF CollectorCrash, Fault
<1> QED
  BY <1>1, <1>2, <1>3, <1>4, <1>5, <1>6 DEF CollectorStep

\* A task stays one when the keeper counts on it.
LEMMA TaskCount ==
    ASSUME NEW t \in Task
    PROVE  /\ [t EXCEPT !.progress = @ + 1] \in Task
           /\ [t EXCEPT !.transferCount = @ + 1] \in Task
BY DEF Task

\* The keepers keep the types of the graph, their topic and their jobs.
LEMMA KeeperStepTypeOK ==
    ASSUME GraphTypeOK, KeeperTypeOK,
           KeeperStep \/ (\E j \in jobs : JobFails(j)) \/ (\E k \in Keepers : KeeperCrash(k))
    PROVE  GraphTypeOK' /\ KeeperTypeOK'
<1> USE DEF GraphTypeOK, KeeperTypeOK
<1>1. CASE \E k \in Keepers : TakeDelivery(k)
  BY <1>1 DEF TakeDelivery, FirstQuery, Job, Query, graphVars, chainVars
<1>2. ASSUME NEW j \in jobs, RunQuery(j)
      PROVE  GraphTypeOK' /\ KeeperTypeOK'
  <2>1. j \in Job /\ j.dlv.msg \in Message
    BY DEF Job, Delivery
  <2>2. jobs' \subseteq Job
    BY <1>2, <2>1 DEF RunQuery, Job, Query, QueryAfter
  <2>3. tasks' \in [Node -> Task] /\ accounts' = accounts
    <3>1. CASE CountTransfer(j.dlv.msg)
      BY <3>1, TaskCount DEF CountTransfer
    <3>2. CASE IncrementTask(j.dlv.msg)
      BY <3>2, TaskCount DEF IncrementTask
    <3>3. CASE StoreTransaction(j.dlv.msg) \/ EndOfTask(j.dlv.msg)
      BY <3>3 DEF StoreTransaction, EndOfTask
    <3> QED
      BY <1>2, <3>1, <3>2, <3>3 DEF RunQuery
  <2>4. stored' \in [Node -> [Sig -> Nat]]
    BY <1>2 DEF RunQuery, StoreTransaction, CountTransfer, IncrementTask, EndOfTask
  <2>5. /\ taskUpdatedAt' \in [Request -> Request \cup {None}]
        /\ lastSync' \in Request \cup {None}
    BY <1>2, <2>1 DEF RunQuery, StoreTransaction, CountTransfer, IncrementTask, EndOfTask, Message
  <2> QED
    BY <1>2, <2>2, <2>3, <2>4, <2>5 DEF RunQuery, chainVars
<1>3. CASE \E j \in jobs : JobFails(j)
  BY <1>3 DEF JobFails, Fault, graphVars, chainVars
<1>4. CASE \E k \in Keepers : KeeperCrash(k)
  BY <1>4 DEF KeeperCrash, Fault, graphVars, chainVars
<1> QED
  BY <1>1, <1>2, <1>3, <1>4 DEF KeeperStep

\* A growing chain and new prices stay within their bounds.
LEMMA EnvironmentTypeOK == ASSUME GraphTypeOK, Environment PROVE GraphTypeOK'
BY DEF Environment, Grow, FetchPrices, GraphTypeOK, graphVars

\* A service that does not move keeps what it holds.
LEMMA UnmovedTypeOK ==
    /\ ReqTypeOK /\ UNCHANGED req => ReqTypeOK'
    /\ CollectorTypeOK /\ UNCHANGED collectorVars => CollectorTypeOK'
    /\ KeeperTypeOK /\ UNCHANGED keeperVars => KeeperTypeOK'
BY DEF ReqTypeOK, CollectorTypeOK, KeeperTypeOK, collectorVars, keeperVars

LEMMA StepTypeOK == TypeOK /\ [Next]_vars => TypeOK'
<1> SUFFICES ASSUME TypeOK, [Next]_vars PROVE TypeOK'
  OBVIOUS
<1> USE UnmovedTypeOK DEF TypeOK
<1>1. ASSUME NEW r \in Request,
             NewRequest(r) \/ RequestStep(r) \/ RequestFails(r) \/ DeleteMine(r),
             UNCHANGED <<collectorVars, keeperVars>>
      PROVE  TypeOK'
  BY <1>1, RequestTypeOK
<1>2. ASSUME NEW c \in Collectors, CollectorStep(c) \/ TryFails(c) \/ CollectorCrash(c),
             UNCHANGED <<req, keeperVars>>
      PROVE  TypeOK'
  BY <1>2, CollectorStepTypeOK
<1>3. ASSUME KeeperStep \/ (\E j \in jobs : JobFails(j)) \/ (\E k \in Keepers : KeeperCrash(k)),
             UNCHANGED <<req, collectorVars>>
      PROVE  TypeOK'
  BY <1>3, KeeperStepTypeOK
<1>4. CASE Environment
  BY <1>4, EnvironmentTypeOK DEF Environment, Grow, FetchPrices
<1>5. CASE UNCHANGED vars
  BY <1>5 DEF vars, GraphTypeOK, graphVars, chainVars
<1> QED
  BY <1>1, <1>2, <1>3, <1>4, <1>5 DEF Next, Services, Clients, Failures

\* Every variable of the pipeline keeps its type in every behaviour: requests,
\* collectors, keepers, crashes and redeliveries in any order.
THEOREM TypeCorrect == Spec => []TypeOK
BY InitTypeOK, StepTypeOK, PTL DEF Spec

---------------------------------------------------------------------------
(* What a step of a request does to its locals, and what steps leave alone. *)

\* Fields of a request's record.
Holds(w, step, goal, S, K, t) ==
    w.pc = step /\ w.goal = goal /\ w.sigs = S /\ w.known = K /\ w.tid = t

\* The locals of request r, and of no other, take new values.
Becomes(r, step, goal, S, K, t) ==
    /\ Holds(req'[r], step, goal, S, K, t)
    /\ \A q \in Request \ {r} : req'[q] = req[q]

LEMMA HoldsFields ==
    ASSUME NEW w \in ReqRecord, NEW x, NEW step
    PROVE  /\ Holds([w EXCEPT !.goal = x, !.pc = step], step, x, w.sigs, w.known, w.tid)
           /\ Holds([w EXCEPT !.sigs = x, !.pc = step], step, w.goal, x, w.known, w.tid)
           /\ Holds([w EXCEPT !.known = x, !.pc = step], step, w.goal, w.sigs, x, w.tid)
           /\ Holds([w EXCEPT !.tid = x, !.pc = step], step, w.goal, w.sigs, w.known, x)
           /\ Holds([w EXCEPT !.pc = step], step, w.goal, w.sigs, w.known, w.tid)
BY DEF ReqRecord, Holds

LEMMA SetLocals ==
    ASSUME ReqTypeOK, NEW r \in Request, NEW x, NEW step
    PROVE  /\ req' = [req EXCEPT ![r] = [@ EXCEPT !.goal = x, !.pc = step]]
                => Becomes(r, step, x, req[r].sigs, req[r].known, req[r].tid)
           /\ req' = [req EXCEPT ![r] = [@ EXCEPT !.sigs = x, !.pc = step]]
                => Becomes(r, step, req[r].goal, x, req[r].known, req[r].tid)
           /\ req' = [req EXCEPT ![r] = [@ EXCEPT !.known = x, !.pc = step]]
                => Becomes(r, step, req[r].goal, req[r].sigs, x, req[r].tid)
           /\ req' = [req EXCEPT ![r] = [@ EXCEPT !.tid = x, !.pc = step]]
                => Becomes(r, step, req[r].goal, req[r].sigs, req[r].known, x)
           /\ Goto(r, step) => Becomes(r, step, req[r].goal, req[r].sigs, req[r].known, req[r].tid)
<1>1. req[r] \in ReqRecord
  BY DEF ReqTypeOK
<1>2. Goto(r, step) => req' = [req EXCEPT ![r] = [@ EXCEPT !.pc = step]]
  BY DEF Goto
<1>3. ASSUME NEW w, req' = [req EXCEPT ![r] = w]
      PROVE  req'[r] = w /\ \A q \in Request \ {r} : req'[q] = req[q]
  BY <1>3 DEF ReqTypeOK
<1> DEFINE goal == [req[r] EXCEPT !.goal = x, !.pc = step]
           sigs == [req[r] EXCEPT !.sigs = x, !.pc = step]
           known == [req[r] EXCEPT !.known = x, !.pc = step]
           tid == [req[r] EXCEPT !.tid = x, !.pc = step]
           pc == [req[r] EXCEPT !.pc = step]
<1>4. /\ Holds(goal, step, x, req[r].sigs, req[r].known, req[r].tid)
      /\ Holds(sigs, step, req[r].goal, x, req[r].known, req[r].tid)
      /\ Holds(known, step, req[r].goal, req[r].sigs, x, req[r].tid)
      /\ Holds(tid, step, req[r].goal, req[r].sigs, req[r].known, x)
      /\ Holds(pc, step, req[r].goal, req[r].sigs, req[r].known, req[r].tid)
  BY <1>1, HoldsFields
<1>5. /\ req' = [req EXCEPT ![r] = [@ EXCEPT !.goal = x, !.pc = step]] => req' = [req EXCEPT ![r] = goal]
      /\ req' = [req EXCEPT ![r] = [@ EXCEPT !.sigs = x, !.pc = step]] => req' = [req EXCEPT ![r] = sigs]
      /\ req' = [req EXCEPT ![r] = [@ EXCEPT !.known = x, !.pc = step]] => req' = [req EXCEPT ![r] = known]
      /\ req' = [req EXCEPT ![r] = [@ EXCEPT !.tid = x, !.pc = step]] => req' = [req EXCEPT ![r] = tid]
      /\ Goto(r, step) => req' = [req EXCEPT ![r] = pc]
  BY <1>2
<1> HIDE DEF goal, sigs, known, tid, pc
<1> QED
  BY <1>3, <1>4, <1>5 DEF Becomes

\* The locals of r stay but for its next step and its goal.
Moves(r, step, goal) == Becomes(r, step, goal, req[r].sigs, req[r].known, req[r].tid)

\* What a new request does to the locals of the requests.
LEMMA NewRequestMoves ==
    ASSUME ReqTypeOK, NEW r \in Request
    PROVE  /\ PostAccount(r) => Moves(r, AfterCheck, "create")
           /\ PostSync(r) => IF accounts = {} THEN Moves(r, "check", "sync")
                                              ELSE Moves(r, "recheck", "resync")
           /\ PostResync(r) => Moves(r, AfterRecheck, "resync")
<1> USE SetLocals, Zenon DEF Moves
<1>1. PostAccount(r) => Moves(r, AfterCheck, "create")
  BY DEF PostAccount
<1>2. PostSync(r) => IF accounts = {} THEN Moves(r, "check", "sync")
                                      ELSE Moves(r, "recheck", "resync")
  BY DEF PostSync
<1>3. PostResync(r) => Moves(r, AfterRecheck, "resync")
  BY DEF PostResync
<1> QED
  BY <1>1, <1>2, <1>3

\* And what a step of a running request does to them.
LEMMA RequestMoves ==
    ASSUME ReqTypeOK, NEW r \in Request
    PROVE  /\ CheckAccount(r) => Moves(r, AfterCheck, req[r].goal)
           /\ InsertAccount(r) => Moves(r, "mine", req[r].goal)
           /\ GetMine(r) => Moves(r, CASE r \notin accounts -> "failed"
                                       [] r \in accounts /\ req[r].goal = "sync" -> "list"
                                       [] OTHER -> "done", req[r].goal)
           /\ RecheckAccount(r) => Moves(r, AfterRecheck, req[r].goal)
           /\ ListSignatures(r) => Becomes(r, "read", req[r].goal, Listed, req[r].known, req[r].tid)
           /\ ReadTask(r) =>
                \/ Attached = {} /\ Moves(r, "arm", req[r].goal)
                \/ \E n \in Attached : InProcess(tasks[n]) /\ Moves(r, "refused", req[r].goal)
                \/ \E n \in Attached : Becomes(r, "arm", req[r].goal, req[r].sigs,
                                               tasks[n].synced, req[r].tid)
           /\ ArmTasks(r) =>
                \E t \in IF Attached = {} THEN {req[r].tid} ELSE {tasks[n].id : n \in Attached} :
                   Becomes(r, IF req[r].goal = "resync" THEN "send" ELSE "create", req[r].goal,
                           req[r].sigs, req[r].known, t)
           /\ CreateTasks(r) => Moves(r, "send", req[r].goal)
           /\ SendMessages(r) => Moves(r, "done", req[r].goal)
           /\ RequestFails(r) => Moves(r, "failed", req[r].goal)
<1> USE SetLocals, Zenon DEF Moves
<1>1. CheckAccount(r) => Moves(r, AfterCheck, req[r].goal)
  BY DEF CheckAccount
<1>2. InsertAccount(r) => Moves(r, "mine", req[r].goal)
  BY DEF InsertAccount
<1>3. GetMine(r) => Moves(r, CASE r \notin accounts -> "failed"
                               [] r \in accounts /\ req[r].goal = "sync" -> "list"
                               [] OTHER -> "done", req[r].goal)
  BY DEF GetMine
<1>4. RecheckAccount(r) => Moves(r, AfterRecheck, req[r].goal)
  BY DEF RecheckAccount
<1>5. ListSignatures(r) => Becomes(r, "read", req[r].goal, Listed, req[r].known, req[r].tid)
  BY DEF ListSignatures
<1>6. ReadTask(r) =>
        \/ Attached = {} /\ Moves(r, "arm", req[r].goal)
        \/ \E n \in Attached : InProcess(tasks[n]) /\ Moves(r, "refused", req[r].goal)
        \/ \E n \in Attached : Becomes(r, "arm", req[r].goal, req[r].sigs,
                                       tasks[n].synced, req[r].tid)
  BY DEF ReadTask, Goto
<1>7. ArmTasks(r) =>
        \E t \in IF Attached = {} THEN {req[r].tid} ELSE {tasks[n].id : n \in Attached} :
           Becomes(r, IF req[r].goal = "resync" THEN "send" ELSE "create", req[r].goal,
                   req[r].sigs, req[r].known, t)
  BY DEF ArmTasks
<1>8. CreateTasks(r) => Moves(r, "send", req[r].goal)
  BY DEF CreateTasks
<1>9. SendMessages(r) => Moves(r, "done", req[r].goal)
  BY DEF SendMessages
<1>10. RequestFails(r) => Moves(r, "failed", req[r].goal)
  BY DEF RequestFails
<1> QED
  BY <1>1, <1>2, <1>3, <1>4, <1>5, <1>6, <1>7, <1>8, <1>9, <1>10

\* What the handlers of the API leave alone.
LEMMA RequestFrame ==
    ASSUME NEW r \in Request, NewRequest(r) \/ RequestStep(r) \/ RequestFails(r) \/ DeleteMine(r)
    PROVE  /\ UNCHANGED <<stored, queryTopic, chainVars>>
           /\ ArmTasks(r) \/ CreateTasks(r) \/ UNCHANGED tasks
           /\ InsertAccount(r) \/ DeleteMine(r) \/ UNCHANGED accounts
           /\ \/ signatureTopic' = signatureTopic
              \/ /\ req[r].pc = "send"
                 /\ SendMessages(r) \/ RequestFails(r)
                 /\ signatureTopic \subseteq signatureTopic'
                 /\ signatureTopic' \subseteq signatureTopic \cup MessagesOf(r)
<1>1. CASE NewRequest(r) \/ DeleteMine(r)
  BY <1>1 DEF NewRequest, DeleteMine, PostAccount, PostSync, PostResync, dbVars, graphVars, chainVars
<1>2. CASE CheckAccount(r) \/ GetMine(r) \/ RecheckAccount(r) \/ ListSignatures(r) \/ ReadTask(r)
  BY <1>2 DEF CheckAccount, GetMine, RecheckAccount, ListSignatures, ReadTask, dbVars, graphVars,
              chainVars
<1>3. CASE InsertAccount(r) \/ ArmTasks(r) \/ CreateTasks(r) \/ SendMessages(r)
  BY <1>3 DEF InsertAccount, ArmTasks, CreateTasks, SendMessages, graphVars, chainVars
<1>4. CASE RequestFails(r)
  BY <1>4 DEF RequestFails, graphVars, chainVars
<1> QED
  BY <1>1, <1>2, <1>3, <1>4 DEF RequestStep

\* What arming does to a task: the tasks of the account start over, the others stay.
LEMMA ArmEffect ==
    ASSUME GraphTypeOK, NEW r \in Request, ArmTasks(r), NEW n \in Node
    PROVE  /\ tasks'[n].id = tasks[n].id /\ tasks'[n].transferCount = tasks[n].transferCount
           /\ n \in Attached => /\ tasks'[n].amount = Cardinality(req[r].sigs)
                                /\ tasks'[n].progress = Cardinality(req[r].known)
                                /\ tasks'[n].synced = req[r].sigs
           /\ n \notin Attached => tasks'[n] = tasks[n]
<1>1. tasks[n] \in Task
  BY DEF GraphTypeOK
<1>2. tasks'[n] = IF n \in Attached
                  THEN [tasks[n] EXCEPT !.amount = Cardinality(req[r].sigs),
                                        !.progress = Cardinality(req[r].known),
                                        !.synced = req[r].sigs]
                  ELSE tasks[n]
  BY DEF ArmTasks
<1> QED
  BY <1>1, <1>2 DEF Task

\* What a query does to the tasks and the transactions on them.
LEMMA QueryEffect ==
    ASSUME GraphTypeOK, NEW j \in jobs, RunQuery(j), NEW n \in Node
    PROVE  /\ tasks'[n].id = tasks[n].id /\ tasks'[n].amount = tasks[n].amount
           /\ tasks'[n].synced = tasks[n].synced
           /\ tasks'[n].progress = IF j.at = "increment" /\ tasks[n].id = j.dlv.msg.tid
                                   THEN tasks[n].progress + 1 ELSE tasks[n].progress
           /\ tasks'[n].transferCount =
                IF j.at = "count" /\ n \in Attached /\ tasks[n].id = j.dlv.msg.tid
                THEN tasks[n].transferCount + 1 ELSE tasks[n].transferCount
           /\ stored'[n] \in [Sig -> Nat]
           /\ \A s \in Sig : stored'[n][s] =
                IF j.at = "store" /\ tasks[n].id = j.dlv.msg.tid /\ s = j.dlv.msg.sig
                THEN stored[n][s] + 1 ELSE stored[n][s]
           /\ UNCHANGED accounts
<1>1. tasks[n] \in Task /\ stored[n] \in [Sig -> Nat]
  BY DEF GraphTypeOK
<1>2. CASE j.at = "store" /\ StoreTransaction(j.dlv.msg)
  BY <1>1, <1>2 DEF StoreTransaction
<1>3. CASE j.at = "count" /\ CountTransfer(j.dlv.msg)
  BY <1>1, <1>3 DEF CountTransfer, Task
<1>4. CASE j.at = "increment" /\ IncrementTask(j.dlv.msg)
  BY <1>1, <1>4 DEF IncrementTask, Task
<1>5. CASE j.at = "end" /\ EndOfTask(j.dlv.msg)
  BY <1>1, <1>5 DEF EndOfTask
<1> QED
  BY <1>2, <1>3, <1>4, <1>5 DEF RunQuery

HIDE ConstantsAssumption

---------------------------------------------------------------------------
(* Only transfers with a price are stored.                                  *)

\* What a collector has in hand it fetched, so a crash can only repeat it.
HeldIsFetched == \A c \in Collectors : hand[c] # None => hand[c].msg \in fetched[c]

\* A job runs the queries of a delivery its keeper received, and stores nothing
\* for one without the store queries.
JobIsReceived ==
    \A j \in jobs : j.dlv \in received[j.keeper] /\ (j.at = "store" => j.dlv.path = "store")

\* Every signature on its way was listed by the RPC node.
SigsOnChain ==
    /\ \A r \in Request : \A s \in req[r].sigs : s <= height
    /\ \A m \in signatureTopic : m.sig <= height
    /\ \A c \in Collectors : \A m \in fetched[c] : m.sig <= height

\* Store queries are built for transfers whose price is there.
StoresPriced(d) ==
    /\ d.msg.sig <= height
    /\ d.path = "store" => d.msg.sig \in Transfers /\ d.msg.sig <= priced

DeliveriesPriced ==
    /\ \A d \in queryTopic : StoresPriced(d)
    /\ \A k \in Keepers : \A d \in received[k] : StoresPriced(d)

PricedInv ==
    /\ HeldIsFetched /\ JobIsReceived
    /\ SigsOnChain /\ DeliveriesPriced /\ StoredArePricedTransfers

---------------------------------------------------------------------------
\* Nothing is under way and nothing is stored at the start.
LEMMA InitPriced == Init => PricedInv
<1> SUFFICES ASSUME Init PROVE PricedInv
  OBVIOUS
<1>1. HeldIsFetched /\ JobIsReceived
  BY DEF Init, CollectorInit, KeeperInit, HeldIsFetched, JobIsReceived
<1>2. SigsOnChain /\ DeliveriesPriced
  BY DEF Init, GraphInit, ReqInit, CollectorInit, KeeperInit, SigsOnChain, DeliveriesPriced
<1>3. StoredArePricedTransfers
  BY DEF Init, GraphInit, StoredArePricedTransfers
<1> QED
  BY <1>1, <1>2, <1>3 DEF PricedInv

\* What the database, the chain, the prices and the two consumers hold stays fit
\* as long as none of them moves.
LEMMA UnmovedPriced ==
    /\ HeldIsFetched /\ UNCHANGED collectorVars => HeldIsFetched'
    /\ JobIsReceived /\ UNCHANGED keeperVars => JobIsReceived'
    /\ DeliveriesPriced /\ UNCHANGED <<queryTopic, chainVars, keeperVars>> => DeliveriesPriced'
    /\ StoredArePricedTransfers /\ UNCHANGED <<stored, chainVars>> => StoredArePricedTransfers'
BY DEF HeldIsFetched, JobIsReceived, DeliveriesPriced, StoresPriced, StoredArePricedTransfers,
       collectorVars, keeperVars, chainVars

\* The messages of a request are about signatures it listed.
LEMMA MessagesOnChain ==
    ASSUME SigsOnChain, NEW r \in Request, NEW m \in MessagesOf(r)
    PROVE  m.sig <= height
BY DEF SigsOnChain, MessagesOf

\* A handler that changes its other locals keeps the signatures it listed.
LEMMA SigsKept ==
    ASSUME ReqTypeOK, NEW q \in Request, NEW r \in Request, NEW x, NEW step,
           \/ req' = [req EXCEPT ![r] = [@ EXCEPT !.goal = x, !.pc = step]]
           \/ req' = [req EXCEPT ![r] = [@ EXCEPT !.known = x, !.pc = step]]
           \/ req' = [req EXCEPT ![r] = [@ EXCEPT !.tid = x, !.pc = step]]
    PROVE  req'[q].sigs = req[q].sigs
<1>1. req[r] \in ReqRecord
  BY DEF ReqTypeOK
<1>2. /\ [req[r] EXCEPT !.goal = x, !.pc = step].sigs = req[r].sigs
      /\ [req[r] EXCEPT !.known = x, !.pc = step].sigs = req[r].sigs
      /\ [req[r] EXCEPT !.tid = x, !.pc = step].sigs = req[r].sigs
  BY <1>1 DEF ReqRecord
<1> QED
  BY <1>2 DEF ReqTypeOK

\* The API adds to the topic only signatures it listed, and stores nothing.
LEMMA RequestPriced ==
    ASSUME TypeOK, PricedInv, NEW r \in Request,
           NewRequest(r) \/ RequestStep(r) \/ RequestFails(r) \/ DeleteMine(r),
           UNCHANGED <<collectorVars, keeperVars>>
    PROVE  PricedInv'
<1> USE DEF PricedInv
<1>a. ReqTypeOK /\ height \in Int
  BY DEF TypeOK, GraphTypeOK
<1>1. UNCHANGED <<stored, queryTopic, chainVars>>
  BY DEF NewRequest, RequestStep, RequestFails, DeleteMine, PostAccount, PostSync, PostResync,
         CheckAccount, InsertAccount, GetMine, RecheckAccount, ListSignatures, ReadTask,
         ArmTasks, CreateTasks, SendMessages, dbVars, graphVars, chainVars
<1>2. \A m \in signatureTopic' : m.sig <= height
  <2>1. signatureTopic' \subseteq signatureTopic \cup MessagesOf(r)
    BY DEF NewRequest, RequestStep, RequestFails, DeleteMine, PostAccount, PostSync, PostResync,
           CheckAccount, InsertAccount, GetMine, RecheckAccount, ListSignatures, ReadTask,
           ArmTasks, CreateTasks, SendMessages, dbVars
  <2> QED
    BY <2>1, MessagesOnChain DEF SigsOnChain
<1>3. \A q \in Request : \A s \in req'[q].sigs : s <= height
  <2>1. SUFFICES ASSUME NEW q \in Request PROVE req'[q].sigs \subseteq req[q].sigs \cup Listed
    BY <1>a, <2>1 DEF SigsOnChain, Listed
  <2>2. CASE NewRequest(r) \/ DeleteMine(r)
    <3>1. CASE UNCHANGED req
      BY <3>1
    <3>2. ASSUME NEW goal, NEW step, req' = [req EXCEPT ![r] = [@ EXCEPT !.goal = goal, !.pc = step]]
          PROVE  req'[q].sigs = req[q].sigs
      BY <3>2, <1>a, SigsKept
    <3> QED
      BY <2>2, <3>1, <3>2 DEF NewRequest, PostAccount, PostSync, PostResync, DeleteMine
  <2>3. CASE CheckAccount(r) \/ InsertAccount(r) \/ GetMine(r) \/ RecheckAccount(r)
             \/ CreateTasks(r) \/ SendMessages(r) \/ RequestFails(r)
    BY <2>3, <1>a DEF CheckAccount, InsertAccount, GetMine, RecheckAccount, CreateTasks,
                     SendMessages, RequestFails, Goto, ReqTypeOK, ReqRecord
  <2>4. CASE ListSignatures(r)
    BY <2>4, <1>a DEF ListSignatures, ReqTypeOK, ReqRecord
  <2>5. CASE ReadTask(r)
    <3>1. CASE \E step : req' = [req EXCEPT ![r].pc = step]
      BY <3>1, <1>a DEF ReqTypeOK, ReqRecord
    <3>2. ASSUME NEW S, req' = [req EXCEPT ![r] = [@ EXCEPT !.known = S, !.pc = "arm"]]
          PROVE  req'[q].sigs = req[q].sigs
      BY <3>2, <1>a, SigsKept
    <3> QED
      BY <2>5, <3>1, <3>2 DEF ReadTask
  <2>6. CASE ArmTasks(r)
    <3>1. PICK t, step : req' = [req EXCEPT ![r] = [@ EXCEPT !.tid = t, !.pc = step]]
      BY <2>6 DEF ArmTasks
    <3> QED
      BY <3>1, <1>a, SigsKept
  <2> QED
    BY <2>2, <2>3, <2>4, <2>5, <2>6 DEF RequestStep
<1>4. SigsOnChain'
  BY <1>1, <1>2, <1>3 DEF SigsOnChain, chainVars, collectorVars
<1> QED
  BY <1>1, <1>4, UnmovedPriced

\* A collector builds store queries only for transfers it finds a price for; what
\* it publishes in the catch block, or again after a crash, holds none or the same.
LEMMA CollectorPriced ==
    ASSUME TypeOK, PricedInv, NEW c \in Collectors,
           CollectorStep(c) \/ TryFails(c) \/ CollectorCrash(c), UNCHANGED <<req, keeperVars>>
    PROVE  PricedInv'
<1> USE DEF PricedInv
<1>a. CollectorTypeOK
  BY DEF TypeOK
<1>1. UNCHANGED <<stored, chainVars>>
  BY DEF CollectorStep, TakeMessage, CollectQueries, PriceThrows, CatchQueries, TryFails,
         CollectorCrash, graphVars
<1>2. HeldIsFetched'
  <2> USE <1>a DEF HeldIsFetched, CollectorTypeOK
  <2>1. CASE TakeMessage(c)
    BY <2>1 DEF TakeMessage
  <2>2. CASE CollectQueries(c) \/ PriceThrows(c) \/ CatchQueries(c) \/ TryFails(c)
    BY <2>2 DEF CollectQueries, PriceThrows, CatchQueries, TryFails, InHand
  <2>3. CASE CollectorCrash(c)
    BY <2>3 DEF CollectorCrash
  <2> QED
    BY <2>1, <2>2, <2>3 DEF CollectorStep
<1>3. SigsOnChain'
  <2> USE <1>1, <1>a DEF SigsOnChain, CollectorTypeOK, chainVars
  <2>1. CASE TakeMessage(c)
    BY <2>1 DEF TakeMessage
  <2>2. CASE CollectQueries(c) \/ PriceThrows(c) \/ CatchQueries(c) \/ TryFails(c)
    BY <2>2 DEF CollectQueries, PriceThrows, CatchQueries, TryFails
  <2>3. CASE CollectorCrash(c)
    BY <2>3 DEF CollectorCrash
  <2> QED
    BY <2>1, <2>2, <2>3 DEF CollectorStep
<1>4. DeliveriesPriced'
  <2>1. ASSUME hand[c] # None, NEW path \in {"store", "skip"},
               path = "store" => path = PathOf(hand[c]) /\ ~PriceMissing(hand[c])
        PROVE  StoresPriced([msg |-> hand[c].msg, path |-> path, copy |-> faults])
    <3>1. hand[c].msg.sig \in Int /\ hand[c].msg.sig <= height /\ priced \in Int
      BY <2>1, <1>a DEF HeldIsFetched, SigsOnChain, CollectorTypeOK, Message, Sig,
                        TypeOK, GraphTypeOK
    <3> QED
      BY <2>1, <3>1 DEF StoresPriced, PathOf, PriceMissing
  <2>2. \A d \in queryTopic' \ queryTopic : StoresPriced(d)
    <3>1. CASE CollectQueries(c) \/ TryFails(c)
      BY <3>1, <2>1 DEF CollectQueries, TryFails, Publish, PathOf
    <3>2. CASE CatchQueries(c)
      BY <3>2, <2>1 DEF CatchQueries, Publish
    <3>3. CASE TakeMessage(c) \/ PriceThrows(c) \/ CollectorCrash(c)
      BY <3>3 DEF TakeMessage, PriceThrows, CollectorCrash
    <3> QED
      BY <3>1, <3>2, <3>3 DEF CollectorStep
  <2> QED
    BY <1>1, <2>2 DEF DeliveriesPriced, StoresPriced, chainVars, keeperVars
<1> QED
  BY <1>1, <1>2, <1>3, <1>4, UnmovedPriced

\* A keeper stores what a received delivery says, and repeats only what it received.
LEMMA KeeperPriced ==
    ASSUME TypeOK, PricedInv,
           KeeperStep \/ (\E j \in jobs : JobFails(j)) \/ (\E k \in Keepers : KeeperCrash(k)),
           UNCHANGED <<req, collectorVars>>
    PROVE  PricedInv'
<1> USE DEF PricedInv
<1>a. KeeperTypeOK
  BY DEF TypeOK
<1>1. UNCHANGED <<signatureTopic, chainVars>>
  BY DEF KeeperStep, TakeDelivery, RunQuery, JobFails, KeeperCrash
<1>2. HeldIsFetched' /\ SigsOnChain'
  BY <1>1, UnmovedPriced DEF SigsOnChain, chainVars, collectorVars
<1>3. CASE \E k \in Keepers : TakeDelivery(k)
  <2>1. PICK k \in Keepers : TakeDelivery(k)
    BY <1>3
  <2>2. JobIsReceived'
    BY <2>1, <1>a DEF TakeDelivery, JobIsReceived, KeeperTypeOK, FirstQuery, Job
  <2>3. DeliveriesPriced'
    BY <2>1, <1>1, <1>a DEF TakeDelivery, DeliveriesPriced, StoresPriced, KeeperTypeOK, chainVars
  <2> QED
    BY <2>1, <1>1, <1>2, <2>2, <2>3, UnmovedPriced DEF TakeDelivery, graphVars
<1>4. ASSUME NEW j \in jobs, RunQuery(j)
      PROVE  PricedInv'
  <2>1. JobIsReceived'
    BY <1>4, <1>a DEF RunQuery, JobIsReceived, KeeperTypeOK, Job, Query, QueryAfter
  <2>2. DeliveriesPriced'
    BY <1>4, <1>1 DEF RunQuery, DeliveriesPriced, StoresPriced, chainVars
  <2>3. StoredArePricedTransfers'
    <3>1. CASE j.at = "store"
      <4>1. StoresPriced(j.dlv) /\ j.dlv.path = "store"
        BY <3>1, <1>a DEF JobIsReceived, DeliveriesPriced, KeeperTypeOK, Job
      <4>2. StoreTransaction(j.dlv.msg)
        BY <1>4, <3>1 DEF RunQuery
      <4> QED
        BY <1>1, <4>1, <4>2 DEF StoreTransaction, StoredArePricedTransfers, StoresPriced, chainVars
    <3>2. CASE j.at # "store"
      BY <1>4, <3>2, <1>1, UnmovedPriced DEF RunQuery, CountTransfer, IncrementTask, EndOfTask
    <3> QED
      BY <3>1, <3>2
  <2> QED
    BY <1>2, <2>1, <2>2, <2>3
<1>5. CASE \E j \in jobs : JobFails(j)
  <2>1. JobIsReceived' /\ DeliveriesPriced'
    BY <1>5, <1>1 DEF JobFails, JobIsReceived, DeliveriesPriced, StoresPriced, chainVars
  <2> QED
    BY <1>5, <1>1, <1>2, <2>1, UnmovedPriced DEF JobFails, graphVars
<1>6. CASE \E k \in Keepers : KeeperCrash(k)
  <2>1. PICK k \in Keepers : KeeperCrash(k)
    BY <1>6
  <2>2. JobIsReceived'
    BY <2>1, <1>a DEF KeeperCrash, JobIsReceived, KeeperTypeOK, Job
  <2>3. DeliveriesPriced'
    BY <2>1, <1>1, <1>a DEF KeeperCrash, DeliveriesPriced, StoresPriced, KeeperTypeOK, chainVars
  <2> QED
    BY <2>1, <1>1, <1>2, <2>2, <2>3, UnmovedPriced DEF KeeperCrash, graphVars
<1> QED
  BY <1>3, <1>4, <1>5, <1>6 DEF KeeperStep

\* The chain only grows, and a price once stored stays.
LEMMA EnvironmentPriced ==
    ASSUME TypeOK, PricedInv, Environment
    PROVE  PricedInv'
<1> USE DEF PricedInv
<1>1. /\ height \in Int /\ priced \in Int /\ height' \in Int /\ priced' \in Int
      /\ height <= height' /\ priced <= priced'
  BY DEF TypeOK, GraphTypeOK, Environment, Grow, FetchPrices
<1>2. /\ UNCHANGED <<stored, signatureTopic, queryTopic>>
      /\ UNCHANGED <<req, collectorVars, keeperVars>>
  BY DEF Environment, Grow, FetchPrices, graphVars
<1>3. SigsOnChain'
  <2>1. /\ \A r \in Request : \A s \in req[r].sigs : s \in Int
        /\ \A m \in signatureTopic : m.sig \in Int
        /\ \A c \in Collectors : \A m \in fetched[c] : m.sig \in Int
    BY DEF TypeOK, GraphTypeOK, ReqTypeOK, ReqRecord, CollectorTypeOK, Message, Sig
  <2> QED
    BY <1>1, <1>2, <2>1 DEF SigsOnChain, collectorVars
<1>4. DeliveriesPriced'
  <2>1. /\ \A d \in queryTopic : d.msg.sig \in Int
        /\ \A k \in Keepers : \A d \in received[k] : d.msg.sig \in Int
    BY DEF TypeOK, GraphTypeOK, KeeperTypeOK, Delivery, Message, Sig
  <2> QED
    BY <1>1, <1>2, <2>1 DEF DeliveriesPriced, StoresPriced, keeperVars
<1>5. StoredArePricedTransfers'
  BY <1>1, <1>2 DEF StoredArePricedTransfers, Sig
<1> QED
  BY <1>2, <1>3, <1>4, <1>5, UnmovedPriced

LEMMA StepPriced == TypeOK /\ PricedInv /\ [Next]_vars => PricedInv'
<1> SUFFICES ASSUME TypeOK, PricedInv, [Next]_vars PROVE PricedInv'
  OBVIOUS
<1>1. CASE \E r \in Request : /\ RequestStep(r) \/ NewRequest(r) \/ DeleteMine(r) \/ RequestFails(r)
                              /\ UNCHANGED <<collectorVars, keeperVars>>
  BY <1>1, RequestPriced
<1>2. CASE \E c \in Collectors : /\ CollectorStep(c) \/ TryFails(c) \/ CollectorCrash(c)
                                 /\ UNCHANGED <<req, keeperVars>>
  BY <1>2, CollectorPriced
<1>3. CASE /\ KeeperStep \/ (\E j \in jobs : JobFails(j)) \/ (\E k \in Keepers : KeeperCrash(k))
           /\ UNCHANGED <<req, collectorVars>>
  BY <1>3, KeeperPriced
<1>4. CASE Environment
  BY <1>4, EnvironmentPriced
<1>5. CASE UNCHANGED vars
  BY <1>5, UnmovedPriced DEF PricedInv, SigsOnChain, vars, graphVars, chainVars, collectorVars
<1> QED
  BY <1>1, <1>2, <1>3, <1>4, <1>5 DEF Next, Services, Clients, Failures

\* In every behaviour, whatever overlaps, crashes or comes again: a transaction is
\* stored only if it is on chain, is a transfer, and the price of its day is in Redis.
THEOREM OnlyPricedTransfersStored == Spec => []StoredArePricedTransfers
<1>1. PricedInv => StoredArePricedTransfers
  BY DEF PricedInv
<1> QED
  BY <1>1, InitPriced, StepPriced, TypeCorrect, PTL DEF Spec

---------------------------------------------------------------------------
(* Ids: what a request's messages and tasks are named by.                   *)

\* Every message that is in a topic or at an instance, or that a delivery was built for.
Sent ==
    {m \in Message :
        \/ m \in signatureTopic \/ \E c \in Collectors : m \in fetched[c]
        \/ \E d \in queryTopic : m = d.msg
        \/ \E k \in Keepers : \E d \in received[k] : m = d.msg}

\* The API adds messages when it sends, and takes none away.
LEMMA RequestSent ==
    ASSUME TypeOK, NEW r \in Request,
           NewRequest(r) \/ RequestStep(r) \/ RequestFails(r) \/ DeleteMine(r),
           UNCHANGED <<collectorVars, keeperVars>>
    PROVE  /\ Sent \subseteq Sent'
           /\ \A m \in Sent' \ Sent : m \in MessagesOf(r) /\ req[r].pc = "send"
           /\ SendMessages(r) \/ RequestFails(r) \/ Sent' = Sent
<1>1. UNCHANGED <<queryTopic, fetched, received>>
  BY RequestFrame DEF collectorVars, keeperVars
<1>2. CASE signatureTopic' = signatureTopic
  BY <1>1, <1>2 DEF Sent
<1>3. CASE /\ req[r].pc = "send"
           /\ SendMessages(r) \/ RequestFails(r)
           /\ signatureTopic \subseteq signatureTopic'
           /\ signatureTopic' \subseteq signatureTopic \cup MessagesOf(r)
  BY <1>1, <1>3 DEF Sent
<1> QED
  BY <1>2, <1>3, RequestFrame

\* A collector repeats only what it fetched and publishes for what it holds.
LEMMA CollectorSent ==
    ASSUME TypeOK, HeldIsFetched, NEW c \in Collectors,
           CollectorStep(c) \/ TryFails(c) \/ CollectorCrash(c), UNCHANGED <<req, keeperVars>>
    PROVE  /\ Sent' \subseteq Sent
           /\ CollectorCrash(c) \/ Sent' = Sent
<1> USE DEF Sent, keeperVars
<1>a. CollectorTypeOK
  BY DEF TypeOK
<1>1. CASE TakeMessage(c)
  BY <1>1, <1>a DEF TakeMessage, CollectorTypeOK
<1>2. CASE CollectQueries(c) \/ PriceThrows(c) \/ CatchQueries(c) \/ TryFails(c)
  <2>1. UNCHANGED <<signatureTopic, fetched, received>>
    BY <1>2 DEF CollectQueries, PriceThrows, CatchQueries, TryFails
  <2>2. /\ hand[c] # None /\ queryTopic \subseteq queryTopic'
        /\ \A d \in queryTopic' \ queryTopic : d.msg = hand[c].msg
    BY <1>2 DEF CollectQueries, PriceThrows, CatchQueries, TryFails, Publish
  <2> QED
    BY <2>1, <2>2 DEF HeldIsFetched
<1>3. CASE CollectorCrash(c)
  BY <1>3, <1>a DEF CollectorCrash, CollectorTypeOK
<1> QED
  BY <1>1, <1>2, <1>3 DEF CollectorStep

\* A keeper repeats only what it received.
LEMMA KeeperSent ==
    ASSUME TypeOK,
           KeeperStep \/ (\E j \in jobs : JobFails(j)) \/ (\E k \in Keepers : KeeperCrash(k)),
           UNCHANGED <<req, collectorVars>>
    PROVE  /\ Sent' \subseteq Sent
           /\ (\E k \in Keepers : KeeperCrash(k)) \/ Sent' = Sent
<1> USE DEF Sent, collectorVars
<1>a. KeeperTypeOK
  BY DEF TypeOK
<1>1. CASE \E k \in Keepers : TakeDelivery(k)
  BY <1>1, <1>a DEF TakeDelivery, KeeperTypeOK
<1>2. CASE (\E j \in jobs : RunQuery(j)) \/ (\E j \in jobs : JobFails(j))
  BY <1>2 DEF RunQuery, JobFails
<1>3. CASE \E k \in Keepers : KeeperCrash(k)
  BY <1>3, <1>a DEF KeeperCrash, KeeperTypeOK
<1> QED
  BY <1>1, <1>2, <1>3 DEF KeeperStep

\* The steps of a handler up to the one that creates its tasks.
BeforeSend == {"new", "check", "insert", "mine", "recheck", "list", "read", "arm", "create"}

\* No task, other request or message has the id t.
Unused(t) ==
    /\ \A n \in Node : tasks[n].id # t
    /\ \A q \in Request \ {t} : req[q].tid # t
    /\ \A m \in Sent : m.tid # t

\* The id a request makes up is its own until it has created its tasks.
FreshInv == \A r \in Request : req[r].pc \in BeforeSend => Unused(r)

\* A step of a handler never goes back before its send.
LEMMA NeverBack ==
    ASSUME TypeOK, NEW r \in Request, NewRequest(r) \/ RequestStep(r) \/ RequestFails(r) \/ DeleteMine(r),
           NEW t \in Request, req'[t].pc \in BeforeSend
    PROVE  /\ req[t].pc \in BeforeSend
           /\ t = r => ~CreateTasks(r) /\ UNCHANGED signatureTopic
<1> USE DEF BeforeSend
<1>a. ReqTypeOK
  BY DEF TypeOK
<1>1. CASE t # r
  <2>1. req'[t] = req[t]
    <3>1. CASE NewRequest(r)
      BY <1>1, <1>a, <3>1, NewRequestMoves DEF NewRequest, Moves, Becomes
    <3>2. CASE RequestStep(r) \/ RequestFails(r)
      BY <1>1, <1>a, <3>2, RequestMoves DEF RequestStep, Moves, Becomes
    <3>3. CASE DeleteMine(r)
      BY <3>3 DEF DeleteMine
    <3> QED
      BY <3>1, <3>2, <3>3
  <2> QED
    BY <1>1, <2>1
<1>2. CASE t = r
  <2>1. CASE NewRequest(r) \/ DeleteMine(r)
    BY <1>2, <2>1 DEF NewRequest, PostAccount, PostSync, PostResync, DeleteMine, dbVars,
                      CreateTasks
  <2>2. CASE RequestFails(r) \/ SendMessages(r) \/ CreateTasks(r)
    BY <1>2, <1>a, <2>2, RequestMoves DEF Moves, Becomes, Holds
  <2>3. CASE RequestStep(r) /\ ~SendMessages(r) /\ ~CreateTasks(r)
    BY <1>2, <2>3, RequestFrame DEF RequestStep, CheckAccount, InsertAccount, GetMine, RecheckAccount, ListSignatures, ReadTask,
         ArmTasks, dbVars
  <2> QED
    BY <2>1, <2>2, <2>3
<1> QED
  BY <1>1, <1>2


\* The ids of the tasks after a step of the API were there before, or are the
\* request's own; and so is the id its messages carry.
LEMMA RequestNames ==
    ASSUME TypeOK, NEW r \in Request, NewRequest(r) \/ RequestStep(r) \/ RequestFails(r) \/ DeleteMine(r)
    PROVE  /\ \A n \in Node : tasks'[n].id \in {tasks[n].id} \cup (IF CreateTasks(r) THEN {req[r].tid} ELSE {})
           /\ req'[r].tid \in {req[r].tid} \cup {tasks[n].id : n \in Node}
           /\ \A q \in Request \ {r} : req'[q].tid = req[q].tid
<1>a. GraphTypeOK /\ ReqTypeOK
  BY DEF TypeOK
<1>1. ASSUME NEW n \in Node
      PROVE  tasks'[n].id \in {tasks[n].id} \cup (IF CreateTasks(r) THEN {req[r].tid} ELSE {})
  <2>1. CASE ArmTasks(r)
    BY <1>a, <2>1, ArmEffect
  <2>2. CASE CreateTasks(r)
    BY <2>2 DEF CreateTasks
  <2>3. CASE UNCHANGED tasks
    BY <2>3
  <2> QED
    BY <2>1, <2>2, <2>3, RequestFrame
<1>2. CASE NewRequest(r)
  BY <1>a, <1>1, <1>2, NewRequestMoves DEF NewRequest, Moves, Becomes, Holds
<1>3. CASE (RequestStep(r) /\ ~ArmTasks(r)) \/ RequestFails(r)
  BY <1>a, <1>1, <1>3, RequestMoves DEF RequestStep, Moves, Becomes, Holds
<1>4. CASE ArmTasks(r)
  <2>1. PICK t \in IF Attached = {} THEN {req[r].tid} ELSE {tasks[n].id : n \in Attached} :
             Becomes(r, IF req[r].goal = "resync" THEN "send" ELSE "create", req[r].goal,
                     req[r].sigs, req[r].known, t)
    BY <1>a, <1>4, RequestMoves
  <2> QED
    BY <1>1, <2>1 DEF Becomes, Holds, Attached
<1>5. CASE DeleteMine(r)
  BY <1>1, <1>5 DEF DeleteMine
<1> QED
  BY <1>2, <1>3, <1>4, <1>5

\* No request but the one that made it up uses an id before its tasks are created.
LEMMA RequestFresh ==
    ASSUME TypeOK, FreshInv, NEW r \in Request,
           NewRequest(r) \/ RequestStep(r) \/ RequestFails(r) \/ DeleteMine(r),
           UNCHANGED <<collectorVars, keeperVars>>
    PROVE  FreshInv'
<1> SUFFICES ASSUME NEW t \in Request, req'[t].pc \in BeforeSend PROVE Unused(t)'
  BY DEF FreshInv, BeforeSend
<1>1. Unused(t) /\ (t = r => ~CreateTasks(r) /\ UNCHANGED signatureTopic)
  BY NeverBack DEF FreshInv
<1>2. \A m \in Sent' : m.tid # t
  <2>1. t # r => \A m \in MessagesOf(r) : m.tid # t
    BY <1>1 DEF Unused, MessagesOf
  <2>2. t = r => Sent' = Sent
    BY <1>1, RequestFrame DEF Sent, collectorVars, keeperVars
  <2> QED
    BY <1>1, <2>1, <2>2, RequestSent DEF Unused
<1>3. \A n \in Node : tasks'[n].id # t
  BY <1>1, RequestNames DEF Unused
<1>4. \A q \in Request \ {t} : req'[q].tid # t
  BY <1>1, RequestNames DEF Unused
<1> QED
  BY <1>2, <1>3, <1>4 DEF Unused

\* The other services name nothing.
LEMMA ServiceFresh ==
    ASSUME FreshInv, UNCHANGED req, Sent' \subseteq Sent,
           \A n \in Node : tasks'[n].id = tasks[n].id
    PROVE  FreshInv'
BY DEF FreshInv, Unused

\* A query changes no id.
LEMMA KeeperKeepsIds ==
    ASSUME TypeOK, NEW n \in Node,
           KeeperStep \/ (\E j \in jobs : JobFails(j)) \/ (\E k \in Keepers : KeeperCrash(k))
    PROVE  tasks'[n].id = tasks[n].id
<1>1. CASE \E j \in jobs : RunQuery(j)
  BY <1>1, QueryEffect DEF TypeOK
<1>2. CASE UNCHANGED tasks
  BY <1>2
<1> QED
  BY <1>1, <1>2 DEF KeeperStep, TakeDelivery, JobFails, KeeperCrash, graphVars

---------------------------------------------------------------------------
(* Counting what is stored.                                                 *)

\* The jobs of task id t that have stored a transfer and not yet counted it.
Uncounted(t) == {j \in jobs : j.at = "count" /\ j.dlv.msg.tid = t}

CountInv ==
    /\ IsFiniteSet(jobs)
    /\ \A n \in Node : tasks[n].id = n.by =>
         tasks[n].transferCount + Cardinality(Uncounted(n.by)) <= Transactions(n)

\* Finitely many counts make finitely many things.
LEMMA CopiesFinite ==
    ASSUME NEW S, IsFiniteSet(S), NEW f \in [S -> Nat]
    PROVE  IsFiniteSet(Copies(S, f))
<1> DEFINE copy == [x \in S |-> {x} \X (1 .. f[x])]
           T == {{x} \X (1 .. f[x]) : x \in S}
<1>1. copy \in [S -> T] /\ \A U \in T : \E x \in S : copy[x] = U
  OBVIOUS
<1>2. IsFiniteSet(T)
  BY <1>1, Fun_IsSurj, FS_Surjection
<1>3. ASSUME NEW U \in T PROVE IsFiniteSet(U)
  <2>1. PICK x \in S : U = {x} \X (1 .. f[x])
    OBVIOUS
  <2>2. IsFiniteSet({x}) /\ IsFiniteSet(1 .. f[x])
    <3>1. f[x] \in Int /\ 1 \in Int
      OBVIOUS
    <3>2. IsFiniteSet({x})
      BY FS_Singleton
    <3>3. IsFiniteSet(1 .. f[x])
      BY <3>1, FS_Interval
    <3> QED
      BY <3>2, <3>3
  <2> QED
    BY <2>1, <2>2, FS_Product
<1> HIDE DEF T
<1>4. IsFiniteSet(UNION T)
  BY <1>2, <1>3, FS_UNION
<1> QED
  BY <1>4 DEF Copies, T

\* One more of one of them is one thing more.
LEMMA OneMoreCopy ==
    ASSUME NEW S, IsFiniteSet(S), NEW f \in [S -> Nat], NEW g \in [S -> Nat], NEW x \in S,
           \A y \in S : g[y] = IF y = x THEN f[y] + 1 ELSE f[y]
    PROVE  Cardinality(Copies(S, g)) = Cardinality(Copies(S, f)) + 1
<1>1. IsFiniteSet(Copies(S, f))
  BY CopiesFinite
<1>2. <<x, f[x] + 1>> \notin Copies(S, f)
  BY DEF Copies
<1>3. Copies(S, g) = Copies(S, f) \cup {<<x, f[x] + 1>>}
  <2>1. ASSUME NEW z \in Copies(S, g) PROVE z \in Copies(S, f) \cup {<<x, f[x] + 1>>}
    <3>1. PICK y \in S : z \in {y} \X (1 .. g[y])
      BY DEF Copies
    <3>2. PICK i \in 1 .. g[y] : z = <<y, i>>
      BY <3>1
    <3>3. CASE y = x /\ i = f[x] + 1
      BY <3>2, <3>3
    <3>4. CASE y # x \/ i # f[x] + 1
      <4>1. i \in 1 .. f[y] /\ <<y, i>> \in {y} \X (1 .. f[y])
        BY <3>4
      <4> QED
        BY <3>2, <4>1 DEF Copies
    <3> QED
      BY <3>3, <3>4
  <2>2. ASSUME NEW z \in Copies(S, f) PROVE z \in Copies(S, g)
    <3>1. PICK y \in S : z \in {y} \X (1 .. f[y])
      BY DEF Copies
    <3>2. 1 .. f[y] \subseteq 1 .. g[y]
      OBVIOUS
    <3> QED
      BY <3>1, <3>2 DEF Copies
  <2>3. <<x, f[x] + 1>> \in Copies(S, g)
    <3>1. <<x, f[x] + 1>> \in {x} \X (1 .. g[x])
      OBVIOUS
    <3> QED
      BY <3>1 DEF Copies
  <2> QED
    BY <2>1, <2>2, <2>3
<1> QED
  BY <1>1, <1>2, <1>3, FS_AddElement

\* The same counts, and counts of nothing.
LEMMA SameCopies ==
    ASSUME NEW S, NEW f, NEW g, \A y \in S : g[y] = f[y]
    PROVE  Copies(S, g) = Copies(S, f)
BY DEF Copies

LEMMA NoCopies ==
    ASSUME NEW S, NEW f, \A y \in S : f[y] = 0
    PROVE  Cardinality(Copies(S, f)) = 0
<1>1. Copies(S, f) = {}
  BY DEF Copies
<1> QED
  BY <1>1, FS_EmptySet


\* A subset is no larger; one element more makes it at most one larger, and a
\* subset without a certain element is smaller.
LEMMA CardBounds ==
    ASSUME NEW S, IsFiniteSet(S), NEW T, NEW x
    PROVE  /\ Cardinality(S) \in Nat
           /\ T \subseteq S => IsFiniteSet(T) /\ Cardinality(T) \in Nat /\ Cardinality(T) <= Cardinality(S)
           /\ T \subseteq S \cup {x} =>
                IsFiniteSet(T) /\ Cardinality(T) \in Nat /\ Cardinality(T) <= Cardinality(S) + 1
           /\ x \in S /\ T \subseteq S \ {x} =>
                IsFiniteSet(T) /\ Cardinality(T) \in Nat /\ Cardinality(T) + 1 <= Cardinality(S)
<1>1. Cardinality(S) \in Nat
  BY FS_CardinalityType
<1>2. T \subseteq S => IsFiniteSet(T) /\ Cardinality(T) \in Nat /\ Cardinality(T) <= Cardinality(S)
  BY FS_Subset, FS_CardinalityType
<1>3. ASSUME T \subseteq S \cup {x}
      PROVE  IsFiniteSet(T) /\ Cardinality(T) \in Nat /\ Cardinality(T) <= Cardinality(S) + 1
  <2>1. /\ IsFiniteSet(S \cup {x})
        /\ Cardinality(S \cup {x}) = Cardinality(S) \/ Cardinality(S \cup {x}) = Cardinality(S) + 1
    BY FS_AddElement
  <2>2. IsFiniteSet(T) /\ Cardinality(T) <= Cardinality(S \cup {x})
    BY <1>3, <2>1, FS_Subset
  <2>3. Cardinality(T) \in Nat
    BY <2>2, FS_CardinalityType
  <2> QED
    BY <1>1, <2>1, <2>2, <2>3
<1>4. ASSUME x \in S, T \subseteq S \ {x}
      PROVE  IsFiniteSet(T) /\ Cardinality(T) \in Nat /\ Cardinality(T) + 1 <= Cardinality(S)
  <2>1. IsFiniteSet(S \ {x}) /\ Cardinality(S \ {x}) = Cardinality(S) - 1
    BY <1>4, FS_RemoveElement
  <2>2. IsFiniteSet(T) /\ Cardinality(T) <= Cardinality(S \ {x})
    BY <1>4, <2>1, FS_Subset
  <2>3. Cardinality(T) \in Nat
    BY <2>2, FS_CardinalityType
  <2> QED
    BY <1>1, <2>1, <2>2, <2>3
<1> QED
  BY <1>1, <1>2, <1>3, <1>4

\* Positions are finitely many, so the transactions of a task are.
LEMMA SigFinite == IsFiniteSet(Sig)
<1>1. MaxHeight \in Int /\ 1 \in Int
  BY ConstantsAssumption
<1> QED
  BY <1>1, FS_Interval DEF Sig

LEMMA TransactionsNat ==
    ASSUME GraphTypeOK, NEW n \in Node
    PROVE  Transactions(n) \in Nat
<1>1. stored[n] \in [Sig -> Nat]
  BY DEF GraphTypeOK
<1> QED
  BY <1>1, SigFinite, CopiesFinite, FS_CardinalityType DEF Transactions

\* Nothing is stored by a handler, a job is not touched, and a task that is created
\* under its own id has no job yet.
LEMMA RequestCount ==
    ASSUME TypeOK, PricedInv, FreshInv, CountInv, NEW r \in Request,
           NewRequest(r) \/ RequestStep(r) \/ RequestFails(r) \/ DeleteMine(r),
           UNCHANGED <<collectorVars, keeperVars>>
    PROVE  CountInv'
<1>a. GraphTypeOK /\ KeeperTypeOK /\ UNCHANGED jobs
  BY DEF TypeOK, keeperVars
<1>b. UNCHANGED stored
  BY RequestFrame
<1> SUFFICES ASSUME NEW n \in Node, tasks'[n].id = n.by
             PROVE  tasks'[n].transferCount + Cardinality(Uncounted(n.by)') <= Transactions(n)'
  BY <1>a DEF CountInv, Uncounted
<1>1. Transactions(n)' = Transactions(n) /\ Uncounted(n.by)' = Uncounted(n.by)
  BY <1>a, <1>b DEF Transactions, Uncounted
<1>2. CASE ArmTasks(r)
  BY <1>a, <1>1, <1>2, ArmEffect DEF CountInv
<1>3. CASE CreateTasks(r)
  <2>1. CASE tasks'[n] = tasks[n]
    BY <1>1, <2>1 DEF CountInv
  <2>2. CASE tasks'[n] # tasks[n]
    <3>1. n.by = r /\ tasks'[n].transferCount = 0
      BY <1>3, <2>2 DEF CreateTasks
    <3>2. Unused(r)
      BY <1>3 DEF CreateTasks, FreshInv, BeforeSend
    <3>3. Uncounted(r) = {}
      BY <1>a, <3>2 DEF Uncounted, Unused, Sent, PricedInv, JobIsReceived, KeeperTypeOK, Job, Delivery
    <3> QED
      BY <1>a, <1>1, <3>1, <3>3, FS_EmptySet, TransactionsNat
  <2> QED
    BY <2>1, <2>2
<1>4. CASE UNCHANGED tasks
  BY <1>1, <1>4 DEF CountInv
<1> QED
  BY <1>2, <1>3, <1>4, RequestFrame

\* A job counts after it has stored.
LEMMA QueryCount ==
    ASSUME TypeOK, CountInv, NEW j \in jobs, RunQuery(j)
    PROVE  CountInv'
<1>a. GraphTypeOK /\ j \in Job /\ IsFiniteSet(jobs)
  BY DEF TypeOK, KeeperTypeOK, CountInv
<1> DEFINE next == [j EXCEPT !.at = QueryAfter[j.at]]
<1>b. /\ jobs' = IF j.at = "end" THEN jobs \ {j} ELSE (jobs \ {j}) \cup {next}
      /\ next.dlv = j.dlv
      /\ j.at # "end" => next.at = QueryAfter[j.at]
  BY <1>a DEF RunQuery, Job, Query
<1> HIDE DEF next
<1>c. IsFiniteSet(jobs')
  <2>1. jobs' \subseteq jobs \cup {next}
    BY <1>b
  <2> QED
    BY <1>a, <2>1, CardBounds
<1> SUFFICES ASSUME NEW n \in Node, tasks'[n].id = n.by
             PROVE  tasks'[n].transferCount + Cardinality(Uncounted(n.by)') <= Transactions(n)'
  BY <1>c DEF CountInv
<1>1. tasks[n].id = n.by
  BY <1>a, QueryEffect
<1>2. IsFiniteSet(Uncounted(n.by)) /\ tasks[n].transferCount \in Nat
  <2>1. Uncounted(n.by) \subseteq jobs /\ tasks[n] \in Task
    BY <1>a DEF Uncounted, GraphTypeOK
  <2> QED
    BY <1>a, <2>1, FS_Subset DEF Task
<1>3. Transactions(n) \in Nat
  BY <1>a, TransactionsNat
<1>4. tasks[n].transferCount + Cardinality(Uncounted(n.by)) <= Transactions(n)
  BY <1>1 DEF CountInv
<1>5. stored[n] \in [Sig -> Nat] /\ stored'[n] \in [Sig -> Nat]
  BY <1>a, QueryEffect DEF GraphTypeOK
<1>6. CASE j.at = "store" /\ j.dlv.msg.tid = n.by
  <2>1. j.dlv.msg.sig \in Sig
    BY <1>a DEF Job, Delivery, Message
  <2>2. Transactions(n)' = Transactions(n) + 1
    BY <1>a, <1>1, <1>5, <1>6, <2>1, SigFinite, OneMoreCopy, QueryEffect DEF Transactions
  <2>3. Uncounted(n.by)' \subseteq Uncounted(n.by) \cup {next}
    BY <1>b DEF Uncounted
  <2>4. tasks'[n].transferCount = tasks[n].transferCount
    BY <1>a, <1>6, QueryEffect
  <2> QED
    BY <1>2, <1>3, <1>4, <2>2, <2>3, <2>4, CardBounds
<1>7. CASE j.at = "count" /\ j.dlv.msg.tid = n.by
  <2>1. Transactions(n)' = Transactions(n)
    BY <1>a, <1>5, <1>7, SameCopies, QueryEffect DEF Transactions
  <2>2. j \in Uncounted(n.by) /\ Uncounted(n.by)' \subseteq Uncounted(n.by) \ {j}
    BY <1>b, <1>7 DEF Uncounted, QueryAfter
  <2>3. tasks'[n].transferCount \in {tasks[n].transferCount, tasks[n].transferCount + 1}
    BY <1>a, QueryEffect
  <2> QED
    BY <1>2, <1>3, <1>4, <2>1, <2>2, <2>3, CardBounds
<1>8. CASE j.at \in {"increment", "end"} \/ j.dlv.msg.tid # n.by
  <2>1. Transactions(n)' = Transactions(n)
    BY <1>a, <1>1, <1>5, <1>8, SameCopies, QueryEffect DEF Transactions
  <2>2. Uncounted(n.by)' \subseteq Uncounted(n.by)
    BY <1>b, <1>8 DEF Uncounted, QueryAfter
  <2>3. tasks'[n].transferCount = tasks[n].transferCount
    BY <1>a, <1>1, <1>8, QueryEffect
  <2> QED
    BY <1>2, <1>3, <1>4, <2>1, <2>2, <2>3, CardBounds
<1> QED
  BY <1>a, <1>6, <1>7, <1>8 DEF Job, Query

\* The rest of what a keeper does only adds jobs that have stored nothing, or drops jobs.
LEMMA KeeperCount ==
    ASSUME TypeOK, CountInv,
           KeeperStep \/ (\E j \in jobs : JobFails(j)) \/ (\E k \in Keepers : KeeperCrash(k))
    PROVE  CountInv'
<1>1. CASE \E j \in jobs : RunQuery(j)
  BY <1>1, QueryCount
<1>2. CASE (\E k \in Keepers : TakeDelivery(k)) \/ (\E j \in jobs : JobFails(j)) \/ (\E k \in Keepers : KeeperCrash(k))
  <2>1. PICK new : jobs' \subseteq jobs \cup {new} /\ (new \in jobs' \ jobs => new.at \in {"store", "increment"})
    <3>1. CASE \E k \in Keepers : TakeDelivery(k)
      <4>1. PICK k \in Keepers, d \in queryTopic :
                   jobs' = jobs \cup {[dlv |-> d, keeper |-> k, at |-> FirstQuery(d)]}
        BY <3>1 DEF TakeDelivery
      <4> QED
        BY <4>1 DEF FirstQuery
    <3>2. CASE (\E j \in jobs : JobFails(j)) \/ (\E k \in Keepers : KeeperCrash(k))
      BY <3>2 DEF JobFails, KeeperCrash
    <3> QED
      BY <1>2, <3>1, <3>2
  <2>2. UNCHANGED <<tasks, stored>>
    BY <1>2 DEF TakeDelivery, JobFails, KeeperCrash, graphVars
  <2>3. IsFiniteSet(jobs) /\ IsFiniteSet(jobs')
    BY <2>1, CardBounds DEF CountInv
  <2>4. ASSUME NEW n \in Node, tasks[n].id = n.by
        PROVE  tasks[n].transferCount + Cardinality(Uncounted(n.by)') <= Transactions(n)
    <3>1. Uncounted(n.by) \subseteq jobs /\ Uncounted(n.by)' \subseteq Uncounted(n.by)
      BY <2>1 DEF Uncounted
    <3>2. IsFiniteSet(Uncounted(n.by))
      BY <2>3, <3>1, FS_Subset
    <3>3. /\ Cardinality(Uncounted(n.by)') \in Nat /\ Cardinality(Uncounted(n.by)) \in Nat
          /\ Cardinality(Uncounted(n.by)') <= Cardinality(Uncounted(n.by))
      BY <3>1, <3>2, CardBounds
    <3>4. tasks[n].transferCount \in Nat /\ Transactions(n) \in Nat
      <4>1. tasks[n] \in Task /\ GraphTypeOK
        BY DEF TypeOK, GraphTypeOK
      <4> QED
        BY <4>1, TransactionsNat DEF Task
    <3> QED
      BY <2>4, <3>3, <3>4 DEF CountInv
  <2> QED
    BY <2>2, <2>3, <2>4 DEF CountInv, Transactions
<1> QED
  BY <1>1, <1>2 DEF KeeperStep

LEMMA InitCount == Init => FreshInv /\ CountInv
<1> SUFFICES ASSUME Init PROVE FreshInv /\ CountInv
  OBVIOUS
<1>1. /\ \A n \in Node : tasks[n].id = None
      /\ \A q \in Request : req[q].tid = q
      /\ signatureTopic = {} /\ queryTopic = {} /\ jobs = {}
      /\ \A c \in Collectors : fetched[c] = {}
      /\ \A k \in Keepers : received[k] = {}
  BY DEF Init, GraphInit, ReqInit, CollectorInit, KeeperInit, NoTask
<1>2. FreshInv
  BY <1>1, ConstantsAssumption DEF FreshInv, Unused, Sent
<1>3. CountInv
  BY <1>1, ConstantsAssumption, FS_EmptySet DEF CountInv, Node
<1> QED
  BY <1>2, <1>3

LEMMA StepCount == TypeOK /\ PricedInv /\ FreshInv /\ CountInv /\ [Next]_vars => FreshInv' /\ CountInv'
<1> SUFFICES ASSUME TypeOK, PricedInv, FreshInv, CountInv, [Next]_vars PROVE FreshInv' /\ CountInv'
  OBVIOUS
<1>1. CASE \E r \in Request : /\ RequestStep(r) \/ NewRequest(r) \/ DeleteMine(r) \/ RequestFails(r)
                              /\ UNCHANGED <<collectorVars, keeperVars>>
  BY <1>1, RequestFresh, RequestCount
<1>2. CASE \E c \in Collectors : /\ CollectorStep(c) \/ TryFails(c) \/ CollectorCrash(c)
                                 /\ UNCHANGED <<req, keeperVars>>
  <2>1. UNCHANGED <<tasks, stored, jobs>>
    BY <1>2 DEF CollectorStep, TakeMessage, CollectQueries, PriceThrows, CatchQueries, TryFails,
                CollectorCrash, graphVars, keeperVars
  <2> QED
    BY <1>2, <2>1, CollectorSent, ServiceFresh DEF PricedInv, CountInv, Uncounted, Transactions
<1>3. CASE /\ KeeperStep \/ (\E j \in jobs : JobFails(j)) \/ (\E k \in Keepers : KeeperCrash(k))
           /\ UNCHANGED <<req, collectorVars>>
  BY <1>3, KeeperSent, KeeperKeepsIds, ServiceFresh, KeeperCount
<1>4. CASE Environment \/ UNCHANGED vars
  BY <1>4 DEF Environment, Grow, FetchPrices, vars, graphVars, collectorVars, keeperVars,
              FreshInv, Unused, Sent, CountInv, Uncounted, Transactions
<1> QED
  BY <1>1, <1>2, <1>3, <1>4 DEF Next, Services, Clients, Failures

\* transferCount never runs ahead of the transactions on the task, whatever overlaps,
\* crashes or comes again: the job that counts a transfer has stored it, and a
\* task is created before the first job that has its id.
THEOREM TransfersCountedWereStored == Spec => []CountedWereStored
<1>1. TypeOK /\ CountInv => CountedWereStored
  <2> SUFFICES ASSUME TypeOK, CountInv, NEW n \in Node, tasks[n].id = n.by
               PROVE  tasks[n].transferCount <= Transactions(n)
    BY DEF CountedWereStored
  <2>1. GraphTypeOK /\ tasks[n] \in Task
    BY DEF TypeOK, GraphTypeOK
  <2>2. Cardinality(Uncounted(n.by)) \in Nat
    BY CardBounds DEF Uncounted, CountInv
  <2> QED
    BY <2>1, <2>2, TransactionsNat DEF CountInv, Task
<1> QED
  BY <1>1, InitCount, StepCount, InitPriced, StepPriced, TypeCorrect, PTL DEF Spec
=============================================================================
