---------------------------- MODULE SerialProofs ----------------------------
(***************************************************************************)
(* A client that waits for its answers sends one signature once for a      *)
(* task, however often it repeats a sync, and each message is handled once *)
(* if no collector or keeper fails: no transaction is stored twice.        *)
(***************************************************************************)
EXTENDS SyncPipelineProofs

\* The task of the account that request r created.
TaskOf(r) == [by |-> r, acc |-> r]

\* At most one request is running, and the user has at most one account.
OneLive == \A q, r \in Request : Live(q) /\ Live(r) => q = r
OneAccount == \A a, b \in accounts : a = b

\* What a running request can rely on between its awaits.
RequestOK(r) ==
    /\ req[r].pc \in {"new", "check", "insert", "mine", "recheck", "list", "read"} =>
         req[r].tid = r /\ req[r].known = {}
    /\ req[r].pc = "arm" => req[r].tid = r
    /\ req[r].pc = "check" => req[r].goal = "sync"
    /\ req[r].pc \in {"check", "insert"} => accounts = {}
    /\ req[r].pc \in {"insert", "mine"} => req[r].goal \in {"create", "sync"}
    /\ req[r].pc = "mine" => accounts = {r}
    /\ req[r].pc = "recheck" => req[r].goal = "resync"
    /\ req[r].pc \in {"list", "read", "arm", "send"} => req[r].goal \in {"sync", "resync"}
    /\ req[r].pc = "create" => req[r].goal = "sync"
    /\ req[r].pc \in {"list", "read", "arm", "create", "send"} /\ req[r].goal = "sync" =>
         accounts = {r} /\ req[r].known = {} /\ req[r].tid = r

RequestsOK == OneLive /\ OneAccount /\ \A r \in Request : RequestOK(r)

\* A task belongs to the account its request created.
OwnTasks ==
    \A n \in Node : tasks[n].id # None =>
        /\ n = TaskOf(n.by) /\ tasks[n].id = n.by
        /\ req[n.by].goal = "sync" /\ req[n.by].pc \in {"send", "done", "failed"}

\* What the request has read of the task it will arm, and the task it sends for.
ArmedOK(r) ==
    /\ req[r].pc = "arm" =>
         /\ Attached = {} => req[r].known = {}
         /\ \A n \in Attached : req[r].known = tasks[n].synced
    /\ req[r].pc = "send" =>
         /\ req[r].tid = r \/ tasks[TaskOf(req[r].tid)].id # None
         /\ \A n \in Node : tasks[n].id = req[r].tid => n \in Attached /\ tasks[n].synced = req[r].sigs

\* A message outlives its request, and its task is there or will never be.
SentInv ==
    \A m \in Sent : /\ req[m.req].pc \in {"done", "failed"}
                    /\ m.tid = m.req \/ tasks[TaskOf(m.tid)].id # None

SerialInv == RequestsOK /\ OwnTasks /\ (\A r \in Request : ArmedOK(r)) /\ SentInv

---------------------------------------------------------------------------
\* A request that is not running relies on nothing that others change.
LEMMA IdleRequestOK ==
    ASSUME NEW q \in Request, RequestOK(q), ~Live(q), req'[q] = req[q]
    PROVE  RequestOK(q)' /\ ~Live(q)' /\ ArmedOK(q)'
BY DEF RequestOK, ArmedOK, Live, Ended

\* The account has at most one task.
LEMMA AttachedOne ==
    ASSUME OneAccount, OwnTasks, NEW n \in Attached, NEW p \in Attached
    PROVE  n = p
BY DEF OneAccount, OwnTasks, Attached, TaskOf

\* A sync that has just created its account finds no task.
LEMMA NothingAttached ==
    ASSUME OwnTasks, NEW r \in Request, accounts = {r}, req[r].pc \in BeforeSend
    PROVE  Attached = {}
BY DEF OwnTasks, Attached, TaskOf, BeforeSend

\* A request that starts while none is running.
LEMMA NewRequestOK ==
    ASSUME TypeOK, RequestsOK, NEW r \in Request, NewRequest(r), Idle
    PROVE  /\ RequestsOK' /\ \A q \in Request : ArmedOK(q)'
           /\ \A q \in Request : req[q].pc # "new" => req'[q] = req[q]
<1>a. ReqTypeOK /\ UNCHANGED accounts
  BY DEF TypeOK, NewRequest, PostAccount, PostSync, PostResync, dbVars, graphVars
<1>b. req[r].pc = "new"
  BY DEF NewRequest, PostAccount, PostSync, PostResync
<1>1. \/ Moves(r, AfterCheck, "create")
      \/ accounts = {} /\ Moves(r, "check", "sync")
      \/ Moves(r, "recheck", "resync")
      \/ Moves(r, AfterRecheck, "resync")
  BY <1>a, NewRequestMoves DEF NewRequest
<1>2. \A q \in Request \ {r} : req'[q] = req[q]
  BY <1>1 DEF Moves, Becomes
<1>3. \A q \in Request \ {r} : RequestOK(q)' /\ ~Live(q)' /\ ArmedOK(q)'
  BY <1>2, IdleRequestOK DEF RequestsOK, Idle
<1>4. RequestOK(r)' /\ ArmedOK(r)'
  <2>1. req[r].tid = r /\ req[r].known = {}
    BY <1>b DEF RequestsOK, RequestOK
  <2> QED
    BY <1>1, <1>a, <2>1 DEF Moves, Becomes, Holds, RequestOK, ArmedOK, AfterCheck, AfterRecheck
<1> QED
  BY <1>a, <1>b, <1>2, <1>3, <1>4 DEF RequestsOK, OneLive, OneAccount

\* A step of the running request: how its locals and the account move on.
LEMMA RequestStepOK ==
    ASSUME TypeOK, RequestsOK, OwnTasks, NEW r \in Request, RequestStep(r) \/ RequestFails(r)
    PROVE  RequestOK(r)' /\ OneAccount'
<1> USE DEF Moves, Becomes, Holds
<1>a. ReqTypeOK /\ RequestOK(r) /\ OneAccount
  BY DEF TypeOK, RequestsOK
<1>1. CASE CheckAccount(r) \/ RecheckAccount(r)
  <2>1. Moves(r, AfterCheck, req[r].goal) \/ Moves(r, AfterRecheck, req[r].goal)
    BY <1>a, <1>1, RequestMoves
  <2> QED
    BY <1>a, <1>1, <2>1, RequestMoves DEF CheckAccount, RecheckAccount, RequestOK, AfterCheck, AfterRecheck,
                              dbVars, graphVars, OneAccount
<1>2. CASE InsertAccount(r)
  <2>1. Moves(r, "mine", req[r].goal) /\ accounts' = accounts \cup {r} /\ req[r].pc = "insert"
    BY <1>a, <1>2, RequestMoves DEF InsertAccount
  <2> QED
    BY <1>a, <2>1 DEF RequestOK, OneAccount
<1>3. CASE GetMine(r)
  <2>1. \/ Moves(r, "failed", req[r].goal)
        \/ Moves(r, "list", req[r].goal) /\ req[r].goal = "sync"
        \/ Moves(r, "done", req[r].goal)
    BY <1>a, <1>3, RequestMoves
  <2>2. req[r].pc = "mine" /\ UNCHANGED accounts
    BY <1>3 DEF GetMine, dbVars, graphVars
  <2> QED
    BY <1>a, <2>1, <2>2 DEF RequestOK, OneAccount
<1>4. CASE ListSignatures(r)
  <2>1. /\ Becomes(r, "read", req[r].goal, Listed, req[r].known, req[r].tid)
        /\ req[r].pc = "list" /\ UNCHANGED accounts
    BY <1>a, <1>4, RequestMoves DEF ListSignatures, dbVars, graphVars
  <2> QED
    BY <1>a, <2>1 DEF RequestOK, OneAccount
<1>5. CASE ReadTask(r)
  <2>1. req[r].pc = "read" /\ UNCHANGED accounts
    BY <1>5 DEF ReadTask, dbVars, graphVars
  <2>2. req[r].goal = "sync" => Attached = {}
    BY <1>a, <2>1, NothingAttached DEF RequestOK, BeforeSend
  <2>3. \/ Attached = {} /\ Moves(r, "arm", req[r].goal)
        \/ Moves(r, "refused", req[r].goal)
        \/ \E n \in Attached : Becomes(r, "arm", req[r].goal, req[r].sigs, tasks[n].synced, req[r].tid)
    BY <1>a, <1>5, RequestMoves
  <2> QED
    BY <1>a, <2>1, <2>2, <2>3 DEF RequestOK, OneAccount
<1>6. CASE ArmTasks(r)
  <2>1. req[r].pc = "arm" /\ UNCHANGED accounts
    BY <1>6 DEF ArmTasks
  <2>2. req[r].goal = "sync" => Attached = {}
    BY <1>a, <2>1, NothingAttached DEF RequestOK, BeforeSend
  <2>3. PICK t \in IF Attached = {} THEN {req[r].tid} ELSE {tasks[n].id : n \in Attached} :
               Becomes(r, IF req[r].goal = "resync" THEN "send" ELSE "create", req[r].goal,
                       req[r].sigs, req[r].known, t)
    BY <1>a, <1>6, RequestMoves
  <2> QED
    BY <1>a, <2>1, <2>2, <2>3 DEF RequestOK, OneAccount
<1>7. CASE CreateTasks(r)
  <2>1. Moves(r, "send", req[r].goal) /\ req[r].pc = "create" /\ UNCHANGED accounts
    BY <1>a, <1>7, RequestMoves DEF CreateTasks
  <2> QED
    BY <1>a, <2>1 DEF RequestOK, OneAccount
<1>8. CASE SendMessages(r) \/ RequestFails(r)
  <2>1. Moves(r, "done", req[r].goal) \/ Moves(r, "failed", req[r].goal)
    BY <1>a, <1>8, RequestMoves
  <2>2. UNCHANGED accounts
    BY <1>8 DEF SendMessages, RequestFails, graphVars
  <2> QED
    BY <1>a, <2>1, <2>2 DEF RequestOK, OneAccount
<1> QED
  BY <1>1, <1>2, <1>3, <1>4, <1>5, <1>6, <1>7, <1>8 DEF RequestStep

\* The others wait meanwhile.
LEMMA RunsAlone ==
    ASSUME TypeOK, RequestsOK, NEW r \in Request, RequestStep(r) \/ RequestFails(r)
    PROVE  /\ Live(r)
           /\ \A q \in Request \ {r} : ~Live(q) /\ req'[q] = req[q]
<1>1. Live(r)
  BY DEF RequestStep, RequestFails, CheckAccount, InsertAccount, GetMine, RecheckAccount,
         ListSignatures, ReadTask, ArmTasks, CreateTasks, SendMessages, Live, Ended
<1>2. \A q \in Request \ {r} : req'[q] = req[q]
  BY RequestMoves DEF TypeOK, RequestStep, Moves, Becomes
<1> QED
  BY <1>1, <1>2 DEF RequestsOK, OneLive

LEMMA RequestsStepOK ==
    ASSUME TypeOK, RequestsOK, OwnTasks, NEW r \in Request, RequestStep(r) \/ RequestFails(r)
    PROVE  RequestsOK'
<1>1. \A q \in Request \ {r} : RequestOK(q)' /\ ~Live(q)'
  BY RunsAlone, IdleRequestOK DEF RequestsOK
<1> QED
  BY <1>1, RequestStepOK DEF RequestsOK, OneLive

\* Tasks come into being with the account's request and keep their ids.
LEMMA OwnTasksStep ==
    ASSUME TypeOK, RequestsOK, OwnTasks, NEW r \in Request, RequestStep(r) \/ RequestFails(r)
    PROVE  OwnTasks' /\ \A n \in Node : tasks[n].id # None => tasks'[n].id # None
<1>a. GraphTypeOK /\ ReqTypeOK /\ RequestOK(r)
  BY DEF TypeOK, RequestsOK
<1>b. \A q \in Request \ {r} : req'[q] = req[q]
  BY RunsAlone
<1>c. req[r].pc \in {"send", "done", "failed"} =>
        req'[r].pc \in {"send", "done", "failed"} /\ req'[r].goal = req[r].goal
  <2>1. CASE SendMessages(r) \/ RequestFails(r)
    BY <1>a, <2>1, RequestMoves DEF Moves, Becomes, Holds
  <2>2. CASE RequestStep(r) /\ ~SendMessages(r)
    BY <2>2 DEF RequestStep, CheckAccount, InsertAccount, GetMine, RecheckAccount, ListSignatures,
                ReadTask, ArmTasks, CreateTasks
  <2> QED
    BY <2>1, <2>2
<1>1. CASE \A n \in Node : tasks'[n].id = tasks[n].id
  BY <1>1, <1>b, <1>c DEF OwnTasks, Node
<1>2. CASE CreateTasks(r)
  <2>1. req[r].pc = "create" /\ accounts = {r} /\ req[r].tid = r
    BY <1>2, <1>a DEF CreateTasks, RequestOK
  <2>2. req'[r].pc = "send" /\ req'[r].goal = "sync"
    BY <1>2, <1>a, RequestMoves DEF Moves, Becomes, Holds, CreateTasks, RequestOK
  <2>3. ASSUME NEW n \in Node
        PROVE  tasks'[n] = tasks[n] \/ (n = TaskOf(r) /\ n.by = r /\ tasks'[n].id = r)
    BY <1>2, <2>1 DEF CreateTasks, Node, TaskOf
  <2>4. r # None
    BY ConstantsAssumption
  <2> QED
    BY <1>b, <1>c, <2>2, <2>3, <2>4 DEF OwnTasks, Node
<1>3. CASE ArmTasks(r)
  BY <1>1, <1>3, <1>a, ArmEffect
<1> QED
  BY <1>1, <1>2, <1>3, RequestFrame

\* What is read of the task stays true until it is armed, and then until the send.
LEMMA ArmedStepOK ==
    ASSUME TypeOK, SerialInv, NEW r \in Request, RequestStep(r) \/ RequestFails(r)
    PROVE  \A q \in Request : ArmedOK(q)'
<1> USE DEF Moves, Becomes, Holds
<1>a. GraphTypeOK /\ ReqTypeOK /\ RequestOK(r) /\ ArmedOK(r) /\ RequestsOK /\ OneAccount /\ OwnTasks
  BY DEF TypeOK, SerialInv, RequestsOK
<1>1. \A q \in Request \ {r} : ArmedOK(q)'
  BY <1>a, RunsAlone, IdleRequestOK DEF RequestsOK
<1>2. CASE ReadTask(r)
  <2>1. UNCHANGED <<accounts, tasks>> /\ req[r].known = {}
    BY <1>2, <1>a DEF ReadTask, RequestOK, dbVars, graphVars
  <2>2. Attached' = Attached
    BY <2>1 DEF Attached
  <2>3. \/ Attached = {} /\ Moves(r, "arm", req[r].goal)
        \/ Moves(r, "refused", req[r].goal)
        \/ \E n \in Attached : Becomes(r, "arm", req[r].goal, req[r].sigs, tasks[n].synced, req[r].tid)
    BY <1>a, <1>2, RequestMoves
  <2>4. ArmedOK(r)'
    BY <1>a, <2>1, <2>2, <2>3, AttachedOne DEF ArmedOK
  <2> QED
    BY <1>1, <2>4
<1>3. CASE ArmTasks(r)
  <2>1. req[r].pc = "arm" /\ req[r].tid = r /\ UNCHANGED accounts
    BY <1>3, <1>a DEF ArmTasks, RequestOK
  <2>2. PICK t \in IF Attached = {} THEN {req[r].tid} ELSE {tasks[n].id : n \in Attached} :
               Becomes(r, IF req[r].goal = "resync" THEN "send" ELSE "create", req[r].goal,
                       req[r].sigs, req[r].known, t)
    BY <1>a, <1>3, RequestMoves
  <2>3. \A n \in Node : /\ tasks'[n].id = tasks[n].id
                        /\ n \in Attached => tasks'[n].synced = req[r].sigs
    BY <1>a, <1>3, ArmEffect
  <2>4. Attached' = Attached
    BY <2>1, <2>3 DEF Attached
  <2>5. CASE req[r].goal # "resync"
    BY <1>1, <2>2, <2>5 DEF ArmedOK
  <2>6. CASE req[r].goal = "resync"
    <3>1. \A n \in Node : tasks[n].id = r => FALSE
      BY <1>a, <2>1, <2>6, ConstantsAssumption DEF OwnTasks
    <3>2. CASE Attached = {}
      BY <1>1, <2>1, <2>2, <2>3, <3>1, <3>2 DEF ArmedOK
    <3>3. ASSUME NEW n \in Attached, t = tasks[n].id
          PROVE  ArmedOK(r)'
      <4>1. n \in Node /\ n = TaskOf(t) /\ t # None /\ t \in Request
        BY <1>a, <3>3 DEF OwnTasks, Attached, Node
      <4>2. \A p \in Node : tasks[p].id = t => p = n
        BY <1>a, <4>1 DEF OwnTasks
      <4> QED
        BY <2>2, <2>3, <2>4, <2>6, <3>3, <4>1, <4>2 DEF ArmedOK
    <3> QED
      BY <1>1, <2>2, <3>2, <3>3
  <2> QED
    BY <2>5, <2>6
<1>4. CASE CreateTasks(r)
  <2>1. req[r].pc = "create" /\ req[r].tid = r /\ accounts = {r} /\ UNCHANGED accounts
    BY <1>4, <1>a DEF CreateTasks, RequestOK
  <2>2. Moves(r, "send", req[r].goal)
    BY <1>a, <1>4, RequestMoves
  <2>3. \A n \in Node : tasks[n].id # r
    BY <1>a, <2>1, ConstantsAssumption DEF OwnTasks
  <2>4. ASSUME NEW n \in Node, tasks'[n].id = r
        PROVE  n.acc = r /\ tasks'[n].synced = req[r].sigs
    BY <1>4, <2>1, <2>3, <2>4 DEF CreateTasks
  <2>5. ArmedOK(r)'
    BY <2>1, <2>2, <2>4, ConstantsAssumption DEF ArmedOK, Attached
  <2> QED
    BY <1>1, <2>5
<1>5. CASE CheckAccount(r) \/ InsertAccount(r) \/ GetMine(r) \/ RecheckAccount(r)
           \/ ListSignatures(r) \/ SendMessages(r) \/ RequestFails(r)
  <2>1. req'[r].pc \notin {"arm", "send"}
    BY <1>a, <1>5, RequestMoves DEF AfterCheck, AfterRecheck
  <2> QED
    BY <1>1, <2>1 DEF ArmedOK
<1> QED
  BY <1>2, <1>3, <1>4, <1>5 DEF RequestStep

\* A message is sent by the last step of its request.
LEMMA SentStepOK ==
    ASSUME TypeOK, SerialInv, NEW r \in Request, RequestStep(r) \/ RequestFails(r),
           UNCHANGED <<collectorVars, keeperVars>>
    PROVE  SentInv'
<1>a. ReqTypeOK /\ RequestsOK /\ OwnTasks /\ ArmedOK(r)
  BY DEF TypeOK, SerialInv
<1>1. \A n \in Node : tasks[n].id # None => tasks'[n].id # None
  BY <1>a, OwnTasksStep
<1>2. \A m \in Message : TaskOf(m.tid) \in Node
  BY DEF TaskOf, Node, Message
<1>3. ASSUME NEW m \in Sent
      PROVE  /\ req'[m.req].pc \in {"done", "failed"}
             /\ m.tid = m.req \/ tasks'[TaskOf(m.tid)].id # None
  <2>1. m.req \in Request /\ ~Live(m.req) /\ Live(r)
    BY <1>a, RunsAlone DEF SerialInv, SentInv, Sent, Message, Live, Ended
  <2>2. req'[m.req] = req[m.req]
    BY <1>a, <2>1, RunsAlone
  <2> QED
    BY <1>1, <1>2, <2>2 DEF SerialInv, SentInv, Sent
<1>4. ASSUME NEW m \in Sent' \ Sent
      PROVE  /\ req'[m.req].pc \in {"done", "failed"}
             /\ m.tid = m.req \/ tasks'[TaskOf(m.tid)].id # None
  <2>1. m.req = r /\ m.tid = req[r].tid /\ m \in Message
    BY <1>4, RequestSent DEF MessagesOf, Sent
  <2>2. req'[r].pc \in {"done", "failed"}
    BY <1>a, <1>4, RequestMoves, RequestSent DEF Moves, Becomes, Holds
  <2>3. req[r].tid = r \/ tasks[TaskOf(req[r].tid)].id # None
    BY <1>a, <1>4, RequestSent DEF ArmedOK
  <2> QED
    BY <1>1, <1>2, <2>1, <2>2, <2>3
<1> QED
  BY <1>3, <1>4 DEF SentInv

\* The services, the chain and the price feed take nothing of this away.
LEMMA ServiceSerial ==
    ASSUME TypeOK, SerialInv, UNCHANGED <<accounts, req>>, Sent' \subseteq Sent,
           \A n \in Node : tasks'[n].id = tasks[n].id /\ tasks'[n].synced = tasks[n].synced
    PROVE  SerialInv'
<1>1. Attached' = Attached
  BY DEF Attached
<1>2. RequestsOK'
  BY DEF SerialInv, RequestsOK, OneLive, OneAccount, RequestOK, Live
<1>3. OwnTasks'
  BY DEF SerialInv, OwnTasks
<1>4. ASSUME NEW r \in Request PROVE ArmedOK(r)'
  <2>1. TaskOf(req[r].tid) \in Node
    BY DEF TypeOK, ReqTypeOK, ReqRecord, TaskOf, Node
  <2>2. /\ ArmedOK(r) /\ Attached \subseteq Node
        /\ tasks'[TaskOf(req[r].tid)].id = tasks[TaskOf(req[r].tid)].id
    BY <2>1 DEF SerialInv, Attached
  <2>3. req[r].pc = "arm" => \A n \in Attached : req[r].known = tasks'[n].synced
    BY <2>2 DEF ArmedOK
  <2>4. req[r].pc = "send" =>
          /\ req[r].tid = r \/ tasks'[TaskOf(req[r].tid)].id # None
          /\ \A n \in Node : tasks'[n].id = req[r].tid => n \in Attached /\ tasks'[n].synced = req[r].sigs
    BY <2>2 DEF ArmedOK
  <2> QED
    BY <1>1, <2>2, <2>3, <2>4 DEF ArmedOK
<1>5. SentInv'
  <2>1. \A m \in Sent : TaskOf(m.tid) \in Node
    BY DEF Sent, Message, TaskOf, Node
  <2> QED
    BY <2>1 DEF SerialInv, SentInv
<1> QED
  BY <1>2, <1>3, <1>4, <1>5 DEF SerialInv

\* A new request, or the deletion of the account, finds nobody running.
LEMMA ClientSerial ==
    ASSUME TypeOK, SerialInv, FreshInv, Idle, Clients
    PROVE  SerialInv'
<1>1. PICK r \in Request : NewRequest(r) \/ DeleteMine(r)
  BY DEF Clients
<1>2. UNCHANGED tasks /\ Sent' = Sent
  <2>1. UNCHANGED <<collectorVars, keeperVars>>
    BY DEF Clients
  <2>2. UNCHANGED <<tasks, signatureTopic, queryTopic>>
    BY <1>1 DEF NewRequest, PostAccount, PostSync, PostResync, DeleteMine, dbVars, graphVars
  <2> QED
    BY <2>1, <2>2 DEF Sent, collectorVars, keeperVars
<1>3. CASE NewRequest(r)
  <2>1. RequestsOK' /\ (\A q \in Request : ArmedOK(q)') /\ \A q \in Request : req[q].pc # "new" => req'[q] = req[q]
    BY <1>3, NewRequestOK DEF SerialInv
  <2>2. OwnTasks'
    BY <1>2, <2>1 DEF SerialInv, OwnTasks, Node
  <2>3. SentInv'
    BY <1>2, <2>1 DEF SerialInv, SentInv, Sent, Message
  <2> QED
    BY <2>1, <2>2, <2>3 DEF SerialInv
<1>4. CASE DeleteMine(r)
  <2>1. accounts' \subseteq accounts /\ UNCHANGED req
    BY <1>4 DEF DeleteMine
  <2>2. \A q \in Request : RequestOK(q)' /\ ~Live(q)' /\ ArmedOK(q)'
    BY <2>1, IdleRequestOK DEF Idle, SerialInv, RequestsOK
  <2>3. RequestsOK'
    BY <2>1, <2>2 DEF SerialInv, RequestsOK, OneLive, OneAccount
  <2> QED
    BY <1>2, <2>1, <2>2, <2>3 DEF SerialInv, OwnTasks, SentInv
<1> QED
  BY <1>1, <1>3, <1>4

\* What the collectors, the keepers, the chain and the price feed do to the graph.
LEMMA ServiceFrame ==
    ASSUME TypeOK, HeldIsFetched,
           \/ \E c \in Collectors : /\ CollectorStep(c) \/ TryFails(c) \/ CollectorCrash(c)
                                    /\ UNCHANGED <<req, keeperVars>>
           \/ /\ KeeperStep \/ (\E j \in jobs : JobFails(j)) \/ (\E k \in Keepers : KeeperCrash(k))
              /\ UNCHANGED <<req, collectorVars>>
           \/ Environment \/ UNCHANGED vars
    PROVE  /\ UNCHANGED <<accounts, req>> /\ Sent' \subseteq Sent
           /\ \A n \in Node : tasks'[n].id = tasks[n].id /\ tasks'[n].synced = tasks[n].synced
<1>1. CASE \E c \in Collectors : /\ CollectorStep(c) \/ TryFails(c) \/ CollectorCrash(c)
                                 /\ UNCHANGED <<req, keeperVars>>
  <2>1. UNCHANGED graphVars
    BY <1>1 DEF CollectorStep, TakeMessage, CollectQueries, PriceThrows, CatchQueries, TryFails,
                CollectorCrash
  <2> QED
    BY <1>1, <2>1, CollectorSent DEF graphVars
<1>2. CASE /\ KeeperStep \/ (\E j \in jobs : JobFails(j)) \/ (\E k \in Keepers : KeeperCrash(k))
           /\ UNCHANGED <<req, collectorVars>>
  <2>1. CASE \E j \in jobs : RunQuery(j)
    <3>1. \A n \in Node : tasks'[n].id = tasks[n].id /\ tasks'[n].synced = tasks[n].synced
      BY <2>1, QueryEffect DEF TypeOK
    <3>2. UNCHANGED accounts
      BY <2>1 DEF RunQuery, StoreTransaction, CountTransfer, IncrementTask, EndOfTask
    <3> QED
      BY <1>2, <3>1, <3>2, KeeperSent
  <2>2. CASE UNCHANGED graphVars
    BY <1>2, <2>2, KeeperSent DEF graphVars
  <2> QED
    BY <1>2, <2>1, <2>2 DEF KeeperStep, TakeDelivery, JobFails, KeeperCrash
<1>3. CASE Environment \/ UNCHANGED vars
  BY <1>3 DEF Environment, Grow, FetchPrices, vars, graphVars, collectorVars, keeperVars, Sent
<1> QED
  BY <1>1, <1>2, <1>3

\* The steps of a serial client's system, service by service.
LEMMA SerialSteps ==
    ASSUME [SerialNext]_vars
    PROVE  \/ Idle /\ Clients
           \/ \E r \in Request : /\ RequestStep(r) \/ RequestFails(r)
                                 /\ UNCHANGED <<collectorVars, keeperVars>>
           \/ \E c \in Collectors : /\ CollectorStep(c) \/ TryFails(c) \/ CollectorCrash(c)
                                    /\ UNCHANGED <<req, keeperVars>>
           \/ /\ KeeperStep \/ (\E j \in jobs : JobFails(j)) \/ (\E k \in Keepers : KeeperCrash(k))
              /\ UNCHANGED <<req, collectorVars>>
           \/ Environment \/ UNCHANGED vars
BY DEF SerialNext, Services, Failures

LEMMA StepSerial == TypeOK /\ PricedInv /\ FreshInv /\ SerialInv /\ [SerialNext]_vars => SerialInv'
<1> SUFFICES ASSUME TypeOK, PricedInv, FreshInv, SerialInv, [SerialNext]_vars PROVE SerialInv'
  OBVIOUS
<1>1. CASE Idle /\ Clients
  BY <1>1, ClientSerial
<1>2. ASSUME NEW r \in Request, RequestStep(r) \/ RequestFails(r), UNCHANGED <<collectorVars, keeperVars>>
      PROVE  SerialInv'
  BY <1>2, RequestsStepOK, OwnTasksStep, ArmedStepOK, SentStepOK DEF SerialInv
<1>3. CASE ~(Idle /\ Clients) /\ ~\E r \in Request : /\ RequestStep(r) \/ RequestFails(r)
                                                   /\ UNCHANGED <<collectorVars, keeperVars>>
  BY <1>3, SerialSteps, ServiceFrame, ServiceSerial DEF PricedInv
<1> QED
  BY <1>1, <1>2, <1>3

LEMMA InitSerial == Init => SerialInv
<1> SUFFICES ASSUME Init PROVE SerialInv
  OBVIOUS
<1>1. /\ accounts = {} /\ \A n \in Node : tasks[n].id = None
      /\ \A r \in Request : req[r].pc = "new" /\ req[r].tid = r /\ req[r].known = {}
      /\ Sent = {}
  BY DEF Init, GraphInit, ReqInit, CollectorInit, KeeperInit, NoTask, Sent
<1> QED
  BY <1>1 DEF SerialInv, RequestsOK, OneLive, OneAccount, RequestOK, OwnTasks, ArmedOK, SentInv, Live, Ended
---------------------------------------------------------------------------
(* The way of a message through the collectors and keepers.                 *)

\* The messages no collector has finished with, and the queries built for
\* messages as long as their job runs.
Uncollected ==
    {m \in Message : m \in signatureTopic \/ \E c \in Collectors : hand[c] # None /\ hand[c].msg = m}

Deliveries == {d \in Delivery : d \in queryTopic \/ \E j \in jobs : j.dlv = d}

\* A message waits in the topic or at one collector.
FetchedOnce ==
    \A c \in Collectors :
       /\ signatureTopic \cap fetched[c] = {}
       /\ \A x \in Collectors \ {c} : fetched[c] \cap fetched[x] = {}

\* Queries built again for a message get a number of their own.
CopiesApart == \A d \in Deliveries : d.copy <= faults /\ (d.msg \in Uncollected => d.copy < faults)

\* The queries of a delivery wait in the topic or run in one job.
JobsApart ==
    \A j \in jobs : j.dlv \notin queryTopic /\ \A i \in jobs : i.dlv = j.dlv => i = j

FlowInv == FetchedOnce /\ CopiesApart /\ JobsApart

\* What waits and runs was sent.
LEMMA FlowSent ==
    ASSUME TypeOK, PricedInv
    PROVE  /\ Uncollected \subseteq Sent /\ \A d \in Deliveries : d.msg \in Sent
           /\ signatureTopic \subseteq Sent /\ \A c \in Collectors : fetched[c] \subseteq Sent
           /\ queryTopic \subseteq Deliveries /\ \A j \in jobs : j.dlv \in Deliveries
<1>a. GraphTypeOK /\ CollectorTypeOK /\ KeeperTypeOK /\ HeldIsFetched /\ JobIsReceived
  BY DEF TypeOK, PricedInv
<1>1. Uncollected \subseteq Sent
  BY <1>a DEF Uncollected, Sent, HeldIsFetched
<1>2. queryTopic \subseteq Deliveries /\ \A j \in jobs : j.dlv \in Deliveries /\ j.keeper \in Keepers
  BY <1>a DEF Deliveries, GraphTypeOK, KeeperTypeOK, Job
<1>3. \A d \in Deliveries : d.msg \in Sent
  BY <1>a, <1>2 DEF Deliveries, Sent, JobIsReceived, Delivery
<1>4. signatureTopic \subseteq Sent /\ \A c \in Collectors : fetched[c] \subseteq Sent
  BY <1>a DEF Sent, GraphTypeOK, CollectorTypeOK
<1> QED
  BY <1>1, <1>2, <1>3, <1>4

\* The messages a request sends have not been sent before.
LEMMA NewMessages ==
    ASSUME SentInv, NEW r \in Request, req[r].pc = "send", NEW m \in MessagesOf(r)
    PROVE  m \notin Sent
BY DEF SentInv, MessagesOf

\* Sending adds new messages to the topic.
LEMMA RequestFlow ==
    ASSUME TypeOK, PricedInv, SentInv, FlowInv, NEW r \in Request,
           NewRequest(r) \/ RequestStep(r) \/ RequestFails(r) \/ DeleteMine(r),
           UNCHANGED <<collectorVars, keeperVars>>
    PROVE  FlowInv'
<1>a. UNCHANGED <<queryTopic, hand, fetched, jobs, received>>
  BY RequestFrame DEF collectorVars, keeperVars
<1>b. faults \in Nat /\ faults' \in {faults, faults + 1}
  <2>1. faults' = faults \/ faults' = faults + 1
    BY DEF NewRequest, PostAccount, PostSync, PostResync, DeleteMine, RequestStep, RequestFails, Fault,
           CheckAccount, InsertAccount, GetMine, RecheckAccount, ListSignatures, ReadTask, ArmTasks,
           CreateTasks, SendMessages
  <2> QED
    BY <2>1, ConstantsAssumption DEF TypeOK, GraphTypeOK
<1>1. \A m \in signatureTopic' \ signatureTopic : m \notin Sent
  BY RequestFrame, NewMessages
<1>2. Deliveries' = Deliveries /\ \A m \in Uncollected' \ Uncollected : m \notin Sent
  BY <1>a, <1>1 DEF Deliveries, Uncollected
<1>3. FetchedOnce'
  BY <1>a, <1>1, FlowSent DEF FetchedOnce, FlowInv
<1>4. CopiesApart'
  <2> SUFFICES ASSUME NEW d \in Deliveries
               PROVE  d.copy <= faults' /\ (d.msg \in Uncollected' => d.copy < faults')
    BY <1>2 DEF CopiesApart
  <2>1. d.copy \in Int /\ d.copy <= faults /\ (d.msg \in Uncollected => d.copy < faults)
    BY DEF FlowInv, CopiesApart, Deliveries, Delivery
  <2>2. d.msg \in Uncollected' => d.msg \in Uncollected
    BY <1>2, FlowSent
  <2> QED
    BY <1>b, <2>1, <2>2
<1>5. JobsApart'
  BY <1>a DEF JobsApart, FlowInv
<1> QED
  BY <1>3, <1>4, <1>5 DEF FlowInv

\* A collector publishes for the message it holds, with a number not used for it.
LEMMA CollectorFlow ==
    ASSUME TypeOK, PricedInv, FlowInv, NEW c \in Collectors,
           CollectorStep(c) \/ TryFails(c) \/ CollectorCrash(c), UNCHANGED <<req, keeperVars>>
    PROVE  FlowInv'
<1>a. /\ UNCHANGED jobs /\ CollectorTypeOK /\ GraphTypeOK /\ HeldIsFetched
      /\ FetchedOnce /\ CopiesApart /\ JobsApart /\ faults \in Nat
  BY ConstantsAssumption DEF TypeOK, PricedInv, FlowInv, keeperVars, GraphTypeOK
<1>b. \A d \in Deliveries : d.copy \in Int
  BY DEF Deliveries, Delivery
<1>1. CASE TakeMessage(c) \/ PriceThrows(c)
  <2>1. UNCHANGED <<queryTopic, faults>> /\ Deliveries' = Deliveries
    BY <1>a, <1>1 DEF TakeMessage, PriceThrows, Deliveries
  <2>2. CASE TakeMessage(c)
    <3>1. PICK m \in signatureTopic :
                 /\ signatureTopic' = signatureTopic \ {m} /\ fetched'[c] = fetched[c] \cup {m}
                 /\ \A x \in Collectors \ {c} : fetched'[x] = fetched[x] /\ hand'[x] = hand[x]
                 /\ hand'[c].msg = m
      BY <1>a, <2>2 DEF TakeMessage, CollectorTypeOK
    <3>2. Uncollected' \subseteq Uncollected
      BY <1>a, <3>1 DEF Uncollected, GraphTypeOK
    <3>3. FetchedOnce'
      BY <1>a, <3>1 DEF FetchedOnce
    <3> QED
      BY <1>a, <2>1, <3>2, <3>3 DEF FlowInv, CopiesApart, JobsApart
  <2>3. CASE PriceThrows(c)
    <3>1. UNCHANGED <<signatureTopic, fetched>> /\ \A x \in Collectors \ {c} : hand'[x] = hand[x]
      BY <1>a, <2>3 DEF PriceThrows, CollectorTypeOK
    <3>2. hand'[c].msg = hand[c].msg /\ hand[c] # None
      BY <1>a, <2>3 DEF PriceThrows, CollectorTypeOK, InHand
    <3>3. Uncollected' \subseteq Uncollected
      BY <3>1, <3>2 DEF Uncollected
    <3> QED
      BY <1>a, <2>1, <3>1, <3>3 DEF FlowInv, CopiesApart, JobsApart, FetchedOnce
  <2> QED
    BY <1>1, <2>2, <2>3
<1>2. CASE CollectQueries(c) \/ CatchQueries(c)
  <2>1. /\ UNCHANGED <<signatureTopic, fetched, faults>> /\ hand[c] # None /\ hand'[c] = None
        /\ \A x \in Collectors \ {c} : hand'[x] = hand[x]
    BY <1>a, <1>2 DEF CollectQueries, CatchQueries, CollectorTypeOK
  <2>2. PICK path : Publish(hand[c].msg, path)
    BY <1>2 DEF CollectQueries, CatchQueries
  <2>3. Uncollected' \subseteq Uncollected \ {hand[c].msg} /\ hand[c].msg \in Uncollected
    BY <1>a, <2>1 DEF Uncollected, FetchedOnce, HeldIsFetched, CollectorTypeOK, InHand
  <2> DEFINE new == [msg |-> hand[c].msg, path |-> path, copy |-> faults]
  <2>4. queryTopic' = queryTopic \cup {new} /\ Deliveries' \subseteq Deliveries \cup {new}
    BY <1>a, <2>2 DEF Publish, Deliveries
  <2>5. new.msg = hand[c].msg /\ new.copy = faults
    OBVIOUS
  <2> HIDE DEF new
  <2>6. new \notin Deliveries
    BY <1>a, <2>3, <2>5 DEF CopiesApart
  <2>7. CopiesApart'
    BY <1>a, <1>b, <2>1, <2>3, <2>4, <2>5 DEF CopiesApart
  <2>8. JobsApart'
    BY <1>a, <2>4, <2>6, FlowSent DEF JobsApart
  <2> QED
    BY <1>a, <2>1, <2>7, <2>8 DEF FlowInv, FetchedOnce
<1>3. CASE TryFails(c)
  <2>1. /\ UNCHANGED <<signatureTopic, fetched>> /\ hand[c] # None /\ faults' = faults + 1
        /\ \A x \in Collectors \ {c} : hand'[x] = hand[x]
    BY <1>a, <1>3 DEF TryFails, CollectorTypeOK, Fault
  <2>2. hand'[c].msg = hand[c].msg /\ hand[c].msg \in Message
    BY <1>a, <1>3 DEF TryFails, CollectorTypeOK, InHand
  <2>3. Uncollected' \subseteq Uncollected /\ hand[c].msg \in Uncollected
    BY <2>1, <2>2 DEF Uncollected
  <2>4. PICK path : queryTopic' = queryTopic \/ Publish(hand[c].msg, path)
    BY <1>3 DEF TryFails
  <2> DEFINE new == [msg |-> hand[c].msg, path |-> path, copy |-> faults]
  <2>5. queryTopic' \subseteq queryTopic \cup {new} /\ Deliveries' \subseteq Deliveries \cup {new}
    BY <1>a, <2>4 DEF Publish, Deliveries
  <2>6. new.msg = hand[c].msg /\ new.copy = faults
    OBVIOUS
  <2> HIDE DEF new
  <2>7. new \notin Deliveries
    BY <1>a, <2>3, <2>6 DEF CopiesApart
  <2>8. CopiesApart'
    BY <1>a, <1>b, <2>1, <2>3, <2>5, <2>6 DEF CopiesApart
  <2>9. JobsApart'
    BY <1>a, <2>5, <2>7, FlowSent DEF JobsApart
  <2> QED
    BY <1>a, <2>1, <2>8, <2>9 DEF FlowInv, FetchedOnce
<1>4. CASE CollectorCrash(c)
  <2>1. /\ UNCHANGED queryTopic /\ faults' = faults + 1 /\ fetched'[c] = {}
        /\ signatureTopic' \subseteq signatureTopic \cup fetched[c]
        /\ \A x \in Collectors \ {c} : fetched'[x] = fetched[x]
    BY <1>a, <1>4 DEF CollectorCrash, CollectorTypeOK, Fault
  <2>2. Deliveries' = Deliveries
    BY <1>a, <2>1 DEF Deliveries
  <2>3. CopiesApart'
    BY <1>a, <1>b, <2>1, <2>2 DEF CopiesApart
  <2>4. FetchedOnce'
    BY <1>a, <2>1 DEF FetchedOnce
  <2> QED
    BY <1>a, <2>1, <2>3, <2>4 DEF FlowInv, JobsApart
<1> QED
  BY <1>1, <1>2, <1>3, <1>4 DEF CollectorStep

\* A keeper that does not fail starts one job for a delivery and runs it to its end.
LEMMA KeeperFlow ==
    ASSUME TypeOK, PricedInv, FlowInv, KeeperStep, UNCHANGED <<req, collectorVars>>
    PROVE  /\ FlowInv' /\ Deliveries' \subseteq Deliveries /\ Uncollected' = Uncollected
           /\ UNCHANGED <<signatureTopic, faults>>
<1>a. /\ UNCHANGED <<signatureTopic, faults, hand, fetched>> /\ KeeperTypeOK /\ GraphTypeOK
      /\ FetchedOnce /\ CopiesApart /\ JobsApart
  BY DEF TypeOK, FlowInv, collectorVars, KeeperStep, TakeDelivery, RunQuery
<1>1. Deliveries' \subseteq Deliveries /\ JobsApart'
  <2>1. CASE \E k \in Keepers : TakeDelivery(k)
    <3>1. PICK k \in Keepers, d \in queryTopic :
                 /\ queryTopic' = queryTopic \ {d}
                 /\ jobs' = jobs \cup {[dlv |-> d, keeper |-> k, at |-> FirstQuery(d)]}
      BY <2>1 DEF TakeDelivery
    <3> QED
      BY <1>a, <3>1 DEF Deliveries, JobsApart
  <2>2. CASE \E j \in jobs : RunQuery(j)
    <3>1. PICK j \in jobs : RunQuery(j)
      BY <2>2
    <3> DEFINE next == [j EXCEPT !.at = QueryAfter[j.at]]
    <3>2. /\ jobs' = IF j.at = "end" THEN jobs \ {j} ELSE (jobs \ {j}) \cup {next}
          /\ next.dlv = j.dlv /\ UNCHANGED queryTopic
      BY <1>a, <3>1 DEF RunQuery, KeeperTypeOK, Job
    <3> HIDE DEF next
    <3> QED
      BY <1>a, <3>2 DEF Deliveries, JobsApart
  <2> QED
    BY <2>1, <2>2 DEF KeeperStep
<1>2. Uncollected' = Uncollected
  BY <1>a DEF Uncollected
<1> QED
  BY <1>a, <1>1, <1>2 DEF FlowInv, FetchedOnce, CopiesApart
---------------------------------------------------------------------------
(* Collectors and keepers that do not fail handle every message once.       *)

\* One set of queries is built for a message, and one message sent for a signature of a task.
OneDelivery ==
    \A d \in Deliveries : d.msg \notin Uncollected /\ \A e \in Deliveries : d.msg = e.msg => d = e

OneMessage == \A m, o \in Sent : m.tid = o.tid /\ m.sig = o.sig => m = o

\* The messages whose transaction may still be stored.
Unstored ==
    {m \in Message : \/ m \in Uncollected \/ \E d \in queryTopic : d.msg = m
                     \/ \E j \in jobs : j.at = "store" /\ j.dlv.msg = m}

StoredOnce ==
    /\ \A n \in Node, s \in Sig :
         /\ stored[n][s] <= 1
         /\ stored[n][s] > 0 => tasks[n].id # None /\ \E m \in Sent : m.tid = n.by /\ m.sig = s
    /\ \A m \in Unstored : stored[TaskOf(m.tid)][m.sig] = 0

OnceInv == OneDelivery /\ OneMessage /\ StoredOnce

\* No message was sent for what the request is about to send.
Unannounced(r) == \A m \in MessagesOf(r), o \in Sent : ~(o.tid = m.tid /\ o.sig = m.sig)

\* Collectors build one delivery for a message, without repeating it.
LEMMA CollectorOnce ==
    ASSUME TypeOK, PricedInv, FlowInv, OnceInv, NEW c \in Collectors, CollectorStep(c),
           UNCHANGED <<req, keeperVars>>
    PROVE  OnceInv'
<1>a. /\ UNCHANGED <<jobs, tasks, stored>> /\ CollectorTypeOK /\ GraphTypeOK /\ HeldIsFetched /\ FetchedOnce
      /\ OneDelivery /\ StoredOnce
  BY DEF TypeOK, PricedInv, FlowInv, OnceInv, keeperVars, graphVars, CollectorStep, TakeMessage,
         CollectQueries, PriceThrows, CatchQueries
<1>b. Sent' = Sent
  BY <1>a, CollectorSent DEF CollectorStep, CollectorCrash, TakeMessage, CollectQueries, PriceThrows,
                             CatchQueries, PricedInv, Sent, keeperVars, CollectorTypeOK, HeldIsFetched, Publish
<1>1. OneDelivery' /\ Unstored' \subseteq Unstored
  <2>1. CASE TakeMessage(c) \/ PriceThrows(c)
    <3>1. UNCHANGED queryTopic /\ Deliveries' = Deliveries
      BY <1>a, <2>1 DEF TakeMessage, PriceThrows, Deliveries
    <3>2. Uncollected' \subseteq Uncollected
      <4>1. CASE TakeMessage(c)
        <5>1. PICK m \in signatureTopic :
                     /\ signatureTopic' = signatureTopic \ {m} /\ hand'[c].msg = m
                     /\ \A x \in Collectors \ {c} : hand'[x] = hand[x]
          BY <1>a, <4>1 DEF TakeMessage, CollectorTypeOK
        <5> QED
          BY <1>a, <5>1 DEF Uncollected, GraphTypeOK
      <4>2. CASE PriceThrows(c)
        <5>1. /\ UNCHANGED signatureTopic /\ \A x \in Collectors \ {c} : hand'[x] = hand[x]
              /\ hand'[c].msg = hand[c].msg /\ hand[c] # None
          BY <1>a, <4>2 DEF PriceThrows, CollectorTypeOK, InHand
        <5> QED
          BY <5>1 DEF Uncollected
      <4> QED
        BY <2>1, <4>1, <4>2
    <3> QED
      BY <1>a, <3>1, <3>2 DEF OneDelivery, Unstored
  <2>2. CASE CollectQueries(c) \/ CatchQueries(c)
    <3>1. /\ UNCHANGED <<signatureTopic, fetched>> /\ hand[c] # None /\ hand'[c] = None
          /\ \A x \in Collectors \ {c} : hand'[x] = hand[x]
      BY <1>a, <2>2 DEF CollectQueries, CatchQueries, CollectorTypeOK
    <3>2. PICK path : Publish(hand[c].msg, path)
      BY <2>2 DEF CollectQueries, CatchQueries
    <3>3. Uncollected' \subseteq Uncollected \ {hand[c].msg} /\ hand[c].msg \in Uncollected
      BY <1>a, <3>1 DEF Uncollected, FetchedOnce, HeldIsFetched, CollectorTypeOK, InHand
    <3> DEFINE new == [msg |-> hand[c].msg, path |-> path, copy |-> faults]
    <3>4. /\ queryTopic' = queryTopic \cup {new} /\ Deliveries' \subseteq Deliveries \cup {new}
          /\ new.msg = hand[c].msg
      BY <1>a, <3>2 DEF Publish, Deliveries
    <3> HIDE DEF new
    <3>5. OneDelivery'
      BY <1>a, <3>3, <3>4 DEF OneDelivery
    <3>6. Unstored' \subseteq Unstored
      BY <1>a, <3>3, <3>4 DEF Unstored
    <3> QED
      BY <3>5, <3>6
  <2> QED
    BY <2>1, <2>2 DEF CollectorStep
<1> QED
  BY <1>a, <1>b, <1>1 DEF OnceInv, OneMessage, StoredOnce

\* A transaction is stored once, because its signature has one message and that one delivery.
LEMMA KeeperOnce ==
    ASSUME TypeOK, PricedInv, SerialInv, FlowInv, OnceInv, KeeperStep, UNCHANGED <<req, collectorVars>>
    PROVE  OnceInv'
<1>a. GraphTypeOK /\ KeeperTypeOK /\ JobIsReceived /\ OwnTasks /\ OneDelivery /\ OneMessage /\ StoredOnce
  BY DEF TypeOK, PricedInv, SerialInv, OnceInv
<1>b. Sent' = Sent
  BY <1>a, KeeperSent DEF KeeperStep, KeeperCrash, TakeDelivery, RunQuery, Sent, collectorVars,
                          KeeperTypeOK
<1>c. OneDelivery' /\ Uncollected' = Uncollected
  BY <1>a, KeeperFlow DEF OneDelivery
<1>1. CASE \E k \in Keepers : TakeDelivery(k)
  <2>1. PICK k \in Keepers, d \in queryTopic :
               /\ queryTopic' = queryTopic \ {d}
               /\ jobs' = jobs \cup {[dlv |-> d, keeper |-> k, at |-> FirstQuery(d)]}
    BY <1>1 DEF TakeDelivery
  <2>2. UNCHANGED <<tasks, stored>> /\ Unstored' \subseteq Unstored
    <3>1. UNCHANGED <<tasks, stored>>
      BY <1>1 DEF TakeDelivery, graphVars
    <3>2. Unstored' \subseteq Unstored
      BY <1>c, <2>1 DEF Unstored
    <3> QED
      BY <3>1, <3>2
  <2> QED
    BY <1>a, <1>b, <1>c, <2>2 DEF OnceInv, OneMessage, StoredOnce
<1>2. ASSUME NEW j \in jobs, RunQuery(j)
      PROVE  OnceInv'
  <2> DEFINE next == [j EXCEPT !.at = QueryAfter[j.at]]
             m == j.dlv.msg
  <2>1. /\ jobs' \subseteq (jobs \ {j}) \cup {next}
        /\ next.dlv = j.dlv /\ UNCHANGED queryTopic
        /\ next \in jobs' => next \in jobs \ {j} \/ next.at # "store"
    BY <1>a, <1>2 DEF RunQuery, KeeperTypeOK, Job, Query, QueryAfter
  <2>2. /\ m \in Sent /\ m \in Message /\ m.sig \in Sig /\ TaskOf(m.tid) \in Node
        /\ j.dlv \in Deliveries
    BY <1>a, FlowSent DEF KeeperTypeOK, Job, Delivery, Message, TaskOf, Node
  <2> HIDE DEF next
  <2>3. Unstored' \subseteq Unstored /\ (j.at = "store" => m \notin Unstored' /\ m \in Unstored)
    <3>1. Unstored' \subseteq Unstored
      BY <1>c, <2>1 DEF Unstored
    <3>2. ASSUME j.at = "store"
          PROVE  m \in Unstored /\ m \notin Uncollected
      BY <1>a, <2>2, <3>2 DEF Unstored, OneDelivery
    <3>3. ASSUME j.at = "store", NEW i \in jobs \ {j}
          PROVE  i.dlv.msg # m
      BY <1>a, <2>2, FlowSent DEF OneDelivery, FlowInv, JobsApart
    <3>4. \A d \in queryTopic : d.msg # m
      BY <1>a, <2>2, FlowSent DEF OneDelivery, FlowInv, JobsApart
    <3>5. \A i \in jobs' : i.at = "store" => i \in jobs \ {j}
      BY <2>1
    <3> QED
      BY <1>c, <2>1, <3>1, <3>2, <3>3, <3>4, <3>5 DEF Unstored
  <2> HIDE DEF m
  <2>4. \A n \in Node : tasks'[n].id = tasks[n].id
    BY <1>a, <1>2, QueryEffect
  <2>5. \A n \in Node, s \in Sig :
          stored'[n][s] = IF j.at = "store" /\ tasks[n].id = m.tid /\ s = m.sig
                          THEN stored[n][s] + 1 ELSE stored[n][s]
    BY <1>a, <1>2, QueryEffect DEF m
  <2>6. \A n \in Node : tasks[n].id = m.tid => n = TaskOf(m.tid) /\ n.by = m.tid /\ tasks[n].id # None
    <3>1. m.tid # None
      BY <2>2, ConstantsAssumption DEF Message
    <3> QED
      BY <1>a, <3>1 DEF OwnTasks
  <2>7. \A n \in Node, s \in Sig : stored[n][s] \in Nat
    BY <1>a DEF GraphTypeOK
  <2>8. ASSUME NEW n \in Node, NEW s \in Sig
        PROVE  /\ stored'[n][s] <= 1
               /\ stored'[n][s] > 0 => tasks'[n].id # None /\ \E o \in Sent : o.tid = n.by /\ o.sig = s
    <3>1. CASE j.at = "store" /\ tasks[n].id = m.tid /\ s = m.sig
      <4>1. stored[n][s] = 0
        BY <1>a, <2>3, <2>6, <3>1 DEF StoredOnce
      <4> QED
        BY <2>2, <2>4, <2>5, <2>6, <3>1, <4>1
    <3>2. CASE ~(j.at = "store" /\ tasks[n].id = m.tid /\ s = m.sig)
      BY <1>a, <2>4, <2>5, <3>2 DEF StoredOnce
    <3> QED
      BY <3>1, <3>2
  <2>9. ASSUME NEW o \in Unstored'
        PROVE  stored'[TaskOf(o.tid)][o.sig] = 0
    <3>1. o \in Unstored /\ o \in Sent /\ o.sig \in Sig /\ TaskOf(o.tid) \in Node /\ TaskOf(o.tid).by = o.tid
      BY <2>3, <2>9, FlowSent DEF Unstored, Sent, Message, TaskOf, Node
    <3>2. CASE j.at = "store" /\ tasks[TaskOf(o.tid)].id = m.tid /\ o.sig = m.sig
      <4>1. o = m
        BY <1>a, <2>2, <2>6, <3>1, <3>2 DEF OneMessage
      <4> QED
        BY <2>3, <2>9, <3>2, <4>1
    <3>3. CASE ~(j.at = "store" /\ tasks[TaskOf(o.tid)].id = m.tid /\ o.sig = m.sig)
      BY <1>a, <2>5, <3>1, <3>3 DEF StoredOnce
    <3> QED
      BY <3>2, <3>3
  <2> QED
    BY <1>a, <1>b, <1>c, <2>8, <2>9 DEF OnceInv, OneMessage, StoredOnce
<1> QED
  BY <1>1, <1>2 DEF KeeperStep

\* A send of unannounced messages leaves one message for a signature of a task.
LEMMA RequestOnce ==
    ASSUME TypeOK, PricedInv, SerialInv, OnceInv, NEW r \in Request,
           NewRequest(r) \/ RequestStep(r) \/ RequestFails(r) \/ DeleteMine(r),
           req[r].pc = "send" => Unannounced(r),
           \A n \in Node : tasks[n].id # None => tasks'[n].id # None,
           UNCHANGED <<collectorVars, keeperVars>>
    PROVE  OnceInv'
<1>a. /\ UNCHANGED <<queryTopic, hand, jobs, stored>> /\ SentInv
      /\ OneDelivery /\ OneMessage /\ StoredOnce /\ GraphTypeOK
  BY RequestFrame DEF collectorVars, keeperVars, OnceInv, SerialInv, TypeOK
<1>1. \A m \in signatureTopic' \ signatureTopic : m \notin Sent /\ m \in Sent' /\ m \in Message
  <2>1. signatureTopic' \subseteq Message
    BY RequestTypeOK DEF TypeOK, GraphTypeOK
  <2> QED
    BY <1>a, <2>1, RequestFrame, NewMessages DEF Sent
<1>2. Deliveries' = Deliveries /\ \A m \in Uncollected' \ Uncollected : m \notin Sent /\ m \in Sent'
  BY <1>a, <1>1 DEF Deliveries, Uncollected
<1>3. OneDelivery'
  BY <1>a, <1>2, FlowSent DEF OneDelivery
<1>4. OneMessage'
  <2>1. \A m, o \in MessagesOf(r) : m.sig = o.sig => m = o
    BY DEF MessagesOf
  <2> QED
    BY <1>a, <2>1, RequestSent DEF OneMessage, Unannounced
<1>5. StoredOnce'
  <2>1. ASSUME NEW m \in Unstored' \ Unstored
        PROVE  stored[TaskOf(m.tid)][m.sig] = 0
    <3>1. m \in Message /\ m \notin Sent /\ m \in Sent'
      BY <1>a, <1>2, <2>1 DEF Unstored
    <3>2. m \in MessagesOf(r) /\ Unannounced(r)
      BY <3>1, RequestSent
    <3>3. TaskOf(m.tid) \in Node /\ TaskOf(m.tid).by = m.tid /\ m.sig \in Sig
      BY <3>1 DEF Message, TaskOf, Node
    <3>4. stored[TaskOf(m.tid)][m.sig] \in Nat
      BY <1>a, <3>3 DEF GraphTypeOK
    <3> QED
      BY <1>a, <3>2, <3>3, <3>4 DEF StoredOnce, Unannounced
  <2>2. Sent \subseteq Sent'
    BY RequestSent
  <2> QED
    BY <1>a, <2>1, <2>2 DEF StoredOnce
<1> QED
  BY <1>3, <1>4, <1>5 DEF OnceInv
---------------------------------------------------------------------------
(* A page of signatures slides along the history on chain.                  *)

\* What the RPC node listed when the address had h transactions.
WindowAt(h) == {s \in 1 .. h : s > h - Page}

\* The signatures of a task are the page listed at some height up to top, and no
\* message for it is newer.
Within(n, top) ==
    \E h \in 0 .. top : tasks[n].synced = WindowAt(h) /\ \A m \in Sent : m.tid = n.by => m.sig <= h

AllWithin(top) == \A n \in Node : tasks[n].id # None => Within(n, top)

WindowInv ==
    /\ AllWithin(height)
    /\ \A r \in Request : req[r].pc \in {"read", "arm", "create"} =>
         \E h \in 0 .. height : req[r].sigs = WindowAt(h) /\ AllWithin(h)
    /\ \A r \in Request : req[r].pc = "send" => Unannounced(r)

\* What a later page adds is newer than everything the earlier one was listed at.
LEMMA LaterPage ==
    ASSUME NEW h \in Nat, NEW top \in Nat, h <= top, NEW s \in WindowAt(top) \ WindowAt(h)
    PROVE  s > h
BY ConstantsAssumption DEF WindowAt

\* Tasks that keep their signatures and get no new message stay within the pages.
LEMMA StillWithin ==
    ASSUME GraphTypeOK, Sent' \subseteq Sent, NEW n \in Node, tasks'[n].synced = tasks[n].synced,
           NEW low \in Nat, NEW top \in Nat, low <= top, Within(n, low)
    PROVE  Within(n, top)'
<1>1. PICK h \in 0 .. low : tasks[n].synced = WindowAt(h) /\ \A m \in Sent : m.tid = n.by => m.sig <= h
  BY DEF Within
<1>2. h \in 0 .. top
  OBVIOUS
<1> QED
  BY <1>1, <1>2 DEF Within, WindowAt

LEMMA ServiceWindow ==
    ASSUME TypeOK, WindowInv, UNCHANGED req, Sent' \subseteq Sent, height' \in Nat, height <= height',
           \A n \in Node : tasks'[n].id = tasks[n].id /\ tasks'[n].synced = tasks[n].synced
    PROVE  WindowInv'
<1>a. GraphTypeOK /\ height \in Nat
  BY ConstantsAssumption DEF TypeOK, GraphTypeOK
<1>1. ASSUME NEW low \in Nat, NEW top \in Nat, low <= top, AllWithin(low)
      PROVE  AllWithin(top)'
  BY <1>a, <1>1, StillWithin DEF AllWithin
<1>2. AllWithin(height)'
  BY <1>a, <1>1 DEF WindowInv, AllWithin, Within
<1>3. ASSUME NEW r \in Request, req'[r].pc \in {"read", "arm", "create"}
      PROVE  \E h \in 0 .. height' : req'[r].sigs = WindowAt(h) /\ AllWithin(h)'
  <2>1. PICK h \in 0 .. height : req[r].sigs = WindowAt(h) /\ AllWithin(h)
    BY <1>3 DEF WindowInv
  <2>2. h \in 0 .. height' /\ h \in Nat
    BY <1>a
  <2> QED
    BY <1>1, <2>1, <2>2
<1>4. \A r \in Request : req'[r].pc = "send" => Unannounced(r)'
  BY DEF WindowInv, Unannounced, MessagesOf
<1> QED
  BY <1>2, <1>3, <1>4 DEF WindowInv, AllWithin, Within, WindowAt
\* The steps of a handler: what is listed last is armed and sent, the rest was sent before.
LEMMA RequestWindow ==
    ASSUME TypeOK, FreshInv, SerialInv, WindowInv, NEW r \in Request, RequestStep(r) \/ RequestFails(r),
           UNCHANGED <<collectorVars, keeperVars>>
    PROVE  WindowInv'
<1> USE DEF Moves, Becomes, Holds
<1>a. /\ GraphTypeOK /\ ReqTypeOK /\ height \in Nat /\ RequestsOK /\ RequestOK(r) /\ ArmedOK(r) /\ OwnTasks
      /\ UNCHANGED height
  BY RequestFrame, ConstantsAssumption DEF TypeOK, GraphTypeOK, SerialInv, RequestsOK, chainVars
<1>b. \A q \in Request \ {r} : req'[q] = req[q] /\ req'[q].pc \notin {"read", "arm", "create", "send"}
  BY <1>a, RunsAlone DEF Live, Ended
<1> SUFFICES
      /\ AllWithin(height)'
      /\ req'[r].pc \in {"read", "arm", "create"} =>
           \E h \in 0 .. height : req'[r].sigs = WindowAt(h) /\ AllWithin(h)'
      /\ req'[r].pc = "send" => Unannounced(r)'
  BY <1>a, <1>b DEF WindowInv, AllWithin, Within, WindowAt
<1>c. SendMessages(r) \/ RequestFails(r) \/ Sent' = Sent
  BY RequestSent
<1>d. ASSUME UNCHANGED tasks, Sent' = Sent, NEW h \in Nat, AllWithin(h)
      PROVE  AllWithin(h)'
  BY <1>d DEF AllWithin, Within, WindowAt
<1>1. CASE CheckAccount(r) \/ InsertAccount(r) \/ GetMine(r) \/ RecheckAccount(r)
  <2>1. UNCHANGED tasks /\ Sent' = Sent
    BY <1>1, <1>c, RequestFrame DEF CheckAccount, InsertAccount, GetMine, RecheckAccount, ArmTasks, CreateTasks,
                                    SendMessages, RequestFails, Sent, collectorVars, keeperVars
  <2>2. req'[r].pc \notin {"read", "arm", "create", "send"}
    BY <1>a, <1>1, RequestMoves DEF AfterCheck, AfterRecheck
  <2> QED
    BY <1>a, <1>d, <2>1, <2>2 DEF WindowInv
<1>2. CASE ListSignatures(r)
  <2>1. UNCHANGED <<tasks, signatureTopic>> /\ Sent' = Sent
    BY <1>2, RequestFrame DEF ListSignatures, dbVars, graphVars, Sent, collectorVars, keeperVars
  <2>2. req'[r].pc = "read" /\ req'[r].sigs = WindowAt(height)
    BY <1>a, <1>2, RequestMoves DEF Listed, WindowAt
  <2>3. AllWithin(height)'
    BY <1>a, <1>d, <2>1 DEF WindowInv
  <2>4. AllWithin(height) => \E h \in 0 .. height : h = height
    BY <1>a
  <2> QED
    BY <1>a, <1>d, <2>1, <2>2, <2>3, <2>4 DEF WindowInv
<1>3. CASE ReadTask(r)
  <2>1. UNCHANGED tasks /\ Sent' = Sent /\ req[r].pc = "read"
    BY <1>3, RequestFrame DEF ReadTask, dbVars, graphVars, Sent, collectorVars, keeperVars
  <2>2. req'[r].pc \in {"arm", "refused"} /\ req'[r].sigs = req[r].sigs
    BY <1>a, <1>3, RequestMoves
  <2>3. PICK h \in 0 .. height : req[r].sigs = WindowAt(h) /\ AllWithin(h)
    BY <2>1 DEF WindowInv
  <2> QED
    BY <1>a, <1>d, <2>1, <2>2, <2>3 DEF WindowInv
<1>4. CASE ArmTasks(r)
  <2>1. req[r].pc = "arm" /\ req[r].tid = r /\ Sent' = Sent
    BY <1>4, <1>a, RequestFrame DEF ArmTasks, RequestOK, Sent, collectorVars, keeperVars
  <2>2. PICK t \in IF Attached = {} THEN {req[r].tid} ELSE {tasks[n].id : n \in Attached} :
               Becomes(r, IF req[r].goal = "resync" THEN "send" ELSE "create", req[r].goal,
                       req[r].sigs, req[r].known, t)
    BY <1>a, <1>4, RequestMoves
  <2>3. PICK top \in 0 .. height : req[r].sigs = WindowAt(top) /\ AllWithin(top)
    BY <2>1 DEF WindowInv
  <2>4. \A n \in Node : /\ tasks'[n].id = tasks[n].id
                        /\ n \in Attached => tasks'[n].synced = req[r].sigs
                        /\ n \notin Attached => tasks'[n] = tasks[n]
    BY <1>a, <1>4, ArmEffect
  <2>5. ASSUME NEW n \in Node, tasks[n].id # None
        PROVE  Within(n, top)'
    <3>1. CASE n \in Attached
      <4>1. \A m \in Sent : m.tid = n.by => m.sig <= top
        <5>1. PICK h \in 0 .. top : \A m \in Sent : m.tid = n.by => m.sig <= h
          BY <2>3, <2>5 DEF AllWithin, Within
        <5>2. \A m \in Sent : m.sig \in Int
          BY DEF Sent, Message, Sig
        <5> QED
          BY <5>1, <5>2
      <4>2. top \in 0 .. top
        OBVIOUS
      <4> QED
        BY <2>1, <2>3, <2>4, <3>1, <4>1, <4>2 DEF Within, WindowAt
    <3>2. CASE n \notin Attached
      BY <1>a, <2>1, <2>3, <2>4, <2>5, <3>2, StillWithin DEF AllWithin
    <3> QED
      BY <3>1, <3>2
  <2>6. AllWithin(top)' /\ AllWithin(height)'
    <3>1. AllWithin(top)'
      BY <2>4, <2>5 DEF AllWithin
    <3>2. ASSUME NEW n \in Node, Within(n, top)'
          PROVE  Within(n, height)'
      <4>1. 0 .. top \subseteq 0 .. height
        BY <1>a
      <4> QED
        BY <1>a, <3>2, <4>1 DEF Within, WindowAt
    <3> QED
      BY <1>a, <3>1, <3>2 DEF AllWithin
  <2>7. req'[r].pc = "send" => Unannounced(r)'
    <3> SUFFICES ASSUME req[r].goal = "resync", NEW s \in req[r].sigs \ req[r].known, NEW o \in Sent,
                        o.tid = t
                 PROVE  o.sig # s
      BY <2>1, <2>2 DEF Unannounced, MessagesOf
    <3>1. CASE Attached = {}
      BY <2>1, <2>2, <3>1 DEF FreshInv, Unused, BeforeSend
    <3>2. CASE Attached # {}
      <4>1. PICK n \in Attached : t = tasks[n].id
        BY <2>2, <3>2
      <4>2. n \in Node /\ n.by = t /\ req[r].known = tasks[n].synced /\ tasks[n].id # None
        BY <1>a, <2>1, <4>1 DEF ArmedOK, OwnTasks, Attached
      <4>3. PICK h \in 0 .. top : tasks[n].synced = WindowAt(h) /\ \A m \in Sent : m.tid = n.by => m.sig <= h
        BY <2>3, <4>2 DEF AllWithin, Within
      <4>4. o.sig <= h /\ s > h
        BY <2>3, <4>2, <4>3, LaterPage
      <4>5. o.sig \in Int /\ s \in Int
        BY <1>a DEF Sent, Message, Sig, ReqTypeOK, ReqRecord
      <4> QED
        BY <4>4, <4>5
    <3> QED
      BY <3>1, <3>2
  <2> QED
    BY <2>2, <2>3, <2>6, <2>7
<1>5. CASE CreateTasks(r)
  <2>1. req[r].pc = "create" /\ req[r].tid = r /\ accounts = {r} /\ Sent' = Sent
    BY <1>5, <1>a, RequestFrame DEF CreateTasks, RequestOK, Sent, collectorVars, keeperVars
  <2>2. Moves(r, "send", req[r].goal)
    BY <1>a, <1>5, RequestMoves
  <2>3. PICK top \in 0 .. height : req[r].sigs = WindowAt(top)
    BY <2>1 DEF WindowInv
  <2>4. \A m \in Sent : m.tid # r
    BY <2>1 DEF FreshInv, Unused, BeforeSend
  <2>5. ASSUME NEW n \in Node, tasks'[n].id # None
        PROVE  Within(n, height)'
    <3>1. CASE tasks'[n] = tasks[n]
      BY <1>a, <2>1, <2>5, <3>1, StillWithin DEF WindowInv, AllWithin
    <3>2. CASE tasks'[n] # tasks[n]
      <4>1. n.by = r /\ tasks'[n].synced = req[r].sigs
        BY <1>5, <3>2 DEF CreateTasks
      <4> QED
        BY <1>a, <2>1, <2>3, <2>4, <4>1 DEF Within, WindowAt
    <3> QED
      BY <3>1, <3>2
  <2>6. Unannounced(r)'
    BY <2>1, <2>2, <2>4 DEF Unannounced, MessagesOf
  <2> QED
    BY <1>a, <2>2, <2>5, <2>6 DEF AllWithin
<1>6. CASE SendMessages(r) \/ RequestFails(r)
  <2>1. UNCHANGED tasks /\ req'[r].pc \in {"done", "failed"}
    BY <1>a, <1>6, RequestMoves DEF SendMessages, RequestFails, graphVars
  <2>2. \A m \in Sent' \ Sent : m \in MessagesOf(r) /\ req[r].pc = "send"
    BY RequestSent
  <2>3. ASSUME NEW n \in Node, tasks[n].id # None
        PROVE  Within(n, height)'
    <3>1. PICK h \in 0 .. height : tasks[n].synced = WindowAt(h) /\ \A m \in Sent : m.tid = n.by => m.sig <= h
      BY <2>3 DEF WindowInv, AllWithin, Within
    <3>2. ASSUME NEW m \in Sent' \ Sent, m.tid = n.by
          PROVE  m.sig <= h
      <4>1. m.tid = req[r].tid /\ m.sig \in req[r].sigs /\ req[r].pc = "send" /\ tasks[n].id = n.by
        BY <1>a, <2>2, <2>3, <3>2 DEF MessagesOf, OwnTasks
      <4>2. m.sig \in WindowAt(h)
        BY <1>a, <3>1, <3>2, <4>1 DEF ArmedOK
      <4> QED
        BY <4>2 DEF WindowAt
    <3> QED
      BY <1>a, <2>1, <3>1, <3>2 DEF Within, WindowAt
  <2> QED
    BY <1>a, <2>1, <2>3 DEF AllWithin
<1> QED
  BY <1>1, <1>2, <1>3, <1>4, <1>5, <1>6 DEF RequestStep

\* What the clients' requests leave alone as they start, and how far they get.
LEMMA ClientFrame ==
    ASSUME TypeOK, Idle, Clients
    PROVE  /\ UNCHANGED <<tasks, stored, signatureTopic, queryTopic, chainVars, faults, collectorVars, keeperVars>>
           /\ \A q \in Request : req'[q].pc \notin {"read", "arm", "create", "send"}
<1>1. PICK r \in Request : NewRequest(r) \/ DeleteMine(r)
  BY DEF Clients
<1>2. UNCHANGED <<collectorVars, keeperVars>>
  BY DEF Clients
<1>3. UNCHANGED <<tasks, stored, signatureTopic, queryTopic, chainVars, faults>>
  BY <1>1 DEF NewRequest, PostAccount, PostSync, PostResync, DeleteMine, dbVars, graphVars
<1>4. CASE NewRequest(r)
  BY <1>2, <1>3, <1>4, NewRequestMoves DEF TypeOK, NewRequest, Moves, Becomes, Holds, Idle, Live, Ended, AfterCheck,
                                          AfterRecheck
<1>5. CASE DeleteMine(r)
  BY <1>2, <1>3, <1>5 DEF DeleteMine, Idle, Live, Ended
<1> QED
  BY <1>1, <1>4, <1>5

\* A new request, or the deletion of the account, listed nothing yet.
LEMMA ClientWindow ==
    ASSUME TypeOK, WindowInv, Idle, Clients
    PROVE  WindowInv'
<1>1. UNCHANGED <<tasks, height>> /\ Sent' = Sent
  BY ClientFrame DEF Sent, chainVars, collectorVars, keeperVars
<1> QED
  BY <1>1, ClientFrame DEF WindowInv, AllWithin, Within, WindowAt

---------------------------------------------------------------------------
\* A failure is counted as one.
LEMMA NoFault ==
    ASSUME TypeOK, UNCHANGED faults, NEW service
    PROVE  ~Fault(service)
<1>1. faults \in Nat
  BY ConstantsAssumption DEF TypeOK, GraphTypeOK
<1> QED
  BY <1>1 DEF Fault

\* As long as keepers run, a message is in one place, whatever the others do.
LEMMA StepFlow ==
    ASSUME "keeper" \notin Failing \/ UNCHANGED faults, TypeOK, PricedInv, SerialInv, FlowInv,
           [SerialNext]_vars
    PROVE  FlowInv'
<1>a. /\ \A k \in Keepers : ~KeeperCrash(k)
      /\ \A j \in jobs : ~JobFails(j)
  BY NoFault DEF KeeperCrash, JobFails, Fault
<1>1. CASE Idle /\ Clients
  BY <1>1, RequestFlow DEF Clients, SerialInv
<1>2. CASE \E r \in Request : /\ RequestStep(r) \/ RequestFails(r)
                              /\ UNCHANGED <<collectorVars, keeperVars>>
  BY <1>2, RequestFlow DEF SerialInv
<1>3. CASE \E c \in Collectors : /\ CollectorStep(c) \/ TryFails(c) \/ CollectorCrash(c)
                                 /\ UNCHANGED <<req, keeperVars>>
  BY <1>3, CollectorFlow
<1>4. CASE KeeperStep /\ UNCHANGED <<req, collectorVars>>
  BY <1>4, KeeperFlow
<1>5. CASE Environment \/ UNCHANGED vars
  <2>1. UNCHANGED <<signatureTopic, queryTopic, hand, fetched, jobs, faults>>
    BY <1>5 DEF Environment, Grow, FetchPrices, vars, collectorVars, keeperVars
  <2> QED
    BY <2>1 DEF FlowInv, FetchedOnce, CopiesApart, JobsApart, Uncollected, Deliveries
<1> QED
  BY <1>a, <1>1, <1>2, <1>3, <1>4, <1>5, SerialSteps

\* With no failures but those of the API nothing is stored twice.
LEMMA StepOnce ==
    ASSUME Failing \subseteq {"request"} \/ UNCHANGED faults, TypeOK, PricedInv, FreshInv, SerialInv, FlowInv,
           OnceInv, WindowInv, [SerialNext]_vars
    PROVE  OnceInv' /\ WindowInv'
<1>a. /\ \A c \in Collectors : ~TryFails(c) /\ ~CollectorCrash(c)
      /\ \A k \in Keepers : ~KeeperCrash(k)
      /\ \A j \in jobs : ~JobFails(j)
  BY NoFault DEF TryFails, CollectorCrash, KeeperCrash, JobFails, Fault
<1>b. height \in Nat /\ HeldIsFetched
  BY ConstantsAssumption DEF TypeOK, GraphTypeOK, PricedInv
<1>1. CASE Idle /\ Clients
  <2>1. PICK r \in Request : NewRequest(r) \/ DeleteMine(r)
    BY <1>1 DEF Clients
  <2>2. UNCHANGED <<tasks, collectorVars, keeperVars>> /\ (req[r].pc = "send" => Unannounced(r))
    BY <1>1, <2>1 DEF Clients, NewRequest, PostAccount, PostSync, PostResync, DeleteMine, dbVars, graphVars, WindowInv
  <2> QED
    BY <1>1, <2>1, <2>2, RequestOnce, ClientWindow
<1>2. ASSUME NEW r \in Request, RequestStep(r) \/ RequestFails(r), UNCHANGED <<collectorVars, keeperVars>>
      PROVE  OnceInv' /\ WindowInv'
  <2>1. RequestsOK /\ OwnTasks /\ (req[r].pc = "send" => Unannounced(r))
    BY DEF SerialInv, WindowInv
  <2>2. \A n \in Node : tasks[n].id # None => tasks'[n].id # None
    BY <1>2, <2>1, OwnTasksStep
  <2> QED
    BY <1>2, <2>1, <2>2, RequestOnce, RequestWindow
<1>3. ASSUME NEW c \in Collectors, CollectorStep(c), UNCHANGED <<req, keeperVars>>
      PROVE  OnceInv' /\ WindowInv'
  <2>1. UNCHANGED height
    BY <1>3 DEF CollectorStep, TakeMessage, CollectQueries, PriceThrows, CatchQueries, chainVars
  <2> QED
    BY <1>3, <1>b, <2>1, CollectorOnce, ServiceFrame, ServiceWindow
<1>4. ASSUME KeeperStep, UNCHANGED <<req, collectorVars>>
      PROVE  OnceInv' /\ WindowInv'
  <2>1. UNCHANGED height
    BY <1>4 DEF KeeperStep, TakeDelivery, RunQuery, chainVars
  <2> QED
    BY <1>4, <1>b, <2>1, KeeperOnce, ServiceFrame, ServiceWindow
<1>5. CASE Environment \/ UNCHANGED vars
  <2>1. /\ UNCHANGED <<tasks, stored, signatureTopic, queryTopic, hand, jobs, req>>
        /\ Sent' = Sent /\ height' \in Nat /\ height <= height'
    BY <1>5, <1>b DEF Environment, Grow, FetchPrices, vars, graphVars, chainVars, collectorVars, keeperVars, Sent
  <2>2. OnceInv'
    BY <2>1 DEF OnceInv, OneDelivery, OneMessage, StoredOnce, Uncollected, Deliveries, Unstored
  <2> QED
    BY <2>1, <2>2, ServiceWindow
<1> QED
  BY <1>a, <1>1, <1>2, <1>3, <1>4, <1>5, SerialSteps

LEMMA InitOnce == Init => FlowInv /\ OnceInv /\ WindowInv
<1> SUFFICES ASSUME Init PROVE FlowInv /\ OnceInv /\ WindowInv
  OBVIOUS
<1>1. /\ \A n \in Node : tasks[n].id = None /\ \A s \in Sig : stored[n][s] = 0
      /\ \A r \in Request : req[r].pc = "new"
      /\ signatureTopic = {} /\ queryTopic = {} /\ jobs = {}
      /\ \A c \in Collectors : hand[c] = None /\ fetched[c] = {}
      /\ Sent = {}
  BY DEF Init, GraphInit, ReqInit, CollectorInit, KeeperInit, NoTask, Sent
<1>2. Uncollected = {} /\ Deliveries = {} /\ Unstored = {}
  BY <1>1 DEF Uncollected, Deliveries, Unstored
<1>3. FlowInv
  BY <1>1, <1>2 DEF FlowInv, FetchedOnce, CopiesApart, JobsApart
<1>4. OnceInv
  BY <1>1, <1>2 DEF OnceInv, OneDelivery, OneMessage, StoredOnce
<1>5. WindowInv
  BY <1>1 DEF WindowInv, AllWithin
<1> QED
  BY <1>3, <1>4, <1>5

\* A serial client's system moves as the whole one may.
LEMMA SerialIsNext == [SerialNext]_vars => [Next]_vars
BY DEF SerialNext, Next

\* A client that waits for its answers never sees one transaction twice, however
\* its requests fail half way, its account is deleted and made again and the page
\* of signatures slides, as long as collectors and keepers run: a signature is
\* sent once for a task, and each message is handled once.
THEOREM NothingStoredTwice ==
    ASSUME Failing \subseteq {"request"}
    PROVE  SerialSpec => []NoDuplicateTransactions
<1> DEFINE Inv == TypeOK /\ PricedInv /\ FreshInv /\ CountInv /\ SerialInv /\ FlowInv /\ OnceInv /\ WindowInv
<1>1. Init => Inv
  BY InitTypeOK, InitPriced, InitCount, InitSerial, InitOnce
<1>2. Inv /\ [SerialNext]_vars => Inv'
  <2> SUFFICES ASSUME Inv, [SerialNext]_vars PROVE Inv'
    OBVIOUS
  <2>1. TypeOK' /\ PricedInv' /\ FreshInv' /\ CountInv'
    BY SerialIsNext, StepTypeOK, StepPriced, StepCount
  <2>2. SerialInv' /\ FlowInv' /\ OnceInv' /\ WindowInv'
    BY StepSerial, StepFlow, StepOnce
  <2> QED
    BY <2>1, <2>2
<1>3. Inv => NoDuplicateTransactions
  <2> SUFFICES ASSUME Inv, NEW n \in Attached, NEW s \in Sig, stored[n][s] > 0
               PROVE  stored[n][s] = 1 /\ \A p \in Attached \ {n} : stored[p][s] = 0
    BY DEF NoDuplicateTransactions
  <2>1. n \in Node /\ stored[n][s] \in Nat /\ stored[n][s] <= 1
    BY DEF Attached, TypeOK, GraphTypeOK, OnceInv, StoredOnce
  <2>2. Attached \ {n} = {}
    BY AttachedOne DEF SerialInv, RequestsOK
  <2> QED
    BY <2>1, <2>2
<1> QED
  <2> HIDE DEF Inv
  <2> QED
    BY <1>1, <1>2, <1>3, PTL DEF SerialSpec
=============================================================================
