----------------------------- MODULE CalmProofs -----------------------------
(***************************************************************************)
(* A client that polls GET /task/progress down to zero before its next     *)
(* request, while no service fails: what it reads is exact, what reads     *)
(* complete is complete, and the whole pipeline implements SyncLedger.  A  *)
(* history longer than the page of signatures breaks this: a repeated sync *)
(* then sets amount to the length of the page, and progress to the number  *)
(* of signatures of the page before it.                                    *)
(***************************************************************************)
EXTENDS ProgressProofs, SyncRefinement

---------------------------------------------------------------------------
(* A client that waits until its tasks are settled.                         *)

\* Progress and what is on its way make up the amount of a task, exactly.
ExactInv ==
    \A n \in Node, t \in Request : tasks[n].id = t =>
        tasks[n].amount = tasks[n].progress + Outstanding(t)

\* Nothing is on its way to the tasks while a request comes to arm them.
PatientInv == \A r \in Request : Live(r) /\ req[r].pc \in BeforeSend => Settled

\* The amount of a task is the number of its signatures.
SizedInv == \A n \in Node : tasks[n].id # None => tasks[n].amount = Cardinality(tasks[n].synced)

\* What holds for serial clients without failures.
SteadyInv ==
    /\ TypeOK /\ PricedInv /\ FreshInv /\ CountInv /\ SerialInv
    /\ FlowInv /\ OnceInv /\ WindowInv /\ FiniteInv

\* The steps that touch no task.
Quiet ==
    \/ Idle /\ Settled /\ Clients
    \/ \E c \in Collectors : CollectorStep(c) /\ UNCHANGED <<req, keeperVars>>
    \/ \E k \in Keepers : TakeDelivery(k) /\ UNCHANGED <<req, collectorVars>>
    \/ Environment \/ UNCHANGED vars

LEMMA CalmSteps ==
    ASSUME [CalmNext]_vars
    PROVE  /\ \/ \E r \in Request : RequestStep(r) /\ UNCHANGED <<collectorVars, keeperVars>>
              \/ \E j \in jobs : RunQuery(j) /\ UNCHANGED <<req, collectorVars>>
              \/ Quiet
           /\ [SerialNext]_vars /\ UNCHANGED faults
<1>1. [SerialNext]_vars
  BY DEF CalmNext, SerialNext
<1>2. \/ \E r \in Request : RequestStep(r) /\ UNCHANGED <<collectorVars, keeperVars>>
      \/ \E j \in jobs : RunQuery(j) /\ UNCHANGED <<req, collectorVars>>
      \/ Quiet
  BY DEF CalmNext, Services, KeeperStep, Quiet
<1>3. UNCHANGED faults
  <2>1. CASE \E r \in Request : RequestStep(r)
    BY <2>1 DEF RequestStep, CheckAccount, InsertAccount, GetMine, RecheckAccount, ListSignatures, ReadTask,
                ArmTasks, CreateTasks, SendMessages
  <2>2. CASE \E j \in jobs : RunQuery(j)
    BY <2>2 DEF RunQuery
  <2>3. CASE Clients
    BY <2>3 DEF Clients, NewRequest, PostAccount, PostSync, PostResync, DeleteMine
  <2>4. CASE \E c \in Collectors : CollectorStep(c)
    BY <2>4 DEF CollectorStep, TakeMessage, CollectQueries, PriceThrows, CatchQueries
  <2>5. CASE (\E k \in Keepers : TakeDelivery(k)) \/ Environment \/ UNCHANGED vars
    BY <2>5 DEF TakeDelivery, Environment, Grow, FetchPrices, vars
  <2> QED
    BY <1>2, <2>1, <2>2, <2>3, <2>4, <2>5 DEF Quiet
<1> QED
  BY <1>1, <1>2, <1>3

LEMMA QuietFrame ==
    ASSUME SteadyInv, Quiet
    PROVE  /\ UNCHANGED <<tasks, stored>> /\ accounts' \subseteq accounts
           /\ UNCHANGED <<accounts, taskUpdatedAt, req>> \/ (Idle /\ Settled /\ Clients)
<1>1. CASE Idle /\ Settled /\ Clients
  <2>1. UNCHANGED <<tasks, stored>>
    BY <1>1, ClientFrame DEF SteadyInv
  <2>2. accounts' \subseteq accounts
    BY <1>1 DEF Clients, NewRequest, PostAccount, PostSync, PostResync, DeleteMine, dbVars, graphVars
  <2> QED
    BY <1>1, <2>1, <2>2
<1>2. CASE \E c \in Collectors : CollectorStep(c) /\ UNCHANGED <<req, keeperVars>>
  BY <1>2 DEF CollectorStep, TakeMessage, CollectQueries, PriceThrows, CatchQueries, graphVars
<1>3. CASE \E k \in Keepers : TakeDelivery(k) /\ UNCHANGED <<req, collectorVars>>
  BY <1>3 DEF TakeDelivery, graphVars
<1>4. CASE Environment \/ UNCHANGED vars
  BY <1>4 DEF Environment, Grow, FetchPrices, vars, graphVars
<1> QED
  BY <1>1, <1>2, <1>3, <1>4 DEF Quiet

\* They take nothing off the way, and put nothing on it.
LEMMA QuietOutstanding ==
    ASSUME SteadyInv, Quiet
    PROVE  FiniteInv' /\ \A t \in Request : Outstanding(t) \in Nat /\ Outstanding(t)' = Outstanding(t)
<1>b. TypeOK /\ PricedInv /\ FlowInv /\ FiniteInv /\ RequestsOK
  BY DEF SteadyInv, SerialInv
<1>c. \A t \in Request : /\ Cardinality(Unsent(t)) \in Nat /\ Waiting(t) \in Nat
                         /\ Outstanding(t) = Cardinality(Unsent(t)) + Waiting(t)
                         /\ Outstanding(t)' = Cardinality(Unsent(t)') + Waiting(t)'
  BY <1>b, UnsentKept, PartsFinite DEF Outstanding
<1>1. CASE Idle /\ Clients
  <2>1. UNCHANGED <<signatureTopic, queryTopic, hand, fetched, jobs>>
    BY <1>1, <1>b, ClientFrame DEF collectorVars, keeperVars
  <2>2. \A t : Waiting(t)' = Waiting(t)
    BY <2>1 DEF Waiting
  <2>3. \A t : Unsent(t)' = Unsent(t)
    BY <1>1, <1>b, UnsentKept, ClientFrame DEF Unsent
  <2>4. FiniteInv'
    BY <1>b, <2>1 DEF FiniteInv, Busy
  <2> QED
    BY <1>c, <2>2, <2>3, <2>4
<1>2. CASE UNCHANGED req
  <2>1. \A t : Unsent(t)' = Unsent(t)
    BY <1>2, <1>b, UnsentKept
  <2>2. CASE \E c \in Collectors : CollectorStep(c) /\ UNCHANGED <<req, keeperVars>>
    BY <1>b, <1>c, <2>1, <2>2, CollectorWaiting
  <2>3. CASE \E k \in Keepers : TakeDelivery(k) /\ UNCHANGED <<req, collectorVars>>
    BY <1>b, <1>c, <2>1, <2>3, TakeDeliveryWaiting
  <2>4. CASE Environment \/ UNCHANGED vars
    <3>1. UNCHANGED <<signatureTopic, queryTopic, hand, fetched, jobs>>
      BY <2>4 DEF Environment, Grow, FetchPrices, vars, collectorVars, keeperVars
    <3>2. \A t \in Request : Waiting(t)' = Waiting(t)
      BY <3>1 DEF Waiting
    <3>3. FiniteInv'
      BY <1>b, <3>1 DEF FiniteInv, Busy
    <3> QED
      BY <1>c, <2>1, <3>2, <3>3
  <2>5. CASE Idle /\ Settled /\ Clients
    BY <1>1, <2>5
  <2> QED
    BY <2>2, <2>3, <2>4, <2>5 DEF Quiet
<1> QED
  BY <1>1, <1>2, QuietFrame

\* A request that is about to arm the task of the account finds it settled.
LEMMA Ready ==
    ASSUME SteadyInv, ExactInv, PatientInv, NEW r \in Request, Live(r), req[r].pc # "send",
           NEW n \in Attached
    PROVE  /\ tasks[n].amount = tasks[n].progress /\ n \in Node /\ tasks[n].id = n.by /\ n.by \in Request
           /\ Outstanding(n.by) = 0
<1>1. /\ n \in Node /\ tasks[n].id = n.by /\ n.by \in Request
      /\ tasks[n].amount \in Nat /\ tasks[n].progress \in Nat
  BY DEF SteadyInv, SerialInv, OwnTasks, Attached, Node, TypeOK, GraphTypeOK, Task
<1>2. req[r].pc \in BeforeSend
  BY DEF SteadyInv, TypeOK, ReqTypeOK, ReqRecord, Step, Live, Ended, BeforeSend
<1>3. tasks[n].amount = tasks[n].progress
  BY <1>2 DEF PatientInv, Settled
<1>4. Outstanding(n.by) \in Nat
  <2>1. Cardinality(Unsent(n.by)) \in Nat /\ Waiting(n.by) \in Nat
    BY <1>1, UnsentKept, PartsFinite DEF SteadyInv, SerialInv
  <2> QED
    BY <2>1 DEF Outstanding
<1>5. tasks[n].amount = tasks[n].progress + Outstanding(n.by)
  BY <1>1 DEF ExactInv
<1> QED
  BY <1>1, <1>3, <1>4, <1>5

\* An id that is still to be used has nothing on its way.
LEMMA FreshOutstanding ==
    ASSUME SteadyInv, NEW r \in Request, Live(r), req[r].pc # "send"
    PROVE  Outstanding(r) = 0
<1>1. req[r].pc \in BeforeSend
  BY DEF SteadyInv, TypeOK, ReqTypeOK, ReqRecord, Step, Live, Ended, BeforeSend
<1>2. \A m \in Sent : m.tid # r
  BY <1>1 DEF SteadyInv, FreshInv, Unused
<1>3. InTopic(r) = {} /\ InQueries(r) = {}
  BY <1>2 DEF InTopic, InQueries, Sent, SteadyInv, TypeOK, GraphTypeOK, Delivery
<1>4. InHands(r) = {}
  BY <1>2 DEF InHands, Sent, SteadyInv, PricedInv, HeldIsFetched, TypeOK, CollectorTypeOK
<1>5. InJobs(r) = {}
  <2>1. \A j \in jobs : j.dlv \in Deliveries /\ j.dlv.msg \in Sent
    BY FlowSent DEF SteadyInv
  <2> QED
    BY <1>2, <2>1 DEF InJobs
<1>6. Unsent(r) = {}
  <2>1. \A q \in Request \ {r} : req[q].pc # "send"
    BY DEF SteadyInv, SerialInv, RequestsOK, OneLive, Live, Ended
  <2> QED
    BY <2>1, OneSender
<1> QED
  BY <1>3, <1>4, <1>5, <1>6, WaitingParts, FS_EmptySet DEF Outstanding

\* As long as the whole history fits a page, what is synced stays listed.
LEMMA KnownListed ==
    ASSUME MaxHeight <= Page, SteadyInv, NEW r \in Request, req[r].pc \in {"arm", "create"},
           NEW n \in Node, tasks[n].id # None
    PROVE  tasks[n].synced \subseteq req[r].sigs
<1>1. PICK h \in 0 .. height : req[r].sigs = WindowAt(h) /\ AllWithin(h)
  BY DEF SteadyInv, WindowInv
<1>2. PICK low \in 0 .. h : tasks[n].synced = WindowAt(low)
  BY <1>1 DEF AllWithin, Within
<1>3. height \in 0 .. MaxHeight /\ MaxHeight \in Nat /\ Page \in Nat
  BY ConstantsAssumption DEF SteadyInv, TypeOK, GraphTypeOK
<1> QED
  BY <1>1, <1>2, <1>3 DEF WindowAt

\* A task that a handler arms again goes on where it was.
LEMMA ArmedAgain ==
    ASSUME MaxHeight <= Page, SteadyInv, ExactInv, PatientInv, SizedInv,
           NEW r \in Request, RequestStep(r), NEW n \in Node, tasks'[n].id # None
    PROVE  \/ tasks'[n] = tasks[n]
           \/ /\ tasks'[n].amount = Cardinality(req[r].sigs) /\ tasks'[n].synced = req[r].sigs
              /\ Live(r) /\ req[r].pc # "send" /\ req'[r].pc = "send"
              /\ req'[r].tid = n.by /\ tasks'[n].id = n.by /\ n.by \in Request
              /\ Outstanding(n.by) = 0
              /\ \/ /\ n \in Attached /\ tasks[n].id = n.by
                    /\ req[r].known = tasks[n].synced /\ req[r].known \subseteq req[r].sigs
                    /\ tasks'[n].progress = Cardinality(req[r].known)
                    /\ tasks'[n].progress = tasks[n].progress /\ tasks[n].progress = tasks[n].amount
                    /\ tasks'[n].transferCount = tasks[n].transferCount
                 \/ /\ tasks[n].id = None /\ n.by = r /\ req[r].known = {}
                    /\ tasks'[n].progress = 0 /\ tasks'[n].transferCount = 0
<1>a. TypeOK /\ SerialInv /\ RequestsOK /\ OwnTasks /\ n.by \in Request /\ OwnTasks'
  BY OwnTasksStep DEF SteadyInv, SerialInv, Node
<1>b. Live(r)
  BY <1>a, RunsAlone
<1>1. CASE tasks'[n] = tasks[n]
  BY <1>1
<1>2. CASE tasks'[n] # tasks[n]
  <2>1. /\ tasks'[n].amount = Cardinality(req[r].sigs) /\ tasks'[n].synced = req[r].sigs
        /\ tasks'[n].progress = Cardinality(req[r].known)
        /\ req[r].pc # "send" /\ req'[r].pc = "send" /\ req'[r].tid = tasks'[n].id
        /\ \/ n \in Attached /\ tasks'[n].id = tasks[n].id /\ req[r].known = tasks[n].synced
              /\ tasks'[n].transferCount = tasks[n].transferCount
           \/ tasks[n].id = None /\ req[r].known = {} /\ tasks'[n].id = r /\ tasks'[n].transferCount = 0
    BY <1>a, <1>2, TaskArmed
  <2>2. tasks'[n].id = n.by
    BY <1>a DEF OwnTasks
  <2>3. req[r].pc \in {"arm", "create"}
    <3>1. ArmTasks(r) \/ CreateTasks(r)
      BY <1>2, RequestFrame
    <3> QED
      BY <3>1 DEF ArmTasks, CreateTasks
  <2>4. CASE n \in Attached /\ tasks'[n].id = tasks[n].id /\ req[r].known = tasks[n].synced
             /\ tasks'[n].transferCount = tasks[n].transferCount
    <3>1. tasks[n].id # None
      BY <2>4 DEF Attached
    <3>2. /\ tasks[n].amount = tasks[n].progress /\ Outstanding(n.by) = 0
          /\ tasks[n].synced \subseteq req[r].sigs
      BY <1>b, <2>1, <2>3, <2>4, <3>1, Ready, KnownListed
    <3> QED
      BY <1>a, <1>b, <2>1, <2>2, <2>4, <3>1, <3>2 DEF SizedInv
  <2>5. CASE tasks[n].id = None /\ req[r].known = {} /\ tasks'[n].id = r /\ tasks'[n].transferCount = 0
    BY <1>a, <1>b, <2>1, <2>2, <2>5, FreshOutstanding, FS_EmptySet
  <2> QED
    BY <2>1, <2>4, <2>5
<1> QED
  BY <1>1, <1>2

\* No task comes to the account, or goes, but by the creation of one.
LEMMA RequestAttached ==
    ASSUME TypeOK, SerialInv, NEW r \in Request, RequestStep(r)
    PROVE  /\ Attached \subseteq Attached'
           /\ \A n \in Attached' : n \in Attached \/ tasks[n].id = None
<1>a. GraphTypeOK /\ OwnTasks /\ OwnTasks' /\ RequestsOK /\ \A n \in Node : tasks[n].id # None => tasks'[n].id # None
  BY OwnTasksStep DEF TypeOK, SerialInv
<1>1. accounts \subseteq accounts' /\ accounts' \subseteq accounts \cup {r} /\ (InsertAccount(r) \/ UNCHANGED accounts)
  BY RequestFrame DEF InsertAccount, DeleteMine, RequestStep, CheckAccount, GetMine, RecheckAccount,
     ListSignatures, ReadTask, ArmTasks, CreateTasks, SendMessages, dbVars, graphVars
<1>2. Attached \subseteq Attached'
  BY <1>a, <1>1 DEF Attached
<1>3. ASSUME NEW n \in Attached', tasks[n].id # None PROVE n \in Attached
  <2>1. n \in Node /\ n.acc \in accounts' /\ n.acc = n.by
    BY <1>a, <1>3 DEF Attached, OwnTasks, TaskOf
  <2>2. CASE InsertAccount(r)
    BY <1>a, <1>1, <1>3, <2>1, <2>2 DEF InsertAccount, OwnTasks, Attached
  <2>3. CASE UNCHANGED accounts
    BY <1>3, <2>1, <2>3 DEF Attached
  <2> QED
    BY <1>1, <2>2, <2>3
<1> QED
  BY <1>2, <1>3

---------------------------------------------------------------------------
(* The progress that a client polls is exact.                               *)

CalmInv == SteadyInv /\ ExactInv /\ PatientInv /\ SizedInv

LEMMA RequestCalm ==
    ASSUME MaxHeight <= Page, CalmInv, NEW r \in Request, RequestStep(r), UNCHANGED <<collectorVars, keeperVars>>
    PROVE  FiniteInv' /\ ExactInv' /\ PatientInv' /\ SizedInv'
<1>a. /\ SteadyInv /\ ExactInv /\ PatientInv /\ SizedInv
      /\ TypeOK /\ GraphTypeOK /\ ReqTypeOK /\ GraphTypeOK' /\ SerialInv /\ FiniteInv /\ RequestsOK
  BY RequestTypeOK DEF CalmInv, SteadyInv, TypeOK, SerialInv
<1>1. /\ FiniteInv'
      /\ \A t \in Request :
           /\ Outstanding(t) \in Nat
           /\ Outstanding(t)' = Outstanding(t) +
                (IF req[r].pc # "send" /\ req'[r].pc = "send" /\ req'[r].tid = t
                 THEN Cardinality(req[r].sigs \ req[r].known) ELSE 0)
  BY <1>a, RequestOutstanding
<1>2. /\ Cardinality(req[r].sigs) \in Nat /\ Cardinality(req[r].known) \in Nat
      /\ Cardinality(req[r].sigs \ req[r].known) \in Nat
      /\ req[r].known \subseteq req[r].sigs =>
           Cardinality(req[r].sigs) = Cardinality(req[r].known) + Cardinality(req[r].sigs \ req[r].known)
      /\ req[r].known = {} => Cardinality(req[r].sigs) = Cardinality(req[r].sigs \ req[r].known)
  <2>1. req[r].known = {} => req[r].sigs \ req[r].known = req[r].sigs
    OBVIOUS
  <2> QED
    BY <1>a, <2>1, KnownAndNew
<1>6. \A q \in Request : ArmedOK(q)'
  BY <1>a, ArmedStepOK
<1>3. ExactInv'
  <2> SUFFICES ASSUME NEW n \in Node, NEW t \in Request, tasks'[n].id = t
               PROVE  tasks'[n].amount = tasks'[n].progress + Outstanding(t)'
    BY DEF ExactInv
  <2>1. tasks'[n].id # None
    BY ConstantsAssumption
  <2>2. CASE tasks'[n] = tasks[n]
    <3>1. tasks[n].amount = tasks[n].progress + Outstanding(t)
      BY <1>a, <2>2 DEF ExactInv
    <3>2. tasks[n].amount \in Nat /\ tasks[n].progress \in Nat
      BY <1>a DEF GraphTypeOK, Task
    <3>3. CASE req[r].pc # "send" /\ req'[r].pc = "send" /\ req'[r].tid = t
      <4>1. n \in Attached' /\ tasks'[n].synced = req'[r].sigs /\ tasks[n].id # None
        BY <1>a, <1>6, <2>1, <2>2, <3>3 DEF SerialInv, ArmedOK
      <4>2. n \in Attached
        BY <1>a, <4>1, RequestAttached
      <4>3. CASE ArmTasks(r)
        <5>1. req[r].known = tasks[n].synced /\ req'[r].sigs = req[r].sigs
          <6>1. req[r].pc = "arm" /\ req'[r].sigs = req[r].sigs
            BY <1>a, <4>3, RequestMoves DEF ArmTasks, Moves, Becomes, Holds
          <6> QED
            BY <1>a, <4>1, <4>2, <6>1 DEF SerialInv, ArmedOK
        <5>2. req[r].sigs \ req[r].known = {}
          BY <2>2, <4>1, <5>1
        <5>3. Cardinality(req[r].sigs \ req[r].known) = 0
          BY <5>2, FS_EmptySet
        <5> QED
          BY <1>1, <2>2, <3>1, <3>2, <3>3, <5>3
      <4>4. CASE CreateTasks(r)
        <5>1. req[r].pc = "create" /\ req'[r].tid = req[r].tid /\ req[r].tid = r
          BY <1>a, <4>4, RequestMoves DEF CreateTasks, RequestsOK, RequestOK, Moves, Becomes, Holds
        <5> QED
          BY <1>a, <2>2, <3>3, <5>1 DEF SteadyInv, FreshInv, Unused, BeforeSend
      <4>5. ArmTasks(r) \/ CreateTasks(r)
        BY <1>a, <3>3, RequestMoves DEF RequestStep, Moves, Becomes, Holds, AfterCheck, AfterRecheck
      <4> QED
        BY <4>3, <4>4, <4>5
    <3>4. CASE ~(req[r].pc # "send" /\ req'[r].pc = "send" /\ req'[r].tid = t)
      BY <1>1, <2>2, <3>1, <3>2, <3>4
    <3> QED
      BY <3>3, <3>4
  <2>3. CASE tasks'[n] # tasks[n]
    <3>1. /\ tasks'[n].amount = Cardinality(req[r].sigs)
          /\ req[r].pc # "send" /\ req'[r].pc = "send" /\ req'[r].tid = t /\ Outstanding(t) = 0
          /\ \/ req[r].known \subseteq req[r].sigs /\ tasks'[n].progress = Cardinality(req[r].known)
             \/ req[r].known = {} /\ tasks'[n].progress = 0
      BY <1>a, <2>1, <2>3, ArmedAgain
    <3> QED
      BY <1>1, <1>2, <3>1
  <2> QED
    BY <2>2, <2>3
<1>4. SizedInv'
  <2> SUFFICES ASSUME NEW n \in Node, tasks'[n].id # None
               PROVE  tasks'[n].amount = Cardinality(tasks'[n].synced)
    BY DEF SizedInv
  <2> QED
    BY <1>a, ArmedAgain DEF SizedInv
<1>5. PatientInv'
  <2> SUFFICES ASSUME NEW q \in Request, Live(q)', req'[q].pc \in BeforeSend, NEW n \in Attached'
               PROVE  tasks'[n].amount = tasks'[n].progress
    BY DEF PatientInv, Settled
  <2>1. q = r
    BY <1>a, RunsAlone DEF Live
  <2>2. Live(r) /\ req[r].pc \in BeforeSend /\ req'[r].pc # "send"
    BY <1>a, <2>1, RunsAlone, NeverBack DEF BeforeSend
  <2>3. tasks'[n] = tasks[n]
    BY <1>a, <2>2, ArmedAgain DEF Attached
  <2>4. n \in Attached
    BY <1>a, <2>3, RequestAttached DEF Attached
  <2> QED
    BY <1>a, <2>2, <2>3, <2>4 DEF PatientInv, Settled
<1> QED
  BY <1>1, <1>3, <1>4, <1>5

LEMMA QueryCalm ==
    ASSUME CalmInv, NEW j \in jobs, RunQuery(j), UNCHANGED <<req, collectorVars>>
    PROVE  FiniteInv' /\ ExactInv' /\ PatientInv' /\ SizedInv'
<1>a. /\ ExactInv /\ PatientInv /\ SizedInv
      /\ TypeOK /\ GraphTypeOK /\ FlowInv /\ FiniteInv /\ RequestsOK /\ KeeperTypeOK
  BY DEF CalmInv, SteadyInv, TypeOK, SerialInv
<1>1. FiniteInv' /\ \A t \in Request :
          /\ Waiting(t)' \in Nat
          /\ Waiting(t) = Waiting(t)' + (IF j.at = "increment" /\ j.dlv.msg.tid = t THEN 1 ELSE 0)
          /\ Unsent(t)' = Unsent(t) /\ Cardinality(Unsent(t)) \in Nat
  BY <1>a, RunQueryWaiting, UnsentKept
<1>2. \A t \in Request :
          /\ Outstanding(t)' \in Nat
          /\ Outstanding(t) = Outstanding(t)' + (IF j.at = "increment" /\ j.dlv.msg.tid = t THEN 1 ELSE 0)
  BY <1>1 DEF Outstanding
<1>3. /\ UNCHANGED accounts
      /\ \A n \in Node : /\ tasks'[n].id = tasks[n].id /\ tasks'[n].amount = tasks[n].amount
                         /\ tasks'[n].synced = tasks[n].synced
                         /\ tasks'[n].progress = IF j.at = "increment" /\ tasks[n].id = j.dlv.msg.tid
                                                 THEN tasks[n].progress + 1 ELSE tasks[n].progress
  <2>1. UNCHANGED accounts
    BY DEF RunQuery, StoreTransaction, CountTransfer, IncrementTask, EndOfTask
  <2> QED
    BY <1>a, <2>1, QueryEffect
<1>4. \A n \in Node : tasks[n].amount \in Nat /\ tasks[n].progress \in Nat
  BY <1>a DEF GraphTypeOK, Task
<1>5. ExactInv'
  <2> SUFFICES ASSUME NEW n \in Node, NEW t \in Request, tasks'[n].id = t
               PROVE  tasks'[n].amount = tasks'[n].progress + Outstanding(t)'
    BY DEF ExactInv
  <2>1. tasks[n].amount = tasks[n].progress + Outstanding(t)
    BY <1>a, <1>3 DEF ExactInv
  <2> QED
    BY <1>2, <1>3, <1>4, <2>1
<1>6. PatientInv'
  <2> SUFFICES ASSUME NEW q \in Request, Live(q)', req'[q].pc \in BeforeSend, NEW n \in Attached'
               PROVE  tasks'[n].amount = tasks'[n].progress
    BY DEF PatientInv, Settled
  <2>1. Live(q) /\ req[q].pc \in BeforeSend
    BY DEF Live
  <2>2. n \in Attached /\ n \in Node
    BY <1>3 DEF Attached
  <2>3. Outstanding(n.by) = 0 /\ tasks[n].id = n.by /\ n.by \in Request /\ tasks[n].amount = tasks[n].progress
    BY <2>1, <2>2, Ready DEF CalmInv, BeforeSend
  <2> QED
    BY <1>2, <1>3, <2>2, <2>3
<1>7. SizedInv'
  BY <1>a, <1>3 DEF SizedInv
<1> QED
  BY <1>1, <1>5, <1>6, <1>7

LEMMA QuietCalm ==
    ASSUME CalmInv, Quiet
    PROVE  FiniteInv' /\ ExactInv' /\ PatientInv' /\ SizedInv'
<1>1. /\ UNCHANGED tasks /\ accounts' \subseteq accounts
      /\ UNCHANGED req \/ Settled
  BY QuietFrame DEF CalmInv
<1>2. FiniteInv' /\ \A t \in Request : Outstanding(t)' = Outstanding(t)
  BY QuietOutstanding DEF CalmInv
<1>3. ExactInv'
  BY <1>1, <1>2 DEF CalmInv, ExactInv
<1>4. PatientInv'
  <2>1. Settled => Settled'
    BY <1>1 DEF Settled, Attached
  <2> QED
    BY <1>1, <2>1 DEF CalmInv, PatientInv, Live
<1> QED
  BY <1>1, <1>2, <1>3, <1>4 DEF CalmInv, SizedInv

LEMMA StepCalm == ASSUME MaxHeight <= Page PROVE CalmInv /\ [CalmNext]_vars => CalmInv'
<1> SUFFICES ASSUME CalmInv, [CalmNext]_vars PROVE CalmInv'
  OBVIOUS
<1>1. SteadyInv /\ [SerialNext]_vars /\ UNCHANGED faults
  BY CalmSteps DEF CalmInv
<1>2. TypeOK' /\ PricedInv' /\ FreshInv' /\ CountInv'
  BY <1>1, SerialIsNext, StepTypeOK, StepPriced, StepCount DEF SteadyInv
<1>3. SerialInv' /\ FlowInv' /\ OnceInv' /\ WindowInv'
  BY <1>1, StepSerial, StepFlow, StepOnce DEF SteadyInv
<1>4. FiniteInv' /\ ExactInv' /\ PatientInv' /\ SizedInv'
  BY CalmSteps, RequestCalm, QueryCalm, QuietCalm
<1> QED
  BY <1>2, <1>3, <1>4 DEF CalmInv, SteadyInv

LEMMA InitCalm == Init => CalmInv
<1> SUFFICES ASSUME Init PROVE CalmInv
  OBVIOUS
<1>1. SteadyInv
  BY InitTypeOK, InitPriced, InitCount, InitSerial, InitOnce, InitWay DEF SteadyInv
<1>2. \A n \in Node : tasks[n].id = None
  BY DEF Init, GraphInit, NoTask
<1>3. \A r \in Request : req[r].pc = "new"
  BY DEF Init, ReqInit
<1> QED
  BY <1>1, <1>2, <1>3, ConstantsAssumption DEF CalmInv, ExactInv, PatientInv, SizedInv, Live

\* What GET /task/progress tells a client that waits for its answers and then for its
\* tasks, is exact at every step: amount - progress of a task is the number of its
\* signatures on their way, as long as the history fits the page of signatures.
THEOREM ProgressIsExact ==
    ASSUME MaxHeight <= Page
    PROVE  CalmSpec => []ProgressExact
<1>1. CalmInv => ProgressExact
  <2> SUFFICES ASSUME CalmInv, NEW n \in Attached
               PROVE  tasks[n].amount = tasks[n].progress + Outstanding(tasks[n].id)
    BY DEF ProgressExact
  <2>1. n \in Node /\ tasks[n].id \in Request
    BY DEF Attached, CalmInv, SteadyInv, TypeOK, GraphTypeOK, Task
  <2> QED
    BY <2>1 DEF CalmInv, ExactInv
<1> QED
  BY <1>1, InitCalm, StepCalm, PTL DEF CalmSpec

\* A repeated sync of such a client takes nothing back: it is armed where it was.
THEOREM ProgressOnlyGrows ==
    ASSUME MaxHeight <= Page
    PROVE  CalmSpec => ProgressNeverFalls
<1>1. CalmInv /\ [CalmNext]_vars => [\A n \in Attached : tasks'[n].progress >= tasks[n].progress]_vars
  <2> SUFFICES ASSUME CalmInv, [CalmNext]_vars, NEW n \in Attached
               PROVE  tasks'[n].progress >= tasks[n].progress
    OBVIOUS
  <2>a. TypeOK /\ GraphTypeOK /\ n \in Node /\ tasks[n].progress \in Nat /\ tasks[n].id # None
    BY DEF Attached, CalmInv, SteadyInv, TypeOK, GraphTypeOK, Task
  <2>1. CASE \E r \in Request : RequestStep(r) /\ UNCHANGED <<collectorVars, keeperVars>>
    <3>1. PICK r \in Request : RequestStep(r)
      BY <2>1
    <3>2. tasks'[n].id # None
      BY <2>a, <3>1, OwnTasksStep DEF CalmInv, SteadyInv, SerialInv
    <3> QED
      BY <2>a, <3>1, <3>2, ArmedAgain DEF CalmInv
  <2>2. CASE \E j \in jobs : RunQuery(j) /\ UNCHANGED <<req, collectorVars>>
    BY <2>a, <2>2, QueryEffect
  <2>3. CASE Quiet
    BY <2>a, <2>3, QuietFrame DEF CalmInv
  <2> QED
    BY <2>1, <2>2, <2>3, CalmSteps
<1> QED
  <2>1. CalmSpec => [][\A n \in Attached : tasks'[n].progress >= tasks[n].progress]_vars
    BY <1>1, InitCalm, StepCalm, PTL DEF CalmSpec
  <2> QED
    BY <2>1 DEF ProgressNeverFalls

---------------------------------------------------------------------------
(* What a task that reads complete has behind it.                           *)

\* A complete task of the account has stamped it, or its last job is about to.
StampedInv ==
    \A n \in Attached : tasks[n].amount > 0 /\ tasks[n].amount = tasks[n].progress =>
        taskUpdatedAt[n.acc] # None \/ \E j \in jobs : j.at = "end" /\ j.dlv.msg.tid = n.by

\* Whatever is stored on a task of the account is counted, or its job is about to.
CountedInv ==
    \A n \in Attached : tasks[n].transferCount + Cardinality(Uncounted(n.by)) = Transactions(n)

\* The quiet steps start jobs with their first query, and end none.
LEMMA QuietJobs ==
    ASSUME CalmInv, Quiet
    PROVE  /\ jobs \subseteq jobs' /\ \A j \in jobs' \ jobs : j.at \in {"store", "increment"}
           /\ \A a \in accounts' : taskUpdatedAt'[a] = taskUpdatedAt[a]
<1>1. CASE Idle /\ Settled /\ Clients
  <2>1. UNCHANGED jobs
    BY <1>1 DEF Clients, keeperVars
  <2>2. taskUpdatedAt \in [Request -> Request \cup {None}] /\ accounts \subseteq Request
    BY DEF CalmInv, SteadyInv, TypeOK, GraphTypeOK
  <2>3. \A a \in accounts' : taskUpdatedAt'[a] = taskUpdatedAt[a]
    BY <1>1, <2>2 DEF Clients, NewRequest, PostAccount, PostSync, PostResync, DeleteMine, dbVars, graphVars
  <2> QED
    BY <2>1, <2>3
<1>2. CASE \E c \in Collectors : CollectorStep(c) /\ UNCHANGED <<req, keeperVars>>
  BY <1>2 DEF CollectorStep, TakeMessage, CollectQueries, PriceThrows, CatchQueries, graphVars, keeperVars
<1>3. CASE \E k \in Keepers : TakeDelivery(k) /\ UNCHANGED <<req, collectorVars>>
  <2>1. PICK k \in Keepers, d \in queryTopic :
               jobs' = jobs \cup {[dlv |-> d, keeper |-> k, at |-> FirstQuery(d)]}
    BY <1>3 DEF TakeDelivery
  <2>2. UNCHANGED taskUpdatedAt
    BY <1>3 DEF TakeDelivery, graphVars
  <2> QED
    BY <2>1, <2>2 DEF FirstQuery
<1>4. CASE Environment \/ UNCHANGED vars
  BY <1>4 DEF Environment, Grow, FetchPrices, vars, graphVars, keeperVars
<1> QED
  BY <1>1, <1>2, <1>3, <1>4 DEF Quiet

\* Where the account's tasks come from.
LEMMA StillAttached ==
    ASSUME SteadyInv, \/ \E j \in jobs : RunQuery(j)
                      \/ Quiet
    PROVE  Attached' \subseteq Attached
<1>1. CASE \E j \in jobs : RunQuery(j)
  <2>1. UNCHANGED accounts
    BY <1>1 DEF RunQuery, StoreTransaction, CountTransfer, IncrementTask, EndOfTask
  <2>2. \A n \in Node : tasks'[n].id = tasks[n].id
    BY <1>1, QueryEffect DEF SteadyInv, TypeOK
  <2> QED
    BY <2>1, <2>2 DEF Attached
<1>2. CASE Quiet
  BY <1>2, QuietFrame DEF Attached
<1> QED
  BY <1>1, <1>2

LEMMA StepStamped ==
    ASSUME MaxHeight <= Page, CalmInv, StampedInv, [CalmNext]_vars
    PROVE  StampedInv'
<1>a. /\ SteadyInv /\ ExactInv /\ PatientInv /\ SizedInv /\ TypeOK /\ GraphTypeOK /\ SerialInv /\ OwnTasks
      /\ KeeperTypeOK
  BY DEF CalmInv, SteadyInv, TypeOK, SerialInv
<1> SUFFICES ASSUME NEW n \in Attached', tasks'[n].amount > 0, tasks'[n].amount = tasks'[n].progress
             PROVE  taskUpdatedAt'[n.acc] # None \/ \E j \in jobs' : j.at = "end" /\ j.dlv.msg.tid = n.by
  BY DEF StampedInv
<1>b. n \in Node /\ n.acc \in accounts' /\ tasks'[n].id # None
  BY DEF Attached
<1>1. ASSUME NEW r \in Request, RequestStep(r), UNCHANGED <<collectorVars, keeperVars>>
      PROVE  taskUpdatedAt'[n.acc] # None \/ \E j \in jobs' : j.at = "end" /\ j.dlv.msg.tid = n.by
  <2>1. UNCHANGED <<taskUpdatedAt, jobs>>
    BY <1>1 DEF keeperVars, RequestStep, CheckAccount, InsertAccount, GetMine, RecheckAccount, ListSignatures,
                ReadTask, ArmTasks, CreateTasks, SendMessages, dbVars, graphVars
  <2>2. n \in Attached /\ tasks[n].amount > 0 /\ tasks[n].amount = tasks[n].progress
    <3>1. CASE tasks'[n] = tasks[n]
      BY <1>1, <1>a, <1>b, <3>1, RequestAttached
    <3>2. CASE tasks'[n] # tasks[n]
      BY <1>1, <1>a, <1>b, <3>2, ArmedAgain
    <3> QED
      BY <3>1, <3>2
  <2> QED
    BY <2>1, <2>2 DEF StampedInv
<1>2. ASSUME NEW j \in jobs, RunQuery(j), UNCHANGED <<req, collectorVars>>
      PROVE  taskUpdatedAt'[n.acc] # None \/ \E i \in jobs' : i.at = "end" /\ i.dlv.msg.tid = n.by
  <2> DEFINE next == [j EXCEPT !.at = QueryAfter[j.at]]
  <2>1. /\ jobs' = IF j.at = "end" THEN jobs \ {j} ELSE (jobs \ {j}) \cup {next}
        /\ next.dlv = j.dlv /\ j \in Job
        /\ j.at # "end" => next.at = QueryAfter[j.at]
    BY <1>2, <1>a DEF RunQuery, KeeperTypeOK, Job, Query
  <2> HIDE DEF next
  <2>2. /\ tasks'[n].id = tasks[n].id /\ tasks'[n].amount = tasks[n].amount
        /\ tasks'[n].progress = IF j.at = "increment" /\ tasks[n].id = j.dlv.msg.tid
                                THEN tasks[n].progress + 1 ELSE tasks[n].progress
    BY <1>2, <1>a, <1>b, QueryEffect
  <2>3. n \in Attached /\ tasks[n].id = n.by /\ n.acc \in Request
    BY <1>2, <1>a, <1>b, <2>2, StillAttached DEF OwnTasks, Node
  <2>4. CASE j.at = "increment" /\ j.dlv.msg.tid = n.by
    BY <2>1, <2>4 DEF QueryAfter
  <2>5. CASE j.at = "end" /\ j.dlv.msg.tid = n.by
    <3>1. taskUpdatedAt'[n.acc] = j.dlv.msg.req
      <4>1. EndOfTask(j.dlv.msg)
        BY <1>2, <2>5 DEF RunQuery
      <4>2. n \in {p \in Attached : tasks[p].id = j.dlv.msg.tid /\ tasks[p].amount = tasks[p].progress}
        BY <2>2, <2>3, <2>5
      <4> QED
        BY <2>3, <4>1, <4>2 DEF EndOfTask
    <3>2. j.dlv.msg.req \in Request
      BY <2>1 DEF Job, Delivery, Message
    <3> QED
      BY <3>1, <3>2, ConstantsAssumption
  <2>6. CASE j.dlv.msg.tid # n.by \/ j.at \in {"store", "count"}
    <3>1. taskUpdatedAt[n.acc] # None \/ \E i \in jobs : i.at = "end" /\ i.dlv.msg.tid = n.by
      BY <2>2, <2>3, <2>6 DEF StampedInv
    <3>2. taskUpdatedAt[n.acc] # None => taskUpdatedAt'[n.acc] # None
      <4>1. j.dlv.msg.req # None
        BY <2>1, ConstantsAssumption DEF Job, Delivery, Message
      <4>2. taskUpdatedAt'[n.acc] \in {taskUpdatedAt[n.acc], j.dlv.msg.req}
        BY <1>2, <1>a, <2>3 DEF RunQuery, StoreTransaction, CountTransfer, IncrementTask, EndOfTask, GraphTypeOK
      <4> QED
        BY <4>1, <4>2
    <3>3. \A i \in jobs : i.at = "end" /\ i.dlv.msg.tid = n.by => i \in jobs'
      BY <2>1, <2>6
    <3> QED
      BY <3>1, <3>2, <3>3
  <2> QED
    BY <2>1, <2>4, <2>5, <2>6 DEF Job, Query
<1>3. CASE Quiet
  <2>1. n \in Attached /\ UNCHANGED tasks
    BY <1>3, <1>a, StillAttached, QuietFrame
  <2>2. jobs \subseteq jobs' /\ taskUpdatedAt'[n.acc] = taskUpdatedAt[n.acc]
    BY <1>3, <1>b, QuietJobs
  <2> QED
    BY <2>1, <2>2 DEF StampedInv
<1> QED
  BY <1>1, <1>2, <1>3, CalmSteps

LEMMA StepCounted ==
    ASSUME MaxHeight <= Page, CalmInv, CountedInv, [CalmNext]_vars
    PROVE  CountedInv'
<1>a. /\ SteadyInv /\ ExactInv /\ PatientInv /\ SizedInv /\ TypeOK /\ GraphTypeOK /\ SerialInv /\ OwnTasks
      /\ KeeperTypeOK /\ FiniteInv /\ IsFiniteSet(jobs)
  BY DEF CalmInv, SteadyInv, TypeOK, SerialInv, FiniteInv
<1> SUFFICES ASSUME NEW n \in Attached'
             PROVE  tasks'[n].transferCount + Cardinality(Uncounted(n.by)') = Transactions(n)'
  BY DEF CountedInv
<1>b. n \in Node /\ tasks'[n].id # None /\ tasks[n] \in Task /\ stored[n] \in [Sig -> Nat]
  BY <1>a DEF Attached, GraphTypeOK
<1>c. /\ IsFiniteSet(Uncounted(n.by)) /\ Cardinality(Uncounted(n.by)) \in Nat
      /\ tasks[n].transferCount \in Nat /\ Transactions(n) \in Nat
  <2>1. Uncounted(n.by) \subseteq jobs
    BY DEF Uncounted
  <2> QED
    BY <1>a, <1>b, <2>1, CardBounds, TransactionsNat DEF Task
<1>1. ASSUME NEW r \in Request, RequestStep(r), UNCHANGED <<collectorVars, keeperVars>>
      PROVE  tasks'[n].transferCount + Cardinality(Uncounted(n.by)') = Transactions(n)'
  <2>1. UNCHANGED <<stored, jobs>>
    BY <1>1, RequestFrame DEF keeperVars
  <2>2. Uncounted(n.by)' = Uncounted(n.by) /\ Transactions(n)' = Transactions(n)
    BY <2>1 DEF Uncounted, Transactions
  <2>3. CASE n \in Attached
    <3>1. tasks'[n].transferCount = tasks[n].transferCount
      BY <1>1, <1>a, <1>b, <2>3, ArmedAgain DEF Attached
    <3> QED
      BY <2>2, <2>3, <3>1 DEF CountedInv
  <2>4. CASE n \notin Attached
    <3>1. tasks[n].id = None
      BY <1>1, <1>a, <2>4, RequestAttached
    <3>2. tasks'[n].transferCount = 0 /\ Outstanding(n.by) = 0 /\ n.by \in Request
      BY <1>1, <1>a, <1>b, <3>1, ArmedAgain
    <3>3. Transactions(n) = 0
      <4>1. \A s \in Sig : stored[n][s] = 0
        BY <1>a, <1>b, <3>1 DEF SteadyInv, OnceInv, StoredOnce
      <4> QED
        BY <4>1, NoCopies DEF Transactions
    <3>4. Cardinality(Uncounted(n.by)) = 0
      <4>1. Uncounted(n.by) \subseteq InJobs(n.by)
        BY DEF Uncounted, InJobs
      <4>2. /\ IsFiniteSet(InJobs(n.by)) /\ Cardinality(InJobs(n.by)) = 0
        BY <1>a, <3>2, PartsFinite, WaitingParts, UnsentKept DEF Outstanding, SerialInv
      <4> QED
        BY <1>c, <4>1, <4>2, CardBounds
    <3> QED
      BY <2>2, <3>2, <3>3, <3>4
  <2> QED
    BY <2>3, <2>4
<1>2. ASSUME NEW j \in jobs, RunQuery(j), UNCHANGED <<req, collectorVars>>
      PROVE  tasks'[n].transferCount + Cardinality(Uncounted(n.by)') = Transactions(n)'
  <2> DEFINE next == [j EXCEPT !.at = QueryAfter[j.at]]
  <2>1. /\ jobs' = IF j.at = "end" THEN jobs \ {j} ELSE (jobs \ {j}) \cup {next}
        /\ next.dlv = j.dlv /\ j \in Job
        /\ j.at # "end" => next.at = QueryAfter[j.at]
    BY <1>2, <1>a DEF RunQuery, KeeperTypeOK, Job, Query
  <2> HIDE DEF next
  <2>2. n \in Attached /\ tasks[n].id = n.by
    BY <1>2, <1>a, <1>b, StillAttached DEF OwnTasks, Attached
  <2>3. tasks[n].transferCount + Cardinality(Uncounted(n.by)) = Transactions(n)
    BY <2>2 DEF CountedInv
  <2>4. /\ stored'[n] \in [Sig -> Nat]
        /\ tasks'[n].transferCount = IF j.at = "count" /\ j.dlv.msg.tid = n.by
                                     THEN tasks[n].transferCount + 1 ELSE tasks[n].transferCount
        /\ \A s \in Sig : stored'[n][s] =
                IF j.at = "store" /\ j.dlv.msg.tid = n.by /\ s = j.dlv.msg.sig
                THEN stored[n][s] + 1 ELSE stored[n][s]
    BY <1>2, <1>a, <1>b, <2>2, QueryEffect
  <2>5. CASE j.at = "store" /\ j.dlv.msg.tid = n.by
    <3>1. j.dlv.msg.sig \in Sig
      BY <2>1 DEF Job, Delivery, Message
    <3>2. Transactions(n)' = Transactions(n) + 1
      BY <1>b, <2>4, <2>5, <3>1, SigFinite, OneMoreCopy DEF Transactions
    <3>3. Uncounted(n.by)' = Uncounted(n.by) \cup {next} /\ next \notin Uncounted(n.by)
      <4>1. next \notin jobs
        BY <1>a, <2>1, <2>5 DEF SteadyInv, FlowInv, JobsApart, QueryAfter
      <4> QED
        BY <2>1, <2>5, <4>1 DEF Uncounted, QueryAfter
    <3>4. Cardinality(Uncounted(n.by)') = Cardinality(Uncounted(n.by)) + 1
      BY <1>c, <3>3, CardMoves
    <3> QED
      BY <1>c, <2>3, <2>4, <2>5, <3>2, <3>4
  <2>6. CASE ~(j.at = "store" /\ j.dlv.msg.tid = n.by)
    <3>1. Transactions(n)' = Transactions(n)
      BY <1>b, <2>4, <2>6, SameCopies DEF Transactions
    <3>2. CASE j.at = "count" /\ j.dlv.msg.tid = n.by
      <4>1. j \in Uncounted(n.by) /\ Uncounted(n.by)' = Uncounted(n.by) \ {j}
        BY <2>1, <3>2 DEF Uncounted, QueryAfter
      <4>2. Cardinality(Uncounted(n.by)') \in Nat /\ Cardinality(Uncounted(n.by)) = Cardinality(Uncounted(n.by)') + 1
        BY <1>c, <4>1, CardMoves
      <4> QED
        BY <1>c, <2>3, <2>4, <3>1, <3>2, <4>2
    <3>3. CASE ~(j.at = "count" /\ j.dlv.msg.tid = n.by)
      <4>1. Uncounted(n.by)' = Uncounted(n.by)
        BY <2>1, <2>6, <3>3 DEF Uncounted, QueryAfter, Job, Query
      <4> QED
        BY <2>3, <2>4, <3>1, <3>3, <4>1
    <3> QED
      BY <3>2, <3>3
  <2> QED
    BY <2>5, <2>6
<1>3. CASE Quiet
  <2>1. n \in Attached /\ UNCHANGED <<tasks, stored>>
    BY <1>3, <1>a, StillAttached, QuietFrame
  <2>2. Uncounted(n.by)' = Uncounted(n.by)
    BY <1>3, QuietJobs DEF Uncounted
  <2> QED
    BY <2>1, <2>2 DEF CountedInv, Transactions
<1> QED
  BY <1>1, <1>2, <1>3, CalmSteps

LEMMA NothingOnTheWay ==
    ASSUME CalmInv, NEW t \in Request, Outstanding(t) = 0
    PROVE  Unsent(t) = {} /\ InTopic(t) = {} /\ InHands(t) = {} /\ InQueries(t) = {} /\ InJobs(t) = {}
<1>1. /\ IsFiniteSet(InTopic(t)) /\ IsFiniteSet(InHands(t)) /\ IsFiniteSet(InQueries(t)) /\ IsFiniteSet(InJobs(t))
      /\ Cardinality(InTopic(t)) \in Nat /\ Cardinality(InHands(t)) \in Nat
      /\ Cardinality(InQueries(t)) \in Nat /\ Cardinality(InJobs(t)) \in Nat
  BY PartsFinite DEF CalmInv, SteadyInv
<1>2. IsFiniteSet(Unsent(t)) /\ Cardinality(Unsent(t)) \in Nat
  BY UnsentKept DEF CalmInv, SteadyInv, SerialInv
<1>3. /\ Cardinality(Unsent(t)) = 0 /\ Cardinality(InTopic(t)) = 0 /\ Cardinality(InHands(t)) = 0
      /\ Cardinality(InQueries(t)) = 0 /\ Cardinality(InJobs(t)) = 0
  <2>1. Cardinality(Unsent(t)) + Waiting(t) = 0
    BY DEF Outstanding
  <2>2. Waiting(t) = Cardinality(InTopic(t)) + Cardinality(InHands(t))
                     + Cardinality(InQueries(t)) + Cardinality(InJobs(t))
    BY WaitingParts
  <2> QED
    BY <1>1, <1>2, <2>1, <2>2
<1> QED
  BY <1>1, <1>2, <1>3, FS_EmptySet

\* A task that reads complete has nothing on its way.
LEMMA CompleteIsIdle ==
    ASSUME CalmInv, NEW n \in Attached, tasks[n].amount = tasks[n].progress
    PROVE  /\ n \in Node /\ n.by \in Request /\ tasks[n].id = n.by /\ Outstanding(n.by) = 0
           /\ Unsent(n.by) = {} /\ InTopic(n.by) = {} /\ InHands(n.by) = {} /\ InQueries(n.by) = {}
           /\ InJobs(n.by) = {}
<1>1. /\ n \in Node /\ tasks[n].id = n.by /\ n.by \in Request
      /\ tasks[n].amount \in Nat /\ tasks[n].progress \in Nat
  BY DEF CalmInv, SteadyInv, SerialInv, OwnTasks, Attached, Node, TypeOK, GraphTypeOK, Task
<1>2. tasks[n].amount = tasks[n].progress + Outstanding(n.by)
  BY <1>1 DEF CalmInv, ExactInv
<1>3. Outstanding(n.by) \in Nat
  <2>1. Cardinality(Unsent(n.by)) \in Nat /\ Waiting(n.by) \in Nat
    BY <1>1, UnsentKept, PartsFinite DEF CalmInv, SteadyInv, SerialInv
  <2> QED
    BY <2>1 DEF Outstanding
<1>4. Outstanding(n.by) = 0
  BY <1>1, <1>2, <1>3
<1> QED
  BY <1>1, <1>4, NothingOnTheWay

\* The signature s of task id t is on its way to its increment.
Under(t, s) ==
    \/ \E r \in Request : req[r].pc = "send" /\ req[r].tid = t /\ s \in req[r].sigs \ req[r].known
    \/ \E m \in signatureTopic : m.tid = t /\ m.sig = s
    \/ \E c \in Collectors : hand[c] # None /\ hand[c].msg.tid = t /\ hand[c].msg.sig = s
    \/ \E d \in queryTopic : d.msg.tid = t /\ d.msg.sig = s
    \/ \E j \in jobs : j.dlv.msg.tid = t /\ j.dlv.msg.sig = s /\ j.at # "end"

\* What is complete has nothing on its way.
LEMMA NothingUnder ==
    ASSUME CalmInv, NEW t \in Request, Outstanding(t) = 0, NEW s \in Sig
    PROVE  ~Under(t, s)
<1>1. Unsent(t) = {} /\ InTopic(t) = {} /\ InHands(t) = {} /\ InQueries(t) = {} /\ InJobs(t) = {}
  BY NothingOnTheWay
<1>2. ASSUME NEW r \in Request, req[r].pc = "send", req[r].tid = t, s \in req[r].sigs \ req[r].known
      PROVE  FALSE
  <2>1. [req |-> r, sig |-> s, tid |-> t] \in MessagesOf(r)
    BY <1>2 DEF MessagesOf
  <2> QED
    BY <1>1, <1>2, <2>1 DEF Unsent
<1> QED
  BY <1>1, <1>2 DEF Under, InTopic, InHands, InQueries, InJobs

\* A transfer that is sure to have its price.
Certain == Transfers \cap (1 .. PricedAtStart)

\* The transaction s of task id t is still to be stored: it is to be sent, waits for a
\* collector or is at one that has not found it and did not fail, or its queries
\* wait for a keeper or for their job.
ToStore(t, s) ==
    \/ \E r \in Request : req[r].pc = "send" /\ req[r].tid = t /\ s \in req[r].sigs \ req[r].known
    \/ \E m \in signatureTopic : m.tid = t /\ m.sig = s
    \/ \E c \in Collectors : /\ hand[c] # None /\ hand[c].msg.tid = t /\ hand[c].msg.sig = s
                             /\ hand[c].at = "try" /\ ~hand[c].exists
    \/ \E d \in queryTopic : d.msg.tid = t /\ d.msg.sig = s /\ d.path = "store"
    \/ \E j \in jobs : j.dlv.msg.tid = t /\ j.dlv.msg.sig = s /\ j.at = "store"

\* What is synced and certain is stored, or on its way to be.
StoresInv ==
    /\ PricedAtStart <= priced
    /\ \A n \in Attached : \A s \in tasks[n].synced \cap Certain : stored[n][s] > 0 \/ ToStore(n.by, s)

LEMMA RequestToStore ==
    ASSUME CalmInv, NEW r \in Request, RequestStep(r), UNCHANGED <<collectorVars, keeperVars>>,
           NEW t \in Request, NEW s \in Sig, ToStore(t, s)
    PROVE  ToStore(t, s)'
<1>a. TypeOK /\ ReqTypeOK /\ RequestsOK /\ UNCHANGED <<queryTopic, hand, jobs>>
  BY RequestFrame DEF CalmInv, SteadyInv, TypeOK, SerialInv, collectorVars, keeperVars
<1>1. signatureTopic \subseteq signatureTopic'
  BY RequestFrame
<1>2. ASSUME NEW q \in Request, req[q].pc = "send", req[q].tid = t, s \in req[q].sigs \ req[q].known
      PROVE  \E m \in signatureTopic' : m.tid = t /\ m.sig = s
  <2>1. q = r
    BY <1>a, <1>2, RunsAlone DEF Live, Ended
  <2>2. SendMessages(r)
    BY <1>2, <2>1 DEF RequestStep, CheckAccount, InsertAccount, GetMine, RecheckAccount, ListSignatures,
                      ReadTask, ArmTasks, CreateTasks
  <2>3. [req |-> r, sig |-> s, tid |-> t] \in signatureTopic'
    BY <1>2, <2>1, <2>2 DEF SendMessages, MessagesOf
  <2> QED
    BY <2>3
<1> QED
  BY <1>a, <1>1, <1>2 DEF ToStore

LEMMA QuietToStore ==
    ASSUME CalmInv, StoresInv, Quiet, NEW t \in Request, NEW s \in Certain, ToStore(t, s)
    PROVE  ToStore(t, s)' \/ Exists(s)
<1>a. TypeOK /\ CollectorTypeOK /\ GraphTypeOK /\ priced \in Int /\ PricedAtStart <= priced
  BY ConstantsAssumption DEF CalmInv, SteadyInv, TypeOK, GraphTypeOK, StoresInv
<1>b. s \in Transfers /\ s \in Int /\ s <= priced
  BY <1>a, ConstantsAssumption DEF Certain
<1>1. CASE Idle /\ Settled /\ Clients
  <2>1. UNCHANGED <<signatureTopic, queryTopic, hand, jobs>>
    BY <1>1, <1>a, ClientFrame DEF collectorVars, keeperVars
  <2>2. \A r \in Request : req[r].pc # "send"
    BY <1>1 DEF Idle, Live, Ended
  <2> QED
    BY <2>1, <2>2 DEF ToStore
<1>2. ASSUME NEW c \in Collectors, CollectorStep(c), UNCHANGED <<req, keeperVars>>
      PROVE  ToStore(t, s)' \/ Exists(s)
  <2>a. UNCHANGED <<req, jobs>>
    BY <1>2 DEF keeperVars
  <2>1. CASE TakeMessage(c)
    <3>1. PICK m \in signatureTopic :
                 /\ signatureTopic' = signatureTopic \ {m} /\ hand[c] = None /\ UNCHANGED queryTopic
                 /\ hand' = [hand EXCEPT ![c] = [msg |-> m, exists |-> Exists(m.sig), at |-> "try"]]
      BY <2>1 DEF TakeMessage
    <3>2. [msg |-> m, exists |-> Exists(m.sig), at |-> "try"] # None
      <4>1. Exists(m.sig) \in BOOLEAN /\ m \in Message
        BY <1>a DEF Exists, GraphTypeOK
      <4>2. \A b \in BOOLEAN : [msg |-> m, exists |-> b, at |-> "try"] \in InHand
        BY <4>1 DEF InHand
      <4> QED
        BY <4>1, <4>2, IdleHandAssumption
    <3>3. /\ hand'[c] # None /\ hand'[c].msg = m /\ hand'[c].at = "try" /\ hand'[c].exists = Exists(m.sig)
          /\ \A x \in Collectors : hand[x] # None => hand'[x] = hand[x]
      BY <1>a, <3>1, <3>2 DEF CollectorTypeOK
    <3>4. CASE m.tid = t /\ m.sig = s
      BY <3>3, <3>4 DEF ToStore
    <3>5. CASE ~(m.tid = t /\ m.sig = s)
      BY <2>a, <3>1, <3>3, <3>5 DEF ToStore
    <3> QED
      BY <3>4, <3>5
  <2>2. CASE PriceThrows(c)
    <3>1. /\ UNCHANGED <<signatureTopic, queryTopic>> /\ hand[c].msg.sig > priced
          /\ \A x \in Collectors \ {c} : hand'[x] = hand[x]
      BY <1>a, <2>2 DEF PriceThrows, PriceMissing, CollectorTypeOK
    <3>2. hand[c].msg.sig # s
      BY <1>a, <1>b, <3>1
    <3> QED
      BY <2>a, <3>1, <3>2 DEF ToStore
  <2>3. CASE CollectQueries(c)
    <3>1. /\ UNCHANGED signatureTopic /\ \A x \in Collectors \ {c} : hand'[x] = hand[x]
          /\ queryTopic' = queryTopic \cup {[msg |-> hand[c].msg, path |-> PathOf(hand[c]), copy |-> faults]}
      BY <1>a, <2>3 DEF CollectQueries, Publish, CollectorTypeOK
    <3>2. hand[c].msg.sig = s /\ ~hand[c].exists => PathOf(hand[c]) = "store"
      BY <1>b DEF PathOf
    <3>3. CASE hand[c].msg.tid = t /\ hand[c].msg.sig = s /\ ~hand[c].exists
      <4>1. [msg |-> hand[c].msg, path |-> "store", copy |-> faults] \in queryTopic'
        BY <3>1, <3>2, <3>3
      <4> QED
        BY <3>3, <4>1 DEF ToStore
    <3>4. CASE ~(hand[c].msg.tid = t /\ hand[c].msg.sig = s /\ ~hand[c].exists)
      BY <2>a, <3>1, <3>4 DEF ToStore
    <3> QED
      BY <3>3, <3>4
  <2>4. CASE CatchQueries(c)
    <3>1. /\ UNCHANGED signatureTopic /\ queryTopic \subseteq queryTopic' /\ hand[c].at = "catch"
          /\ \A x \in Collectors \ {c} : hand'[x] = hand[x]
      BY <1>a, <2>4 DEF CatchQueries, Publish, CollectorTypeOK
    <3> QED
      BY <2>a, <3>1 DEF ToStore
  <2> QED
    BY <1>2, <2>1, <2>2, <2>3, <2>4 DEF CollectorStep
<1>3. ASSUME NEW k \in Keepers, TakeDelivery(k), UNCHANGED <<req, collectorVars>>
      PROVE  ToStore(t, s)'
  <2>1. PICK d \in queryTopic :
               /\ queryTopic' = queryTopic \ {d}
               /\ jobs' = jobs \cup {[dlv |-> d, keeper |-> k, at |-> FirstQuery(d)]}
    BY <1>3 DEF TakeDelivery
  <2>2. UNCHANGED <<signatureTopic, hand, req>>
    BY <1>3 DEF TakeDelivery, collectorVars
  <2>3. CASE d.msg.tid = t /\ d.msg.sig = s /\ d.path = "store"
    <3>1. [dlv |-> d, keeper |-> k, at |-> "store"] \in jobs'
      BY <2>1, <2>3 DEF FirstQuery
    <3> QED
      BY <2>3, <3>1 DEF ToStore
  <2>4. CASE ~(d.msg.tid = t /\ d.msg.sig = s /\ d.path = "store")
    BY <2>1, <2>2, <2>4 DEF ToStore
  <2> QED
    BY <2>3, <2>4
<1>4. CASE Environment \/ UNCHANGED vars
  <2>1. UNCHANGED <<signatureTopic, queryTopic, hand, jobs, req>>
    BY <1>4 DEF Environment, Grow, FetchPrices, vars, collectorVars, keeperVars
  <2> QED
    BY <2>1 DEF ToStore
<1> QED
  BY <1>1, <1>2, <1>3, <1>4 DEF Quiet

LEMMA StepStores ==
    ASSUME MaxHeight <= Page, CalmInv, StoresInv, [CalmNext]_vars
    PROVE  StoresInv'
<1>a. /\ SteadyInv /\ ExactInv /\ PatientInv /\ SizedInv /\ TypeOK /\ GraphTypeOK /\ SerialInv /\ OwnTasks
      /\ OneAccount /\ KeeperTypeOK /\ priced \in Int /\ PricedAtStart \in Int
  BY ConstantsAssumption DEF CalmInv, SteadyInv, TypeOK, SerialInv, RequestsOK, GraphTypeOK
<1>b. \A s \in Certain : s \in Sig
  BY ConstantsAssumption DEF Certain, Sig
<1>1. PricedAtStart <= priced'
  <2>1. priced' = priced \/ FetchPrices
    <3>1. CASE \E r \in Request : RequestStep(r) /\ UNCHANGED <<collectorVars, keeperVars>>
      BY <3>1, RequestFrame DEF chainVars
    <3>2. CASE \E j \in jobs : RunQuery(j) /\ UNCHANGED <<req, collectorVars>>
      BY <3>2 DEF RunQuery, chainVars
    <3>3. CASE Idle /\ Settled /\ Clients
      BY <3>3, <1>a, ClientFrame DEF chainVars
    <3>4. CASE Quiet /\ ~(Idle /\ Settled /\ Clients)
      BY <3>4 DEF Quiet, CollectorStep, TakeMessage, CollectQueries, PriceThrows, CatchQueries,
                  TakeDelivery, Environment, Grow, vars, chainVars
    <3> QED
      BY <3>1, <3>2, <3>3, <3>4, CalmSteps
  <2>2. CASE FetchPrices
    <3>1. \E p \in priced + 1 .. height : priced' = p
      BY <2>2 DEF FetchPrices
    <3>2. height \in Int
      BY <1>a DEF GraphTypeOK
    <3> QED
      BY <1>a, <3>1, <3>2 DEF StoresInv
  <2> QED
    BY <2>1, <2>2 DEF StoresInv
<1>2. ASSUME NEW n \in Attached', NEW s \in Certain, s \in tasks'[n].synced
      PROVE  stored'[n][s] > 0 \/ ToStore(n.by, s)'
  <2>b. /\ n \in Node /\ tasks'[n].id # None /\ s \in Sig /\ n.by \in Request
        /\ stored[n] \in [Sig -> Nat] /\ stored[n][s] \in Nat
    <3>1. n \in Node /\ tasks'[n].id # None /\ s \in Sig
      BY <1>b DEF Attached
    <3>2. n.by \in Request /\ stored[n] \in [Sig -> Nat]
      BY <1>a, <3>1 DEF Node, GraphTypeOK
    <3> QED
      BY <3>1, <3>2
  <2>1. ASSUME NEW r \in Request, RequestStep(r), UNCHANGED <<collectorVars, keeperVars>>
        PROVE  stored'[n][s] > 0 \/ ToStore(n.by, s)'
    <3>1. UNCHANGED stored
      BY <2>1, RequestFrame
    <3>2. CASE n \in Attached /\ s \in tasks[n].synced
      <4>1. stored[n][s] > 0 \/ ToStore(n.by, s)
        BY <1>2, <3>2 DEF StoresInv
      <4> QED
        BY <2>1, <2>b, <3>1, <4>1, RequestToStore
    <3>3. CASE ~(n \in Attached /\ s \in tasks[n].synced)
      <4>1. tasks'[n] # tasks[n]
        BY <2>1, <2>b, <1>a, <1>2, <3>3, RequestAttached
      <4>2. /\ tasks'[n].synced = req[r].sigs /\ req'[r].pc = "send" /\ req'[r].tid = n.by
            /\ (n \in Attached /\ req[r].known = tasks[n].synced) \/ req[r].known = {}
            /\ req[r].pc # "send"
        BY <2>1, <2>b, <1>a, <4>1, ArmedAgain
      <4>3. ArmTasks(r) \/ CreateTasks(r)
        BY <2>1, <4>1, RequestFrame
      <4>4. req'[r].sigs = req[r].sigs /\ req'[r].known = req[r].known
        BY <1>a, <4>3, RequestMoves DEF ArmTasks, TypeOK, Moves, Becomes, Holds
      <4> QED
        BY <1>2, <3>3, <4>2, <4>4 DEF ToStore
    <3> QED
      BY <3>2, <3>3
  <2>2. ASSUME NEW j \in jobs, RunQuery(j), UNCHANGED <<req, collectorVars>>
        PROVE  stored'[n][s] > 0 \/ ToStore(n.by, s)'
    <3>1. n \in Attached /\ tasks[n].id = n.by
      BY <2>2, <2>b, <1>a, StillAttached DEF OwnTasks, Attached
    <3>2. /\ tasks'[n].synced = tasks[n].synced
          /\ stored'[n][s] = IF j.at = "store" /\ j.dlv.msg.tid = n.by /\ s = j.dlv.msg.sig
                             THEN stored[n][s] + 1 ELSE stored[n][s]
      BY <2>2, <1>a, <2>b, <3>1, QueryEffect
    <3>3. stored[n][s] > 0 \/ ToStore(n.by, s)
      BY <1>2, <3>1, <3>2 DEF StoresInv
    <3>4. CASE j.at = "store" /\ j.dlv.msg.tid = n.by /\ s = j.dlv.msg.sig
      BY <2>b, <3>2, <3>4
    <3>5. CASE ~(j.at = "store" /\ j.dlv.msg.tid = n.by /\ s = j.dlv.msg.sig)
      <4>1. UNCHANGED <<signatureTopic, queryTopic, hand, req>> /\ \A i \in jobs : i # j => i \in jobs'
        BY <2>2 DEF RunQuery, collectorVars
      <4>2. ToStore(n.by, s) => ToStore(n.by, s)'
        BY <3>5, <4>1 DEF ToStore
      <4> QED
        BY <3>2, <3>3, <3>5, <4>2
    <3> QED
      BY <3>4, <3>5
  <2>3. CASE Quiet
    <3>1. n \in Attached /\ UNCHANGED <<tasks, stored>>
      BY <2>3, <1>a, StillAttached, QuietFrame
    <3>2. stored[n][s] > 0 \/ ToStore(n.by, s)
      BY <1>2, <3>1 DEF StoresInv
    <3>3. Exists(s) => stored[n][s] > 0
      BY <1>a, <3>1, AttachedOne DEF Exists
    <3> QED
      BY <2>3, <2>b, <3>1, <3>2, <3>3, QuietToStore
  <2> QED
    BY <2>1, <2>2, <2>3, CalmSteps
<1> QED
  BY <1>1, <1>2 DEF StoresInv

LEMMA InitComplete == Init => StampedInv /\ CountedInv /\ StoresInv
<1> SUFFICES ASSUME Init PROVE StampedInv /\ CountedInv /\ StoresInv
  OBVIOUS
<1>1. Attached = {}
  BY DEF Init, GraphInit, Attached
<1>2. PricedAtStart <= priced
  BY ConstantsAssumption DEF Init, GraphInit
<1> QED
  BY <1>1, <1>2 DEF StampedInv, CountedInv, StoresInv

\* Once nothing of a task is under way the account of a patient client is stamped: the
\* increment that completes the task is seen by the last query of its own job.
THEOREM CompletionStampsAccount ==
    ASSUME MaxHeight <= Page
    PROVE  CalmSpec => []CompletionIsStamped
<1>1. CalmInv /\ StampedInv => CompletionIsStamped
  <2> SUFFICES ASSUME CalmInv, StampedInv, NEW n \in Attached,
                      tasks[n].amount > 0, Outstanding(tasks[n].id) = 0,
                      ~\E j \in jobs : j.dlv.msg.tid = tasks[n].id
               PROVE  taskUpdatedAt[n.acc] # None
    BY DEF CompletionIsStamped
  <2>1. /\ n \in Node /\ tasks[n].id = n.by /\ n.by \in Request
        /\ tasks[n].amount \in Nat /\ tasks[n].progress \in Nat
    BY DEF CalmInv, SteadyInv, SerialInv, OwnTasks, Attached, Node, TypeOK, GraphTypeOK, Task
  <2>2. tasks[n].amount = tasks[n].progress
    BY <2>1 DEF CalmInv, ExactInv
  <2> QED
    BY <2>1, <2>2 DEF StampedInv
<1>2. CalmInv /\ StampedInv /\ [CalmNext]_vars => (CalmInv /\ StampedInv)'
  BY StepCalm, StepStamped
<1> QED
  BY <1>1, <1>2, InitCalm, InitComplete, PTL DEF CalmSpec

\* The transferCount a patient client reads on a complete task is the number of
\* transactions on it: no count is still to come, and none was lost.
THEOREM CompleteCountsAreExact ==
    ASSUME MaxHeight <= Page
    PROVE  CalmSpec => []CountMatchesStored
<1>1. CalmInv /\ CountedInv => CountMatchesStored
  <2> SUFFICES ASSUME CalmInv, CountedInv, NEW n \in Attached, tasks[n].amount = tasks[n].progress
               PROVE  tasks[n].transferCount = Transactions(n)
    BY DEF CountMatchesStored
  <2>1. n \in Node /\ tasks[n].transferCount \in Nat
    BY DEF CalmInv, SteadyInv, Attached, TypeOK, GraphTypeOK, Task
  <2>2. Uncounted(n.by) = {}
    BY CompleteIsIdle DEF Uncounted, InJobs
  <2>3. Cardinality(Uncounted(n.by)) = 0
    BY <2>2, FS_EmptySet
  <2>4. tasks[n].transferCount + Cardinality(Uncounted(n.by)) = Transactions(n)
    BY DEF CountedInv
  <2> QED
    BY <2>1, <2>3, <2>4
<1>2. CalmInv /\ CountedInv /\ [CalmNext]_vars => (CalmInv /\ CountedInv)'
  BY StepCalm, StepCounted
<1> QED
  BY <1>1, <1>2, InitCalm, InitComplete, PTL DEF CalmSpec

\* A task that reads complete to a patient client shows every transfer it synced whose
\* price was there from the start.
THEOREM CompleteTasksAreStored ==
    ASSUME MaxHeight <= Page
    PROVE  CalmSpec => []CompleteMeansStored
<1>1. CalmInv /\ StoresInv => CompleteMeansStored
  <2> SUFFICES ASSUME CalmInv, StoresInv, NEW n \in Attached, tasks[n].amount = tasks[n].progress,
                      NEW s \in tasks[n].synced \cap Transfers, s <= PricedAtStart
               PROVE  stored[n][s] > 0
    BY DEF CompleteMeansStored
  <2>1. s \in Certain
    <3>1. s \in Transfers
      OBVIOUS
    <3>2. s \in 1 .. MaxHeight /\ MaxHeight \in Int /\ PricedAtStart \in Int
      BY <3>1, ConstantsAssumption
    <3>3. s \in 1 .. PricedAtStart
      BY <3>2
    <3> QED
      BY <3>1, <3>3 DEF Certain
  <2>2. stored[n][s] > 0 \/ ToStore(n.by, s)
    BY <2>1 DEF StoresInv
  <2>3. n.by \in Request /\ Outstanding(n.by) = 0 /\ s \in Sig
    BY CompleteIsIdle, ConstantsAssumption DEF Sig
  <2>4. ~Under(n.by, s)
    BY <2>3, NothingUnder
  <2>5. ~ToStore(n.by, s)
    BY <2>4 DEF ToStore, Under
  <2> QED
    BY <2>2, <2>5
<1>2. CalmInv /\ StoresInv /\ [CalmNext]_vars => (CalmInv /\ StoresInv)'
  BY StepCalm, StepStores
<1> QED
  BY <1>1, <1>2, InitCalm, InitComplete, PTL DEF CalmSpec

---------------------------------------------------------------------------
(* What the ledger shows is what the one task of the account shows.         *)

EmptyShown == Attached = {} => Promised = {} /\ Pending = {} /\ Entered = Ledger!NothingEntered

TaskShown ==
    \A n \in Attached : /\ Promised = tasks[n].synced
                        /\ \A s : s \in Pending <=> s \in Sig /\ Under(n.by, s)
                        /\ Entered = stored[n]

LEMMA NothingShown == EmptyShown
<1> SUFFICES ASSUME Attached = {} PROVE Promised = {} /\ Pending = {} /\ Entered = Ledger!NothingEntered
  BY DEF EmptyShown
<1>1. Promised = {} /\ Pending = {}
  BY DEF Promised, Pending
<1>2. \A s \in Sig : Cardinality(Copies(Attached, [n \in Node |-> stored[n][s]])) = 0
  BY NoCopies
<1> QED
  BY <1>1, <1>2 DEF Entered, Ledger!NothingEntered

\* A message of a request that is about to send.
LEMMA ToSend ==
    ASSUME NEW m
    PROVE  m \in UNION {MessagesOf(r) : r \in {q \in Request : req[q].pc = "send"}}
           <=> \E r \in Request : req[r].pc = "send" /\ m \in MessagesOf(r)
OBVIOUS

LEMMA OnTheWayParts ==
    ASSUME NEW m
    PROVE  m \in OnTheWay <=>
             \/ \E r \in Request : req[r].pc = "send" /\ m \in MessagesOf(r)
             \/ m \in signatureTopic
             \/ \E c \in Collectors : hand[c] # None /\ hand[c].msg = m
             \/ \E d \in queryTopic : d.msg = m
             \/ \E j \in jobs : j.at # "end" /\ j.dlv.msg = m
<1>1. m \in {hand[c].msg : c \in {x \in Collectors : hand[x] # None}}
      <=> \E c \in Collectors : hand[c] # None /\ hand[c].msg = m
  OBVIOUS
<1>2. m \in {d.msg : d \in queryTopic} <=> \E d \in queryTopic : d.msg = m
  OBVIOUS
<1>3. m \in {j.dlv.msg : j \in {x \in jobs : x.at # "end"}} <=> \E j \in jobs : j.at # "end" /\ j.dlv.msg = m
  OBVIOUS
<1> QED
  BY <1>1, <1>2, <1>3, ToSend DEF OnTheWay

LEMMA OneTaskShown == TypeOK /\ SerialInv => TaskShown
<1> SUFFICES ASSUME TypeOK, SerialInv, NEW n \in Attached
             PROVE  /\ Promised = tasks[n].synced
                    /\ \A s : s \in Pending <=> s \in Sig /\ Under(n.by, s)
                    /\ Entered = stored[n]
  BY DEF TaskShown
<1>a. /\ GraphTypeOK /\ ReqTypeOK /\ CollectorTypeOK /\ KeeperTypeOK
      /\ Attached = {n} /\ n \in Node /\ tasks[n].id = n.by
  <2>1. Attached = {n} /\ n \in Node /\ tasks[n].id = n.by
    BY AttachedOne DEF SerialInv, RequestsOK, OwnTasks, Attached
  <2> QED
    BY <2>1 DEF TypeOK
<1>1. Promised = tasks[n].synced
  BY <1>a DEF Promised
<1>2. ASSUME NEW s PROVE s \in Pending <=> s \in Sig /\ Under(n.by, s)
  <2>1. s \in Pending <=> \E m \in OnTheWay : m.tid = n.by /\ m.sig = s
    BY <1>a DEF Pending
  <2>2. ASSUME NEW m \in OnTheWay, m.tid = n.by, m.sig = s
        PROVE  s \in Sig /\ Under(n.by, s)
    <3>1. CASE \E r \in Request : req[r].pc = "send" /\ m \in MessagesOf(r)
      <4>1. PICK r \in Request : req[r].pc = "send" /\ m \in MessagesOf(r)
        BY <3>1
      <4>2. PICK x \in req[r].sigs \ req[r].known : m = [req |-> r, sig |-> x, tid |-> req[r].tid]
        BY <4>1 DEF MessagesOf
      <4>3. x = s /\ req[r].tid = n.by /\ req[r].sigs \subseteq Sig
        BY <1>a, <2>2, <4>2 DEF ReqTypeOK, ReqRecord
      <4> QED
        BY <4>1, <4>2, <4>3 DEF Under
    <3>2. CASE m \in signatureTopic
      BY <1>a, <2>2, <3>2 DEF Under, GraphTypeOK, Message
    <3>3. CASE \E c \in Collectors : hand[c] # None /\ hand[c].msg = m
      BY <1>a, <2>2, <3>3 DEF Under, CollectorTypeOK, InHand, Message
    <3>4. CASE \E d \in queryTopic : d.msg = m
      BY <1>a, <2>2, <3>4 DEF Under, GraphTypeOK, Delivery, Message
    <3>5. CASE \E j \in jobs : j.at # "end" /\ j.dlv.msg = m
      BY <1>a, <2>2, <3>5 DEF Under, KeeperTypeOK, Job, Delivery, Message
    <3> QED
      BY <2>2, <3>1, <3>2, <3>3, <3>4, <3>5, OnTheWayParts
  <2>3. ASSUME Under(n.by, s)
        PROVE  \E m \in OnTheWay : m.tid = n.by /\ m.sig = s
    <3>1. CASE \E r \in Request : req[r].pc = "send" /\ req[r].tid = n.by /\ s \in req[r].sigs \ req[r].known
      <4>1. PICK r \in Request : req[r].pc = "send" /\ req[r].tid = n.by /\ s \in req[r].sigs \ req[r].known
        BY <3>1
      <4>2. [req |-> r, sig |-> s, tid |-> n.by] \in MessagesOf(r)
        BY <4>1 DEF MessagesOf
      <4>3. [req |-> r, sig |-> s, tid |-> n.by] \in OnTheWay
        BY <4>1, <4>2, OnTheWayParts
      <4> QED
        BY <4>3
    <3>2. CASE \E m \in signatureTopic : m.tid = n.by /\ m.sig = s
      BY <3>2, OnTheWayParts
    <3>3. CASE \E c \in Collectors : hand[c] # None /\ hand[c].msg.tid = n.by /\ hand[c].msg.sig = s
      BY <3>3, OnTheWayParts
    <3>4. CASE \E d \in queryTopic : d.msg.tid = n.by /\ d.msg.sig = s
      BY <3>4, OnTheWayParts
    <3>5. CASE \E j \in jobs : j.dlv.msg.tid = n.by /\ j.dlv.msg.sig = s /\ j.at # "end"
      BY <3>5, OnTheWayParts
    <3> QED
      BY <2>3, <3>1, <3>2, <3>3, <3>4, <3>5 DEF Under
  <2> QED
    BY <2>1, <2>2, <2>3
<1>3. ASSUME NEW s \in Sig
      PROVE  Cardinality(Copies(Attached, [p \in Node |-> stored[p][s]])) = stored[n][s]
  <2>1. stored[n][s] \in Nat
    BY <1>a DEF GraphTypeOK
  <2>2. Copies(Attached, [p \in Node |-> stored[p][s]]) = {n} \X (1 .. stored[n][s])
    BY <1>a DEF Copies
  <2>3. IsFiniteSet({n}) /\ Cardinality({n}) = 1
    BY FS_Singleton
  <2>4. IsFiniteSet(1 .. stored[n][s]) /\ Cardinality(1 .. stored[n][s]) = stored[n][s]
    <3>1. 1 \in Int /\ stored[n][s] \in Int
      BY <2>1
    <3>2. IsFiniteSet(1 .. stored[n][s])
          /\ Cardinality(1 .. stored[n][s]) = IF 1 <= stored[n][s] THEN stored[n][s] - 1 + 1 ELSE 0
      BY <3>1, FS_Interval
    <3> QED
      BY <2>1, <3>2
  <2>5. Cardinality({n} \X (1 .. stored[n][s])) = Cardinality({n}) * Cardinality(1 .. stored[n][s])
    BY <2>3, <2>4, FS_Product
  <2>6. Cardinality({n}) * Cardinality(1 .. stored[n][s]) = 1 * stored[n][s]
    BY <2>3, <2>4
  <2>7. 1 * stored[n][s] = stored[n][s]
    BY <2>1
  <2> QED
    BY <2>2, <2>5, <2>6, <2>7, Zenon
<1>4. Entered = stored[n]
  <2>1. stored[n] = [s \in Sig |-> stored[n][s]]
    BY <1>a DEF GraphTypeOK
  <2> QED
    BY <1>3, <2>1, Zenon DEF Entered
<1> QED
  BY <1>1, <1>2, <1>4

\* The same of the next state.
LEMMA ShownNext == EmptyShown' /\ (TypeOK' /\ SerialInv' => TaskShown')
BY NothingShown, OneTaskShown, PTL

---------------------------------------------------------------------------
(* What the steps put on the way, and take off it.                          *)

\* A request adds what it did not know to the way of the task it arms, when it arms it.
Arms(r, t) == req[r].pc # "send" /\ req'[r].pc = "send" /\ req'[r].tid = t

LEMMA RequestUnder ==
    ASSUME CalmInv, NEW r \in Request, RequestStep(r), UNCHANGED <<collectorVars, keeperVars>>,
           NEW t \in Request, NEW s \in Sig
    PROVE  Under(t, s)' <=> Under(t, s) \/ (Arms(r, t) /\ s \in req[r].sigs \ req[r].known)
<1>a. TypeOK /\ ReqTypeOK /\ RequestsOK /\ UNCHANGED <<queryTopic, hand, jobs>>
  BY RequestFrame DEF CalmInv, SteadyInv, TypeOK, SerialInv, collectorVars, keeperVars
<1>b. \A q \in Request \ {r} : req[q].pc # "send" /\ req'[q].pc # "send"
  BY <1>a, RunsAlone DEF Live, Ended
<1>1. CASE SendMessages(r)
  <2>1. /\ req[r].pc = "send" /\ req'[r].pc = "done" /\ signatureTopic' = signatureTopic \cup MessagesOf(r)
    BY <1>a, <1>1, RequestMoves DEF SendMessages, Moves, Becomes, Holds
  <2>2. (\E m \in MessagesOf(r) : m.tid = t /\ m.sig = s)
        <=> req[r].tid = t /\ s \in req[r].sigs \ req[r].known
    <3>1. ASSUME NEW m \in MessagesOf(r), m.tid = t, m.sig = s
          PROVE  req[r].tid = t /\ s \in req[r].sigs \ req[r].known
      BY <3>1 DEF MessagesOf
    <3>2. ASSUME req[r].tid = t, s \in req[r].sigs \ req[r].known
          PROVE  [req |-> r, sig |-> s, tid |-> t] \in MessagesOf(r)
      BY <3>2 DEF MessagesOf
    <3> QED
      BY <3>1, <3>2
  <2> QED
    BY <1>a, <1>b, <2>1, <2>2 DEF Under, Arms
<1>2. CASE ~SendMessages(r)
  <2>1. req[r].pc # "send" /\ UNCHANGED signatureTopic
    BY <1>2 DEF RequestStep, CheckAccount, InsertAccount, GetMine, RecheckAccount, ListSignatures, ReadTask,
                ArmTasks, CreateTasks, dbVars
  <2>2. req'[r].pc = "send" => req'[r].sigs = req[r].sigs /\ req'[r].known = req[r].known
    BY <1>a, <1>2, RequestMoves DEF RequestStep, Moves, Becomes, Holds, AfterCheck, AfterRecheck
  <2> QED
    BY <1>a, <1>b, <2>1, <2>2 DEF Under, Arms
<1> QED
  BY <1>1, <1>2

LEMMA QuietUnder ==
    ASSUME CalmInv, Quiet, NEW t \in Request, NEW s \in Sig
    PROVE  Under(t, s)' <=> Under(t, s)
<1>a. TypeOK /\ CollectorTypeOK /\ GraphTypeOK
  BY DEF CalmInv, SteadyInv, TypeOK
<1>1. CASE Idle /\ Settled /\ Clients
  <2>1. UNCHANGED <<signatureTopic, queryTopic, hand, jobs>>
    BY <1>1, <1>a, ClientFrame DEF collectorVars, keeperVars
  <2>2. \A r \in Request : req[r].pc # "send" /\ req'[r].pc # "send"
    BY <1>1, <1>a, ClientFrame DEF Idle, Live, Ended
  <2> QED
    BY <2>1, <2>2 DEF Under
<1>2. ASSUME NEW c \in Collectors, CollectorStep(c), UNCHANGED <<req, keeperVars>>
      PROVE  Under(t, s)' <=> Under(t, s)
  <2>a. UNCHANGED <<req, jobs>>
    BY <1>2 DEF keeperVars
  <2>1. CASE TakeMessage(c)
    <3>1. PICK m \in signatureTopic :
                 /\ signatureTopic' = signatureTopic \ {m} /\ hand[c] = None /\ UNCHANGED queryTopic
                 /\ hand' = [hand EXCEPT ![c] = [msg |-> m, exists |-> Exists(m.sig), at |-> "try"]]
      BY <2>1 DEF TakeMessage
    <3>2. [msg |-> m, exists |-> Exists(m.sig), at |-> "try"] # None
      <4>1. Exists(m.sig) \in BOOLEAN /\ m \in Message
        BY <1>a DEF Exists, GraphTypeOK
      <4>2. \A b \in BOOLEAN : [msg |-> m, exists |-> b, at |-> "try"] \in InHand
        BY <4>1 DEF InHand
      <4> QED
        BY <4>1, <4>2, IdleHandAssumption
    <3>3. /\ hand'[c] # None /\ hand'[c].msg = m
          /\ \A x \in Collectors \ {c} : hand'[x] = hand[x]
      BY <1>a, <3>1, <3>2 DEF CollectorTypeOK
    <3> QED
      BY <2>a, <3>1, <3>3 DEF Under
  <2>2. CASE PriceThrows(c)
    <3>1. /\ UNCHANGED <<signatureTopic, queryTopic>> /\ hand[c] \in InHand
          /\ hand' = [hand EXCEPT ![c].at = "catch"]
      BY <1>a, <2>2 DEF PriceThrows, CollectorTypeOK
    <3>2. hand'[c] = [hand[c] EXCEPT !.at = "catch"] /\ \A x \in Collectors \ {c} : hand'[x] = hand[x]
      BY <1>a, <3>1 DEF CollectorTypeOK
    <3>3. hand'[c] \in InHand /\ hand'[c].msg = hand[c].msg
      BY <3>1, <3>2 DEF InHand
    <3>4. hand'[c] # None /\ hand[c] # None
      BY <3>1, <3>3, IdleHandAssumption
    <3> QED
      BY <2>a, <3>1, <3>2, <3>3, <3>4 DEF Under
  <2>3. CASE CollectQueries(c) \/ CatchQueries(c)
    <3>1. /\ UNCHANGED signatureTopic /\ hand' = [hand EXCEPT ![c] = None] /\ hand[c] # None
          /\ \E d \in {[msg |-> hand[c].msg, path |-> p, copy |-> faults] : p \in {PathOf(hand[c]), "skip"}} :
               queryTopic' = queryTopic \cup {d}
      BY <2>3 DEF CollectQueries, CatchQueries, Publish
    <3>2. PICK d : queryTopic' = queryTopic \cup {d} /\ d.msg = hand[c].msg
      BY <3>1
    <3>3. hand'[c] = None /\ \A x \in Collectors \ {c} : hand'[x] = hand[x]
      BY <1>a, <3>1 DEF CollectorTypeOK
    <3> QED
      BY <2>a, <3>1, <3>2, <3>3 DEF Under
  <2> QED
    BY <1>2, <2>1, <2>2, <2>3 DEF CollectorStep
<1>3. ASSUME NEW k \in Keepers, TakeDelivery(k), UNCHANGED <<req, collectorVars>>
      PROVE  Under(t, s)' <=> Under(t, s)
  <2>1. PICK d \in queryTopic :
               /\ queryTopic' = queryTopic \ {d}
               /\ jobs' = jobs \cup {[dlv |-> d, keeper |-> k, at |-> FirstQuery(d)]}
    BY <1>3 DEF TakeDelivery
  <2>2. UNCHANGED <<signatureTopic, hand, req>>
    BY <1>3 DEF TakeDelivery, collectorVars
  <2> DEFINE i == [dlv |-> d, keeper |-> k, at |-> FirstQuery(d)]
  <2>3. jobs' = jobs \cup {i} /\ i.dlv = d /\ i.at # "end"
    BY <2>1 DEF FirstQuery
  <2> HIDE DEF i
  <2> QED
    BY <2>1, <2>2, <2>3 DEF Under
<1>4. CASE Environment \/ UNCHANGED vars
  <2>1. UNCHANGED <<signatureTopic, queryTopic, hand, jobs, req>>
    BY <1>4 DEF Environment, Grow, FetchPrices, vars, collectorVars, keeperVars
  <2> QED
    BY <2>1 DEF Under
<1> QED
  BY <1>1, <1>2, <1>3, <1>4 DEF Quiet

\* A signature whose queries run is nowhere else.
LEMMA OnlyJob ==
    ASSUME CalmInv, NEW j \in jobs
    PROVE  LET t == j.dlv.msg.tid  s == j.dlv.msg.sig
           IN  /\ \A r \in Request : ~(req[r].pc = "send" /\ req[r].tid = t /\ s \in req[r].sigs \ req[r].known)
               /\ \A m \in signatureTopic : ~(m.tid = t /\ m.sig = s)
               /\ \A c \in Collectors : ~(hand[c] # None /\ hand[c].msg.tid = t /\ hand[c].msg.sig = s)
               /\ \A d \in queryTopic : ~(d.msg.tid = t /\ d.msg.sig = s)
               /\ \A i \in jobs : i.dlv.msg.tid = t /\ i.dlv.msg.sig = s => i = j
<1>a. /\ TypeOK /\ PricedInv /\ OneDelivery /\ OneMessage /\ JobsApart /\ GraphTypeOK /\ CollectorTypeOK
      /\ HeldIsFetched
  BY DEF CalmInv, SteadyInv, OnceInv, FlowInv, PricedInv, TypeOK
<1> DEFINE t == j.dlv.msg.tid
           s == j.dlv.msg.sig
<1>1. j.dlv \in Deliveries /\ j.dlv.msg \in Sent /\ j.dlv.msg \notin Uncollected
  BY <1>a, FlowSent DEF OneDelivery
<1>2. ASSUME NEW r \in Request, req[r].pc = "send", req[r].tid = t, s \in req[r].sigs \ req[r].known
      PROVE  FALSE
  <2>1. [req |-> r, sig |-> s, tid |-> t] \in MessagesOf(r) /\ Unannounced(r)
    BY <1>2 DEF MessagesOf, CalmInv, SteadyInv, WindowInv
  <2> QED
    BY <1>1, <2>1 DEF Unannounced
<1>3. ASSUME NEW m \in signatureTopic, m.tid = t, m.sig = s PROVE FALSE
  <2>1. m \in Sent /\ m \in Message
    BY <1>a, FlowSent DEF GraphTypeOK
  <2>2. m = j.dlv.msg
    BY <1>a, <1>1, <1>3, <2>1 DEF OneMessage
  <2> QED
    BY <1>1, <2>1, <2>2 DEF Uncollected
<1>4. ASSUME NEW c \in Collectors, hand[c] # None, hand[c].msg.tid = t, hand[c].msg.sig = s PROVE FALSE
  <2>1. hand[c].msg \in Sent /\ hand[c].msg \in Message
    BY <1>a, <1>4, FlowSent DEF HeldIsFetched, CollectorTypeOK, InHand
  <2>2. hand[c].msg = j.dlv.msg
    BY <1>a, <1>1, <1>4, <2>1 DEF OneMessage
  <2> QED
    BY <1>1, <1>4, <2>1, <2>2 DEF Uncollected
<1>5. ASSUME NEW d \in Deliveries, d.msg.tid = t, d.msg.sig = s PROVE d = j.dlv
  <2>1. d.msg \in Sent
    BY <1>a, FlowSent
  <2>2. d.msg = j.dlv.msg
    BY <1>a, <1>1, <1>5, <2>1 DEF OneMessage
  <2> QED
    BY <1>a, <1>1, <2>2 DEF OneDelivery
<1>6. ASSUME NEW d \in queryTopic, d.msg.tid = t, d.msg.sig = s PROVE FALSE
  BY <1>a, <1>5, <1>6, FlowSent DEF JobsApart
<1>7. ASSUME NEW i \in jobs, i.dlv.msg.tid = t, i.dlv.msg.sig = s PROVE i = j
  BY <1>a, <1>5, <1>7, FlowSent DEF JobsApart
<1> QED
  BY <1>2, <1>3, <1>4, <1>6, <1>7

LEMMA OneAttachedNext ==
    ASSUME SerialInv', NEW n \in Attached', NEW p \in Attached'
    PROVE  p = n
BY DEF SerialInv, RequestsOK, OneAccount, OwnTasks, Attached, TaskOf

---------------------------------------------------------------------------
(* Every step is one of the ledger, or none.                                *)

LEMMA RequestLedger ==
    ASSUME MaxHeight <= Page, CalmInv, CalmInv', NEW r \in Request, RequestStep(r),
           UNCHANGED <<collectorVars, keeperVars>>
    PROVE  [Ledger!Next]_(Ledger!ledger)
<1>a. /\ SteadyInv /\ ExactInv /\ PatientInv /\ SizedInv /\ TypeOK /\ SerialInv /\ GraphTypeOK
      /\ TypeOK' /\ SerialInv' /\ UNCHANGED stored /\ ReqTypeOK /\ RequestsOK /\ OwnTasks
      /\ Attached \subseteq Attached' /\ req[r].sigs \subseteq Sig
  <2>1. Attached \subseteq Attached' /\ UNCHANGED stored
    BY RequestAttached, RequestFrame DEF CalmInv, SteadyInv
  <2> QED
    BY <2>1 DEF CalmInv, SteadyInv, TypeOK, SerialInv, ReqTypeOK, ReqRecord
<1>b. EmptyShown /\ TaskShown /\ EmptyShown' /\ TaskShown'
  BY <1>a, NothingShown, OneTaskShown, ShownNext
<1>1. CASE Attached' = {}
  <2>1. Attached = {}
    BY <1>a, <1>1
  <2>2. UNCHANGED <<Promised, Pending, Entered>>
    BY <1>1, <1>b, <2>1 DEF EmptyShown
  <2> QED
    BY <2>2 DEF Ledger!ledger
<1>2. ASSUME NEW n \in Attached' \ Attached
      PROVE  Ledger!Promise
  <2>1. n \in Node /\ n.by \in Request /\ tasks[n].id = None /\ tasks'[n].id # None
    BY <1>a, <1>2, RequestAttached DEF Attached, Node
  <2>2. /\ tasks'[n].synced = req[r].sigs /\ req[r].known = {} /\ Arms(r, n.by) /\ Outstanding(n.by) = 0
    BY <1>a, <2>1, ArmedAgain, ConstantsAssumption DEF Arms
  <2>3. Attached = {}
    <3>1. \A p \in Attached' : p = n
      BY <1>2, <1>a, OneAttachedNext
    <3> QED
      BY <1>2, <1>a, <3>1
  <2>4. Promised = {} /\ Pending = {} /\ Entered = Ledger!NothingEntered
    BY <1>b, <2>3 DEF EmptyShown
  <2>5. /\ Promised' = req[r].sigs /\ Entered' = stored[n]
        /\ \A s : s \in Pending' <=> s \in Sig /\ Under(n.by, s)'
    BY <1>a, <1>b, <1>2, <2>2 DEF TaskShown
  <2>6. \A s \in Sig : Under(n.by, s)' <=> s \in req[r].sigs
    <3>1. \A s \in Sig : ~Under(n.by, s)
      BY <2>1, <2>2, NothingUnder
    <3> QED
      BY <2>1, <2>2, <3>1, RequestUnder
  <2>7. stored[n] = Ledger!NothingEntered
    <3>1. \A s \in Sig : stored[n][s] = 0
      BY <1>a, <2>1 DEF GraphTypeOK, SteadyInv, OnceInv, StoredOnce
    <3> QED
      BY <1>a, <2>1, <3>1 DEF GraphTypeOK, Ledger!NothingEntered
  <2>8. Pending' = req[r].sigs
    BY <1>a, <2>5, <2>6
  <2> QED
    BY <1>a, <2>4, <2>5, <2>7, <2>8 DEF Ledger!Promise
<1>3. ASSUME NEW n \in Attached
      PROVE  [Ledger!Next]_(Ledger!ledger)
  <2>1. n \in Attached' /\ n \in Node /\ n.by \in Request /\ tasks[n].id = n.by /\ tasks'[n].id # None
    BY <1>a, <1>3 DEF Attached, Node, OwnTasks
  <2>2. /\ Promised = tasks[n].synced /\ Entered = stored[n]
        /\ \A s : s \in Pending <=> s \in Sig /\ Under(n.by, s)
    BY <1>b, <1>3 DEF TaskShown
  <2>3. /\ Promised' = tasks'[n].synced /\ Entered' = stored[n]
        /\ \A s : s \in Pending' <=> s \in Sig /\ Under(n.by, s)'
    BY <1>a, <1>b, <2>1 DEF TaskShown
  <2>4. CASE Arms(r, n.by)
    <3>1. tasks'[n].synced = req'[r].sigs
      BY <1>a, <2>1, <2>4 DEF Arms, SerialInv, ArmedOK, OwnTasks
    <3>2. ArmTasks(r) \/ CreateTasks(r)
      BY <1>a, <2>4, RequestMoves DEF Arms, RequestStep, Moves, Becomes, Holds, AfterCheck, AfterRecheck
    <3>3. ~CreateTasks(r)
      <4>1. CreateTasks(r) => req[r].pc = "create" /\ req'[r].tid = req[r].tid /\ req[r].tid = r
        BY <1>a, RequestMoves DEF CreateTasks, RequestsOK, RequestOK, Moves, Becomes, Holds
      <4> QED
        BY <1>a, <2>1, <2>4, <4>1 DEF Arms, SteadyInv, FreshInv, Unused, BeforeSend
    <3>4. req[r].known = tasks[n].synced /\ req'[r].sigs = req[r].sigs /\ req[r].pc = "arm"
      BY <1>a, <1>3, <3>2, <3>3, RequestMoves DEF ArmTasks, SerialInv, ArmedOK, Moves, Becomes, Holds
    <3>5. tasks[n].synced \subseteq req[r].sigs
      BY <1>a, <2>1, <3>4, KnownListed, ConstantsAssumption
    <3>6. \A s \in Sig : Under(n.by, s)' <=> Under(n.by, s) \/ s \in req[r].sigs \ req[r].known
      BY <2>1, <2>4, RequestUnder
    <3>7. Pending' = Pending \cup (Promised' \ Promised)
      BY <1>a, <2>2, <2>3, <3>1, <3>4, <3>6
    <3> QED
      BY <1>a, <2>2, <2>3, <3>1, <3>4, <3>5, <3>7 DEF Ledger!Next, Ledger!Promise
  <2>5. CASE ~Arms(r, n.by)
    <3>1. tasks'[n].synced = tasks[n].synced
      BY <1>a, <2>1, <2>5, ArmedAgain DEF Arms
    <3>2. \A s \in Sig : Under(n.by, s)' <=> Under(n.by, s)
      BY <2>1, <2>5, RequestUnder
    <3>3. UNCHANGED <<Promised, Pending, Entered>>
      BY <2>2, <2>3, <3>1, <3>2
    <3> QED
      BY <3>3 DEF Ledger!ledger
  <2> QED
    BY <2>4, <2>5
<1> QED
  BY <1>1, <1>2, <1>3 DEF Ledger!Next

LEMMA QueryLedger ==
    ASSUME MaxHeight <= Page, CalmInv, StoresInv, CalmInv', NEW j \in jobs, RunQuery(j),
           UNCHANGED <<req, collectorVars>>
    PROVE  [Ledger!Next]_(Ledger!ledger)
<1>a. /\ TypeOK /\ SerialInv /\ GraphTypeOK /\ KeeperTypeOK /\ OwnTasks /\ TypeOK' /\ SerialInv'
      /\ StoredOnce /\ PricedInv /\ WindowInv
  BY DEF CalmInv, SteadyInv, TypeOK, SerialInv, OnceInv
<1>b. EmptyShown /\ TaskShown /\ EmptyShown' /\ TaskShown'
  BY <1>a, NothingShown, OneTaskShown, ShownNext
<1>c. Attached' = Attached
  <2>1. UNCHANGED accounts
    BY DEF RunQuery, StoreTransaction, CountTransfer, IncrementTask, EndOfTask
  <2>2. \A n \in Node : tasks'[n].id = tasks[n].id
    BY <1>a, QueryEffect
  <2> QED
    BY <2>1, <2>2 DEF Attached
<1>1. CASE Attached = {}
  <2>1. UNCHANGED <<Promised, Pending, Entered>>
    BY <1>1, <1>b, <1>c DEF EmptyShown
  <2> QED
    BY <2>1 DEF Ledger!ledger
<1>2. ASSUME NEW n \in Attached
      PROVE  [Ledger!Next]_(Ledger!ledger)
  <2> DEFINE next == [j EXCEPT !.at = QueryAfter[j.at]]
             x == j.dlv.msg.sig
  <2>a. /\ jobs' = IF j.at = "end" THEN jobs \ {j} ELSE (jobs \ {j}) \cup {next}
        /\ next.dlv = j.dlv /\ j \in Job /\ x \in Sig
        /\ j.at # "end" => next.at = QueryAfter[j.at]
        /\ UNCHANGED <<signatureTopic, queryTopic, hand, req>>
    BY <1>a DEF RunQuery, KeeperTypeOK, Job, Query, Delivery, Message, collectorVars
  <2> HIDE DEF next
  <2>b. /\ n \in Node /\ n.by \in Request /\ tasks[n].id = n.by /\ n \in Attached' /\ n = TaskOf(n.by)
        /\ stored[n] \in [Sig -> Nat]
    <3>1. n \in Node /\ tasks[n].id # None
      BY <1>2 DEF Attached
    <3> QED
      BY <1>a, <1>2, <1>c, <3>1 DEF OwnTasks, Node, GraphTypeOK
  <2>1. /\ Promised = tasks[n].synced /\ Entered = stored[n]
        /\ \A s : s \in Pending <=> s \in Sig /\ Under(n.by, s)
    BY <1>b, <1>2 DEF TaskShown
  <2>2. /\ Promised' = tasks'[n].synced /\ Entered' = stored'[n]
        /\ \A s : s \in Pending' <=> s \in Sig /\ Under(n.by, s)'
    BY <1>b, <2>b DEF TaskShown
  <2>3. /\ tasks'[n].synced = tasks[n].synced /\ stored'[n] \in [Sig -> Nat]
        /\ \A s \in Sig : stored'[n][s] = IF j.at = "store" /\ j.dlv.msg.tid = n.by /\ s = x
                                          THEN stored[n][s] + 1 ELSE stored[n][s]
    BY <1>a, <2>b, QueryEffect
  <2>4. UNCHANGED Promised
    BY <2>1, <2>2, <2>3
  <2>5. j.at # "increment" => UNCHANGED Pending
    <3> SUFFICES ASSUME j.at # "increment", NEW s \in Sig PROVE Under(n.by, s)' <=> Under(n.by, s)
      BY <2>1, <2>2
    <3>1. j.at = "end" \/ (next.at # "end" /\ j.at # "end")
      BY <2>a DEF QueryAfter, Job, Query
    <3> QED
      BY <2>a, <3>1 DEF Under
  <2>6. ~(j.at = "store" /\ j.dlv.msg.tid = n.by) => UNCHANGED Entered
    BY <2>1, <2>2, <2>3, <2>b
  <2>7. CASE j.at = "store" /\ j.dlv.msg.tid = n.by
    <3>1. x \in Pending
      BY <2>1, <2>7, <2>a DEF Under
    <3>2. Entered[x] = 0
      <4>1. j.dlv.msg \in Unstored
        BY <2>7, <2>a DEF Unstored, Job, Delivery
      <4> QED
        BY <1>a, <2>1, <2>7, <2>b, <4>1 DEF StoredOnce
    <3>3. Entered' = [Entered EXCEPT ![x] = 1]
      BY <2>1, <2>2, <2>3, <2>7, <2>a, <2>b, <3>2
    <3>4. Ledger!Enter(x)
      BY <2>4, <2>5, <2>7, <3>1, <3>2, <3>3 DEF Ledger!Enter
    <3> QED
      BY <2>a, <3>4 DEF Ledger!Next
  <2>8. CASE j.at = "increment" /\ j.dlv.msg.tid = n.by
    <3>1. x \in Pending
      BY <2>1, <2>8, <2>a DEF Under
    <3>2. ~Under(n.by, x)'
      <4>1. next.at = "end" /\ jobs' = (jobs \ {j}) \cup {next}
        BY <2>8, <2>a DEF QueryAfter
      <4> QED
        BY <2>8, <2>a, <4>1, OnlyJob DEF Under
    <3>3. ASSUME NEW s \in Sig \ {x} PROVE Under(n.by, s)' <=> Under(n.by, s)
      BY <2>8, <2>a DEF Under, QueryAfter
    <3>4. Pending' = Pending \ {x}
      BY <2>1, <2>2, <3>2, <3>3
    <3>5. ASSUME x \in Certain
          PROVE  Entered[x] = 1
      <4>1. x \in tasks[n].synced
        <5>1. j.dlv.msg \in Sent
          BY <1>a, FlowSent
        <5>2. PICK h \in 0 .. height : tasks[n].synced = WindowAt(h) /\ \A m \in Sent : m.tid = n.by => m.sig <= h
          BY <1>a, <2>b, ConstantsAssumption DEF WindowInv, AllWithin, Within
        <5>3. x <= h
          BY <2>8, <5>1, <5>2
        <5>4. height \in 0 .. MaxHeight /\ MaxHeight \in Nat /\ Page \in Nat /\ x \in 1 .. MaxHeight
          BY <1>a, <2>a, ConstantsAssumption DEF GraphTypeOK, Sig
        <5> QED
          BY <5>2, <5>3, <5>4 DEF WindowAt
      <4>2. ~ToStore(n.by, x)
        BY <2>8, OnlyJob DEF ToStore
      <4>3. stored[n][x] > 0
        BY <1>2, <3>5, <4>1, <4>2 DEF StoresInv
      <4>4. stored[n][x] <= 1 /\ stored[n][x] \in Nat
        BY <1>a, <2>a, <2>b DEF StoredOnce
      <4> QED
        BY <2>1, <4>3, <4>4
    <3>6. Ledger!Settle(x)
      BY <2>4, <2>6, <2>8, <3>1, <3>4, <3>5 DEF Ledger!Settle, Certain
    <3> QED
      BY <2>a, <3>6 DEF Ledger!Next
  <2>9. CASE j.at = "increment" /\ j.dlv.msg.tid # n.by
    <3>1. ASSUME NEW s \in Sig PROVE Under(n.by, s)' <=> Under(n.by, s)
      BY <2>9, <2>a DEF Under, QueryAfter
    <3>2. UNCHANGED Pending
      BY <2>1, <2>2, <3>1
    <3> QED
      BY <2>4, <2>6, <2>9, <3>2 DEF Ledger!ledger
  <2>10. CASE j.at # "increment" /\ ~(j.at = "store" /\ j.dlv.msg.tid = n.by)
    BY <2>4, <2>5, <2>6, <2>10 DEF Ledger!ledger
  <2> QED
    BY <2>7, <2>8, <2>9, <2>10
<1> QED
  BY <1>1, <1>2

LEMMA QuietLedger ==
    ASSUME CalmInv, CalmInv', Quiet
    PROVE  [Ledger!Next]_(Ledger!ledger)
<1>a. /\ TypeOK /\ SerialInv /\ GraphTypeOK /\ OwnTasks /\ TypeOK' /\ SerialInv'
      /\ UNCHANGED <<tasks, stored>> /\ Attached' \subseteq Attached
  BY QuietFrame, StillAttached DEF CalmInv, SteadyInv, TypeOK, SerialInv
<1>b. EmptyShown /\ TaskShown /\ EmptyShown' /\ TaskShown'
  BY <1>a, NothingShown, OneTaskShown, ShownNext
<1>1. CASE Attached' = {}
  <2>1. Ledger!Forget
    BY <1>1, <1>b DEF EmptyShown, Ledger!Forget
  <2> QED
    BY <2>1 DEF Ledger!Next
<1>2. ASSUME NEW n \in Attached'
      PROVE  UNCHANGED Ledger!ledger
  <2>1. n \in Attached /\ n.by \in Request
    BY <1>a, <1>2 DEF Attached, Node
  <2>2. /\ Promised = tasks[n].synced /\ Entered = stored[n]
        /\ \A s : s \in Pending <=> s \in Sig /\ Under(n.by, s)
    BY <1>b, <2>1 DEF TaskShown
  <2>3. /\ Promised' = tasks'[n].synced /\ Entered' = stored'[n]
        /\ \A s : s \in Pending' <=> s \in Sig /\ Under(n.by, s)'
    BY <1>b, <1>2 DEF TaskShown
  <2>4. Pending' = Pending
    BY <2>1, <2>2, <2>3, QuietUnder
  <2> QED
    BY <1>a, <2>2, <2>3, <2>4 DEF Ledger!ledger
<1> QED
  BY <1>1, <1>2

\* Through requests, topics, services and four queries a signature, a patient client's
\* synchronisation keeps the promise of the ledger at every step: no signature is taken
\* on twice, counted twice or counted before its transaction is there, and no
\* transaction enters twice.
THEOREM LedgerIsKept ==
    ASSUME MaxHeight <= Page
    PROVE  CalmSpec => Ledger!Safety
<1>1. Init => Ledger!Init
  <2> SUFFICES ASSUME Init PROVE Ledger!Init
    OBVIOUS
  <2>1. Attached = {}
    BY DEF Init, GraphInit, Attached
  <2> QED
    BY <2>1, NothingShown DEF EmptyShown, Ledger!Init
<1>2. CalmInv /\ StoresInv /\ [CalmNext]_vars => (CalmInv /\ StoresInv)'
  BY StepCalm, StepStores
<1>3. CalmInv /\ StoresInv /\ [CalmNext]_vars => [Ledger!Next]_(Ledger!ledger)
  <2> SUFFICES ASSUME CalmInv, StoresInv, [CalmNext]_vars PROVE [Ledger!Next]_(Ledger!ledger)
    OBVIOUS
  <2>1. CalmInv'
    BY StepCalm
  <2> QED
    BY <2>1, CalmSteps, RequestLedger, QueryLedger, QuietLedger
<1> QED
  BY <1>1, <1>2, <1>3, InitCalm, InitComplete, PTL DEF CalmSpec, Ledger!Safety
=============================================================================
