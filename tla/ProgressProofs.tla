--------------------------- MODULE ProgressProofs ---------------------------
(***************************************************************************)
(* What GET /task/progress reports: amount - progress of a task and what   *)
(* is on its way.                                                          *)
(***************************************************************************)
EXTENDS SerialProofs

\* The four places where a message of task id t waits for its increment.
InTopic(t) == {m \in signatureTopic : m.tid = t}
InHands(t) == {c \in Collectors : hand[c] # None /\ hand[c].msg.tid = t}
InQueries(t) == {d \in queryTopic : d.msg.tid = t}
InJobs(t) == {j \in jobs : j.dlv.msg.tid = t /\ j.at # "end"}

Busy == {c \in Collectors : hand[c] # None}

\* Finitely many messages are under way.
FiniteInv ==
    /\ IsFiniteSet(signatureTopic) /\ IsFiniteSet(queryTopic) /\ IsFiniteSet(jobs)
    /\ IsFiniteSet(Busy) /\ \A c \in Collectors : IsFiniteSet(fetched[c])

---------------------------------------------------------------------------
\* One element more, or less, and the cardinality follows.
LEMMA CardMoves ==
    ASSUME NEW S, IsFiniteSet(S), NEW T, NEW x
    PROVE  /\ Cardinality(S) \in Nat
           /\ x \notin S /\ T = S \cup {x} => IsFiniteSet(T) /\ Cardinality(T) = Cardinality(S) + 1
           /\ x \in S /\ T = S \ {x} =>
                IsFiniteSet(T) /\ Cardinality(T) \in Nat /\ Cardinality(S) = Cardinality(T) + 1
<1>1. Cardinality(S) \in Nat
  BY FS_CardinalityType
<1>2. ASSUME x \notin S, T = S \cup {x}
      PROVE  IsFiniteSet(T) /\ Cardinality(T) = Cardinality(S) + 1
  BY <1>2, FS_AddElement
<1>3. ASSUME x \in S, T = S \ {x}
      PROVE  IsFiniteSet(T) /\ Cardinality(T) \in Nat /\ Cardinality(S) = Cardinality(T) + 1
  <2>1. IsFiniteSet(T) /\ Cardinality(T) = Cardinality(S) - 1
    BY <1>3, FS_RemoveElement
  <2>2. Cardinality(T) \in Nat
    BY <2>1, FS_CardinalityType
  <2> QED
    BY <1>1, <2>1, <2>2
<1> QED
  BY <1>1, <1>2, <1>3

LEMMA WaitingParts ==
    ASSUME NEW t
    PROVE  /\ Waiting(t) = Cardinality(InTopic(t)) + Cardinality(InHands(t))
                           + Cardinality(InQueries(t)) + Cardinality(InJobs(t))
           /\ Waiting(t)' = Cardinality(InTopic(t)') + Cardinality(InHands(t)')
                            + Cardinality(InQueries(t)') + Cardinality(InJobs(t)')
BY Zenon DEF Waiting, InTopic, InHands, InQueries, InJobs

LEMMA PartsFinite ==
    ASSUME FiniteInv, NEW t
    PROVE  /\ IsFiniteSet(InTopic(t)) /\ IsFiniteSet(InHands(t))
           /\ IsFiniteSet(InQueries(t)) /\ IsFiniteSet(InJobs(t))
           /\ Cardinality(InTopic(t)) \in Nat /\ Cardinality(InHands(t)) \in Nat
           /\ Cardinality(InQueries(t)) \in Nat /\ Cardinality(InJobs(t)) \in Nat
           /\ Waiting(t) \in Nat
<1>1. /\ InTopic(t) \subseteq signatureTopic /\ InHands(t) \subseteq Busy
      /\ InQueries(t) \subseteq queryTopic /\ InJobs(t) \subseteq jobs
  BY DEF InTopic, InHands, InQueries, InJobs, Busy
<1>2. /\ IsFiniteSet(InTopic(t)) /\ IsFiniteSet(InHands(t))
      /\ IsFiniteSet(InQueries(t)) /\ IsFiniteSet(InJobs(t))
  BY <1>1, FS_Subset DEF FiniteInv
<1>3. /\ Cardinality(InTopic(t)) \in Nat /\ Cardinality(InHands(t)) \in Nat
      /\ Cardinality(InQueries(t)) \in Nat /\ Cardinality(InJobs(t)) \in Nat
  BY <1>2, FS_CardinalityType
<1> QED
  BY <1>2, <1>3, WaitingParts

LEMMA PartsFiniteNext ==
    ASSUME FiniteInv', NEW t
    PROVE  Waiting(t)' \in Nat
<1>1. /\ InTopic(t)' \subseteq signatureTopic' /\ InHands(t)' \subseteq Busy'
      /\ InQueries(t)' \subseteq queryTopic' /\ InJobs(t)' \subseteq jobs'
  BY DEF InTopic, InHands, InQueries, InJobs, Busy
<1>2. /\ IsFiniteSet(InTopic(t)') /\ IsFiniteSet(InHands(t)')
      /\ IsFiniteSet(InQueries(t)') /\ IsFiniteSet(InJobs(t)')
  BY <1>1, FS_Subset DEF FiniteInv
<1> QED
  BY <1>2, FS_CardinalityType, WaitingParts

---------------------------------------------------------------------------
(* A message on its way moves from one place to the next.                   *)

\* A collector takes a message from the topic, and publishes its queries.
LEMMA CollectorWaiting ==
    ASSUME TypeOK, PricedInv, FlowInv, FiniteInv, NEW c \in Collectors, CollectorStep(c),
           UNCHANGED <<req, keeperVars>>
    PROVE  /\ FiniteInv' /\ \A t \in Request : Waiting(t)' = Waiting(t)
<1>a. /\ UNCHANGED jobs /\ CollectorTypeOK /\ GraphTypeOK
      /\ IsFiniteSet(signatureTopic) /\ IsFiniteSet(queryTopic) /\ IsFiniteSet(jobs)
      /\ IsFiniteSet(Busy) /\ \A x \in Collectors : IsFiniteSet(fetched[x])
  BY DEF TypeOK, keeperVars, FiniteInv
<1>b. \A t : InJobs(t)' = InJobs(t)
  BY <1>a DEF InJobs
<1>1. CASE TakeMessage(c)
  <2>1. PICK m \in signatureTopic :
               /\ signatureTopic' = signatureTopic \ {m} /\ fetched'[c] = fetched[c] \cup {m}
               /\ hand[c] = None /\ hand'[c].msg = m /\ hand'[c] # None /\ UNCHANGED queryTopic
               /\ \A x \in Collectors \ {c} : fetched'[x] = fetched[x] /\ hand'[x] = hand[x]
    <3>1. PICK m \in signatureTopic :
                 /\ signatureTopic' = signatureTopic \ {m}
                 /\ fetched' = [fetched EXCEPT ![c] = @ \cup {m}]
                 /\ hand' = [hand EXCEPT ![c] = [msg |-> m, exists |-> Exists(m.sig), at |-> "try"]]
      BY <1>1 DEF TakeMessage
    <3>2. [msg |-> m, exists |-> Exists(m.sig), at |-> "try"] # None
      <4>1. Exists(m.sig) \in BOOLEAN /\ m \in Message
        BY <1>a DEF Exists, GraphTypeOK
      <4>2. \A b \in BOOLEAN : [msg |-> m, exists |-> b, at |-> "try"] \in InHand
        BY <4>1 DEF InHand
      <4> QED
        BY <4>1, <4>2, IdleHandAssumption
    <3> QED
      BY <1>1, <1>a, <3>1, <3>2 DEF TakeMessage, CollectorTypeOK
  <2>2. Busy' = Busy \cup {c} /\ c \notin Busy
    BY <2>1 DEF Busy
  <2>3. FiniteInv'
    <3>1. IsFiniteSet(signatureTopic')
      BY <1>a, <2>1, FS_RemoveElement
    <3>2. IsFiniteSet(Busy')
      BY <1>a, <2>2, FS_AddElement
    <3>3. IsFiniteSet(fetched'[c])
      <4>1. IsFiniteSet(fetched[c] \cup {m})
        BY <1>a, FS_AddElement
      <4> QED
        BY <2>1, <4>1
    <3> QED
      BY <1>a, <2>1, <3>1, <3>2, <3>3 DEF FiniteInv
  <2>4. ASSUME NEW t \in Request
        PROVE  Waiting(t)' = Waiting(t)
    <3>1. InQueries(t)' = InQueries(t)
      BY <2>1 DEF InQueries
    <3>2. CASE m.tid = t
      <4>1. m \in InTopic(t) /\ InTopic(t)' = InTopic(t) \ {m}
        BY <2>1, <3>2 DEF InTopic
      <4>2. c \notin InHands(t) /\ InHands(t)' = InHands(t) \cup {c}
        BY <2>1, <3>2 DEF InHands
      <4>3. Cardinality(InTopic(t)') \in Nat /\ Cardinality(InTopic(t)) = Cardinality(InTopic(t)') + 1
        BY <4>1, PartsFinite, CardMoves
      <4>4. Cardinality(InHands(t)') = Cardinality(InHands(t)) + 1
        BY <4>2, PartsFinite, CardMoves
      <4> QED
        BY <1>b, <3>1, <4>3, <4>4, PartsFinite, WaitingParts
    <3>3. CASE m.tid # t
      <4>1. InTopic(t)' = InTopic(t) /\ InHands(t)' = InHands(t)
        BY <2>1, <3>3 DEF InTopic, InHands
      <4> QED
        BY <1>b, <3>1, <4>1, WaitingParts
    <3> QED
      BY <3>2, <3>3
  <2> QED
    BY <2>3, <2>4
<1>2. CASE PriceThrows(c)
  <2>1. /\ UNCHANGED <<signatureTopic, queryTopic, fetched>> /\ hand[c] # None
        /\ \A x \in Collectors \ {c} : hand'[x] = hand[x]
    BY <1>a, <1>2 DEF PriceThrows, CollectorTypeOK
  <2>2. hand'[c].msg = hand[c].msg /\ hand'[c] # None
    <3>1. hand[c] \in InHand /\ hand'[c] = [hand[c] EXCEPT !.at = "catch"]
      BY <1>a, <1>2, <2>1 DEF PriceThrows, CollectorTypeOK
    <3>2. [hand[c] EXCEPT !.at = "catch"] \in InHand /\ [hand[c] EXCEPT !.at = "catch"].msg = hand[c].msg
      BY <3>1 DEF InHand
    <3> QED
      BY <3>1, <3>2, IdleHandAssumption
  <2>3. Busy' = Busy /\ \A t : InHands(t)' = InHands(t) /\ InTopic(t)' = InTopic(t) /\ InQueries(t)' = InQueries(t)
    BY <2>1, <2>2 DEF Busy, InHands, InTopic, InQueries
  <2> QED
    BY <1>a, <1>b, <2>1, <2>3, WaitingParts DEF FiniteInv
<1>3. CASE CollectQueries(c) \/ CatchQueries(c)
  <2>1. /\ UNCHANGED <<signatureTopic, fetched>> /\ hand[c] # None /\ hand'[c] = None
        /\ \A x \in Collectors \ {c} : hand'[x] = hand[x]
    BY <1>a, <1>3 DEF CollectQueries, CatchQueries, CollectorTypeOK
  <2>2. PICK path : Publish(hand[c].msg, path)
    BY <1>3 DEF CollectQueries, CatchQueries
  <2> DEFINE new == [msg |-> hand[c].msg, path |-> path, copy |-> faults]
  <2>3. queryTopic' = queryTopic \cup {new} /\ new.msg = hand[c].msg /\ new.copy = faults
    BY <2>2 DEF Publish
  <2> HIDE DEF new
  <2>4. new \notin queryTopic
    <3>1. hand[c].msg \in Uncollected /\ faults \in Nat
      BY <1>a, <2>1, ConstantsAssumption DEF Uncollected, CollectorTypeOK, InHand, GraphTypeOK
    <3> QED
      BY <2>3, <3>1, FlowSent DEF FlowInv, CopiesApart
  <2>5. Busy' = Busy \ {c}
    BY <2>1 DEF Busy
  <2>6. FiniteInv'
    <3>1. IsFiniteSet(queryTopic') /\ IsFiniteSet(Busy')
      BY <1>a, <2>3, <2>5, FS_RemoveElement, FS_AddElement
    <3> QED
      BY <1>a, <2>1, <3>1 DEF FiniteInv
  <2>7. ASSUME NEW t \in Request
        PROVE  Waiting(t)' = Waiting(t)
    <3>1. InTopic(t)' = InTopic(t)
      BY <2>1 DEF InTopic
    <3>2. CASE hand[c].msg.tid = t
      <4>1. c \in InHands(t) /\ InHands(t)' = InHands(t) \ {c}
        BY <2>1, <3>2 DEF InHands
      <4>2. new \notin InQueries(t) /\ InQueries(t)' = InQueries(t) \cup {new}
        BY <2>3, <2>4, <3>2 DEF InQueries
      <4>3. Cardinality(InHands(t)') \in Nat /\ Cardinality(InHands(t)) = Cardinality(InHands(t)') + 1
        BY <4>1, PartsFinite, CardMoves
      <4>4. Cardinality(InQueries(t)') = Cardinality(InQueries(t)) + 1
        BY <4>2, PartsFinite, CardMoves
      <4> QED
        BY <1>b, <3>1, <4>3, <4>4, PartsFinite, WaitingParts
    <3>3. CASE hand[c].msg.tid # t
      <4>1. InHands(t)' = InHands(t) /\ InQueries(t)' = InQueries(t)
        BY <2>1, <2>3, <3>3 DEF InHands, InQueries
      <4> QED
        BY <1>b, <3>1, <4>1, WaitingParts
    <3> QED
      BY <3>2, <3>3
  <2> QED
    BY <2>6, <2>7
<1> QED
  BY <1>1, <1>2, <1>3 DEF CollectorStep

\* A collector that fails or crashes may repeat messages, and loses none.
LEMMA CollectorFaultWaiting ==
    ASSUME TypeOK, PricedInv, FlowInv, FiniteInv, NEW c \in Collectors, TryFails(c) \/ CollectorCrash(c),
           UNCHANGED <<req, keeperVars>>
    PROVE  FiniteInv' /\ \A t \in Request : Waiting(t) <= Waiting(t)'
<1>a. /\ UNCHANGED jobs /\ CollectorTypeOK /\ GraphTypeOK /\ HeldIsFetched /\ FetchedOnce
      /\ IsFiniteSet(signatureTopic) /\ IsFiniteSet(queryTopic) /\ IsFiniteSet(jobs)
      /\ IsFiniteSet(Busy) /\ \A x \in Collectors : IsFiniteSet(fetched[x])
  BY DEF TypeOK, PricedInv, keeperVars, FiniteInv, FlowInv
<1>b. \A t : InJobs(t)' = InJobs(t)
  BY <1>a DEF InJobs
<1>1. CASE TryFails(c)
  <2>1. /\ UNCHANGED <<signatureTopic, fetched>> /\ hand[c] # None
        /\ \A x \in Collectors \ {c} : hand'[x] = hand[x]
    BY <1>a, <1>1 DEF TryFails, CollectorTypeOK
  <2>2. hand'[c].msg = hand[c].msg /\ hand'[c] # None
    <3>1. hand[c] \in InHand /\ hand'[c] = [hand[c] EXCEPT !.at = "catch"]
      BY <1>a, <1>1, <2>1 DEF TryFails, CollectorTypeOK
    <3>2. [hand[c] EXCEPT !.at = "catch"] \in InHand /\ [hand[c] EXCEPT !.at = "catch"].msg = hand[c].msg
      BY <3>1 DEF InHand
    <3> QED
      BY <3>1, <3>2, IdleHandAssumption
  <2>3. PICK new : queryTopic \subseteq queryTopic' /\ queryTopic' \subseteq queryTopic \cup {new}
    BY <1>1 DEF TryFails, Publish
  <2>4. Busy' = Busy
    BY <2>1, <2>2 DEF Busy
  <2>5. FiniteInv'
    <3>1. IsFiniteSet(queryTopic')
      BY <1>a, <2>3, CardBounds
    <3> QED
      BY <1>a, <2>1, <2>4, <3>1 DEF FiniteInv
  <2>6. ASSUME NEW t \in Request
        PROVE  Waiting(t) <= Waiting(t)'
    <3>1. InHands(t)' = InHands(t) /\ InTopic(t)' = InTopic(t)
      BY <2>1, <2>2 DEF InHands, InTopic
    <3>2. InQueries(t)' \subseteq queryTopic' /\ InQueries(t) \subseteq InQueries(t)'
      BY <2>3 DEF InQueries
    <3>3. IsFiniteSet(InQueries(t)')
      BY <2>5, <3>2, FS_Subset DEF FiniteInv
    <3>4. Cardinality(InQueries(t)') \in Nat /\ Cardinality(InQueries(t)) <= Cardinality(InQueries(t)')
      BY <3>2, <3>3, CardBounds
    <3> QED
      BY <1>b, <3>1, <3>4, PartsFinite, WaitingParts
  <2> QED
    BY <2>5, <2>6
<1>2. CASE CollectorCrash(c)
  <2>1. /\ UNCHANGED queryTopic /\ hand'[c] = None /\ fetched'[c] = {}
        /\ signatureTopic \subseteq signatureTopic' /\ signatureTopic' \subseteq signatureTopic \cup fetched[c]
        /\ hand[c] # None => hand[c].msg \in signatureTopic'
        /\ \A x \in Collectors \ {c} : hand'[x] = hand[x] /\ fetched'[x] = fetched[x]
    BY <1>a, <1>2 DEF CollectorCrash, CollectorTypeOK
  <2>2. Busy' \subseteq Busy
    BY <2>1 DEF Busy
  <2>3. FiniteInv'
    <3>1. IsFiniteSet(Busy')
      BY <1>a, <2>2, FS_Subset
    <3>2. IsFiniteSet(signatureTopic \cup fetched[c])
      BY <1>a, FS_Union
    <3>3. IsFiniteSet(signatureTopic')
      BY <2>1, <3>2, FS_Subset
    <3> QED
      BY <1>a, <2>1, <3>1, <3>3, FS_EmptySet DEF FiniteInv
  <2>4. ASSUME NEW t \in Request
        PROVE  Waiting(t) <= Waiting(t)'
    <3>1. InQueries(t)' = InQueries(t)
      BY <2>1 DEF InQueries
    <3>2. /\ InTopic(t)' \subseteq signatureTopic' /\ InTopic(t) \subseteq InTopic(t)'
      BY <2>1 DEF InTopic
    <3>3. IsFiniteSet(InTopic(t)')
      BY <2>3, <3>2, FS_Subset DEF FiniteInv
    <3>4. /\ Cardinality(InTopic(t)') \in Nat
          /\ Cardinality(InTopic(t)) <= Cardinality(InTopic(t)')
          /\ \A x \in InTopic(t)' \ InTopic(t) : Cardinality(InTopic(t)) + 1 <= Cardinality(InTopic(t)')
      <4>1. ASSUME NEW x \in InTopic(t)' \ InTopic(t)
            PROVE  Cardinality(InTopic(t)) + 1 <= Cardinality(InTopic(t)')
        BY <3>2, <3>3, <4>1, CardBounds
      <4> QED
        BY <3>2, <3>3, <4>1, CardBounds
    <3>5. CASE c \in InHands(t)
      <4>1. hand[c].msg \in InTopic(t)' \ InTopic(t)
        BY <1>a, <2>1, <3>5 DEF InTopic, InHands, FetchedOnce, HeldIsFetched
      <4>2. InHands(t)' = InHands(t) \ {c}
        BY <2>1 DEF InHands
      <4>3. Cardinality(InHands(t)') \in Nat /\ Cardinality(InHands(t)) = Cardinality(InHands(t)') + 1
        BY <3>5, <4>2, PartsFinite, CardMoves
      <4> QED
        BY <1>b, <3>1, <3>4, <4>1, <4>3, PartsFinite, WaitingParts
    <3>6. CASE c \notin InHands(t)
      <4>1. InHands(t)' = InHands(t)
        BY <2>1, <3>6 DEF InHands
      <4> QED
        BY <1>b, <3>1, <3>4, <4>1, PartsFinite, WaitingParts
    <3> QED
      BY <3>5, <3>6
  <2> QED
    BY <2>3, <2>4
<1> QED
  BY <1>1, <1>2

\* A keeper starts a job for a delivery, and the job's increment takes it off the way.
LEMMA TakeDeliveryWaiting ==
    ASSUME TypeOK, FlowInv, FiniteInv, NEW k \in Keepers, TakeDelivery(k), UNCHANGED <<req, collectorVars>>
    PROVE  FiniteInv' /\ \A t \in Request : Waiting(t)' = Waiting(t)
<1>a. /\ UNCHANGED <<signatureTopic, hand, fetched>>
      /\ IsFiniteSet(queryTopic) /\ IsFiniteSet(jobs)
  BY DEF TakeDelivery, collectorVars, FiniteInv
<1>1. PICK d \in queryTopic :
             /\ queryTopic' = queryTopic \ {d}
             /\ jobs' = jobs \cup {[dlv |-> d, keeper |-> k, at |-> FirstQuery(d)]}
  BY DEF TakeDelivery
<1> DEFINE new == [dlv |-> d, keeper |-> k, at |-> FirstQuery(d)]
<1>2. jobs' = jobs \cup {new} /\ new.dlv = d /\ new.at # "end"
  BY <1>1 DEF FirstQuery
<1> HIDE DEF new
<1>3. new \notin jobs
  BY <1>2 DEF FlowInv, JobsApart
<1>4. FiniteInv'
  <2>1. IsFiniteSet(queryTopic')
    BY <1>a, <1>1, FS_RemoveElement
  <2>2. IsFiniteSet(jobs')
    BY <1>a, <1>2, FS_AddElement
  <2> QED
    BY <1>a, <2>1, <2>2 DEF FiniteInv, Busy
<1>5. ASSUME NEW t \in Request
      PROVE  Waiting(t)' = Waiting(t)
  <2>1. InTopic(t)' = InTopic(t) /\ InHands(t)' = InHands(t)
    BY <1>a DEF InTopic, InHands
  <2>2. CASE d.msg.tid = t
    <3>1. d \in InQueries(t) /\ InQueries(t)' = InQueries(t) \ {d}
      BY <1>1, <2>2 DEF InQueries
    <3>2. new \notin InJobs(t) /\ InJobs(t)' = InJobs(t) \cup {new}
      BY <1>2, <1>3, <2>2 DEF InJobs
    <3>3. Cardinality(InQueries(t)') \in Nat /\ Cardinality(InQueries(t)) = Cardinality(InQueries(t)') + 1
      BY <3>1, PartsFinite, CardMoves
    <3>4. Cardinality(InJobs(t)') = Cardinality(InJobs(t)) + 1
      BY <3>2, PartsFinite, CardMoves
    <3> QED
      BY <2>1, <3>3, <3>4, PartsFinite, WaitingParts
  <2>3. CASE d.msg.tid # t
    <3>1. InQueries(t)' = InQueries(t) /\ InJobs(t)' = InJobs(t)
      BY <1>1, <1>2, <2>3 DEF InQueries, InJobs
    <3> QED
      BY <2>1, <3>1, WaitingParts
  <2> QED
    BY <2>2, <2>3
<1> QED
  BY <1>4, <1>5

LEMMA RunQueryWaiting ==
    ASSUME TypeOK, FlowInv, FiniteInv, NEW j \in jobs, RunQuery(j), UNCHANGED <<req, collectorVars>>
    PROVE  /\ FiniteInv'
           /\ \A t \in Request : /\ Waiting(t)' \in Nat
                                 /\ Waiting(t) = Waiting(t)' + (IF j.at = "increment" /\ j.dlv.msg.tid = t THEN 1 ELSE 0)
<1>a. /\ UNCHANGED <<signatureTopic, queryTopic, hand, fetched>>
      /\ IsFiniteSet(jobs) /\ j \in Job /\ JobsApart
  BY DEF RunQuery, collectorVars, FiniteInv, TypeOK, KeeperTypeOK, FlowInv
<1> DEFINE next == [j EXCEPT !.at = QueryAfter[j.at]]
<1>1. /\ jobs' = IF j.at = "end" THEN jobs \ {j} ELSE (jobs \ {j}) \cup {next}
      /\ next.dlv = j.dlv
      /\ j.at # "end" => next.at = QueryAfter[j.at] /\ next.at # j.at
  BY <1>a DEF RunQuery, Job, Query, QueryAfter
<1> HIDE DEF next
<1>2. j.at # "end" => next \notin jobs
  BY <1>a, <1>1 DEF JobsApart
<1>3. FiniteInv'
  <2>1. IsFiniteSet(jobs \ {j})
    BY <1>a, FS_RemoveElement
  <2>2. IsFiniteSet((jobs \ {j}) \cup {next})
    BY <2>1, FS_AddElement
  <2> QED
    BY <1>a, <1>1, <2>1, <2>2 DEF FiniteInv, Busy
<1>4. ASSUME NEW t \in Request
      PROVE  /\ Waiting(t)' \in Nat
             /\ Waiting(t) = Waiting(t)' + (IF j.at = "increment" /\ j.dlv.msg.tid = t THEN 1 ELSE 0)
  <2>1. InTopic(t)' = InTopic(t) /\ InHands(t)' = InHands(t) /\ InQueries(t)' = InQueries(t)
    BY <1>a DEF InTopic, InHands, InQueries
  <2>2. CASE j.dlv.msg.tid = t /\ j.at \in {"store", "count"}
    <3>1. j \in InJobs(t) /\ next \notin InJobs(t) \ {j} /\ InJobs(t)' = (InJobs(t) \ {j}) \cup {next}
      BY <1>1, <1>2, <2>2 DEF InJobs, QueryAfter
    <3>2. IsFiniteSet(InJobs(t) \ {j}) /\ Cardinality(InJobs(t)) = Cardinality(InJobs(t) \ {j}) + 1
      BY <3>1, PartsFinite, CardMoves
    <3>3. Cardinality(InJobs(t)') = Cardinality(InJobs(t) \ {j}) + 1
      BY <3>1, <3>2, CardMoves
    <3> QED
      BY <2>1, <2>2, <3>2, <3>3, PartsFinite, WaitingParts
  <2>3. CASE j.dlv.msg.tid = t /\ j.at = "increment"
    <3>1. j \in InJobs(t) /\ InJobs(t)' = InJobs(t) \ {j}
      BY <1>1, <2>3 DEF InJobs, QueryAfter
    <3>2. Cardinality(InJobs(t)') \in Nat /\ Cardinality(InJobs(t)) = Cardinality(InJobs(t)') + 1
      BY <3>1, PartsFinite, CardMoves
    <3> QED
      BY <2>1, <2>3, <3>2, PartsFinite, WaitingParts
  <2>4. CASE j.dlv.msg.tid # t \/ j.at = "end"
    <3>1. InJobs(t)' = InJobs(t)
      BY <1>1, <2>4 DEF InJobs
    <3> QED
      BY <2>1, <2>4, <3>1, PartsFinite, WaitingParts
  <2> QED
    BY <1>a, <2>2, <2>3, <2>4 DEF Job, Query
<1> QED
  BY <1>3, <1>4

---------------------------------------------------------------------------
(* What a request adds.                                                     *)

\* Messages and signatures are counted alike.
Messages(r, t, S) == {[req |-> r, sig |-> s, tid |-> t] : s \in S}

LEMMA OneEach ==
    ASSUME NEW r, NEW t, NEW S, IsFiniteSet(S)
    PROVE  IsFiniteSet(Messages(r, t, S)) /\ Cardinality(Messages(r, t, S)) = Cardinality(S)
<1> DEFINE M == Messages(r, t, S)
           f == [s \in S |-> [req |-> r, sig |-> s, tid |-> t]]
<1>1. f \in [S -> M] /\ \A m \in M : \E s \in S : f[s] = m
  BY DEF Messages
<1>2. \A a, b \in S : f[a] = f[b] => a = b
  <2> SUFFICES ASSUME NEW a \in S, NEW b \in S, f[a] = f[b] PROVE a = b
    OBVIOUS
  <2>1. f[a].sig = a /\ f[b].sig = b
    OBVIOUS
  <2> QED
    BY <2>1
<1> HIDE DEF f, M
<1>3. f \in Bijection(S, M)
  BY <1>1, <1>2, Fun_IsBij
<1>4. IsFiniteSet(M) /\ Cardinality(M) = Cardinality(S)
  BY <1>3, FS_Bijection DEF ExistsBijection
<1> QED
  BY <1>4 DEF M

LEMMA MessagesCount ==
    ASSUME ReqTypeOK, NEW r \in Request
    PROVE  /\ IsFiniteSet(req[r].sigs) /\ IsFiniteSet(req[r].known) /\ IsFiniteSet(MessagesOf(r))
           /\ Cardinality(req[r].sigs \ req[r].known) \in Nat
           /\ Cardinality(MessagesOf(r)) = Cardinality(req[r].sigs \ req[r].known)
<1>1. req[r].sigs \subseteq Sig /\ req[r].known \subseteq Sig
  BY DEF ReqTypeOK, ReqRecord
<1>2. IsFiniteSet(req[r].sigs) /\ IsFiniteSet(req[r].known)
  BY <1>1, SigFinite, FS_Subset
<1>3. IsFiniteSet(req[r].sigs \ req[r].known) /\ Cardinality(req[r].sigs \ req[r].known) \in Nat
  BY <1>2, FS_Difference, FS_CardinalityType
<1>4. MessagesOf(r) = Messages(r, req[r].tid, req[r].sigs \ req[r].known)
  BY Zenon DEF MessagesOf, Messages
<1> QED
  BY <1>2, <1>3, <1>4, OneEach

\* What one sender has not sent yet, and that there is none without a sender.
LEMMA OneSender ==
    ASSUME NEW r \in Request, \A q \in Request \ {r} : req[q].pc # "send", NEW t
    PROVE  Unsent(t) = IF req[r].pc = "send" /\ req[r].tid = t THEN MessagesOf(r) ELSE {}
BY DEF Unsent

LEMMA OneSenderNext ==
    ASSUME NEW r \in Request, \A q \in Request \ {r} : req'[q].pc # "send", NEW t
    PROVE  Unsent(t)' = IF req'[r].pc = "send" /\ req'[r].tid = t THEN MessagesOf(r)' ELSE {}
BY DEF Unsent

\* The steps of a handler put the signatures that are not known on their way, once,
\* as they come to the send.
LEMMA RequestOutstanding ==
    ASSUME TypeOK, SerialInv, FiniteInv, NEW r \in Request, RequestStep(r), UNCHANGED <<collectorVars, keeperVars>>
    PROVE  /\ FiniteInv'
           /\ \A t \in Request :
                /\ Outstanding(t) \in Nat
                /\ Outstanding(t)' = Outstanding(t) +
                     (IF req[r].pc # "send" /\ req'[r].pc = "send" /\ req'[r].tid = t
                      THEN Cardinality(req[r].sigs \ req[r].known) ELSE 0)
<1>a. GraphTypeOK /\ ReqTypeOK /\ RequestsOK /\ SentInv
  BY DEF TypeOK, SerialInv
<1>b. UNCHANGED <<queryTopic, hand, fetched, jobs>>
  BY RequestFrame DEF collectorVars, keeperVars
<1>c. \A q \in Request \ {r} : req[q].pc # "send" /\ req'[q].pc # "send"
  BY <1>a, RunsAlone DEF Live, Ended
<1>d. /\ IsFiniteSet(MessagesOf(r)) /\ Cardinality(MessagesOf(r)) \in Nat
      /\ Cardinality(MessagesOf(r)) = Cardinality(req[r].sigs \ req[r].known)
  BY <1>a, MessagesCount
<1>e. \A t : InHands(t)' = InHands(t) /\ InQueries(t)' = InQueries(t) /\ InJobs(t)' = InJobs(t)
  BY <1>b DEF InHands, InQueries, InJobs
<1>f. \A t \in Request : Waiting(t) \in Nat /\ Cardinality(Unsent(t)) \in Nat
  BY <1>c, <1>d, PartsFinite, OneSender, FS_EmptySet
<1>1. CASE SendMessages(r)
  <2>1. signatureTopic' = signatureTopic \cup MessagesOf(r) /\ req[r].pc = "send" /\ req'[r].pc = "done"
    BY <1>a, <1>1, RequestMoves DEF SendMessages, Moves, Becomes, Holds
  <2>2. signatureTopic \cap MessagesOf(r) = {}
    BY <1>a, <2>1, NewMessages DEF Sent, GraphTypeOK
  <2>3. FiniteInv'
    <3>1. IsFiniteSet(signatureTopic')
      BY <1>d, <2>1, FS_Union DEF FiniteInv
    <3> QED
      BY <1>b, <3>1 DEF FiniteInv, Busy
  <2>4. ASSUME NEW t \in Request
        PROVE  Outstanding(t)' = Outstanding(t)
    <3>1. Unsent(t)' = {}
      BY <1>c, <2>1, OneSenderNext
    <3>2. CASE req[r].tid = t
      <4>1. InTopic(t)' = InTopic(t) \cup MessagesOf(r) /\ InTopic(t) \cap MessagesOf(r) = {}
        BY <2>1, <2>2, <3>2 DEF InTopic, MessagesOf
      <4>2. Unsent(t) = MessagesOf(r)
        BY <1>c, <2>1, <3>2, OneSender
      <4>3. Cardinality(InTopic(t)') = Cardinality(InTopic(t)) + Cardinality(MessagesOf(r))
        <5>1. Cardinality(InTopic(t)') = Cardinality(InTopic(t)) + Cardinality(MessagesOf(r)) - Cardinality({})
          BY <1>d, <4>1, PartsFinite, FS_Union
        <5> QED
          BY <1>d, <5>1, PartsFinite, FS_EmptySet
      <4> QED
        BY <1>d, <1>e, <3>1, <4>2, <4>3, PartsFinite, WaitingParts, FS_EmptySet DEF Outstanding
    <3>3. CASE req[r].tid # t
      <4>1. InTopic(t)' = InTopic(t)
        BY <2>1, <3>3 DEF InTopic, MessagesOf
      <4>2. Unsent(t) = {}
        BY <1>c, <3>3, OneSender
      <4> QED
        BY <1>e, <3>1, <4>1, <4>2, WaitingParts DEF Outstanding
    <3> QED
      BY <3>2, <3>3
  <2> QED
    BY <1>f, <2>1, <2>3, <2>4 DEF Outstanding
<1>2. CASE ~SendMessages(r)
  <2>1. UNCHANGED signatureTopic /\ req[r].pc # "send"
    BY <1>2 DEF RequestStep, CheckAccount, InsertAccount, GetMine, RecheckAccount, ListSignatures,
                ReadTask, ArmTasks, CreateTasks, dbVars
  <2>2. FiniteInv'
    BY <1>b, <2>1 DEF FiniteInv, Busy
  <2>3. ASSUME NEW t \in Request
        PROVE  Waiting(t)' = Waiting(t) /\ Unsent(t) = {} /\ Outstanding(t) = Waiting(t)
    <3>1. InTopic(t)' = InTopic(t)
      BY <2>1 DEF InTopic
    <3>2. Unsent(t) = {}
      BY <1>c, <2>1, OneSender
    <3> QED
      BY <1>e, <1>f, <3>1, <3>2, WaitingParts, FS_EmptySet DEF Outstanding
  <2>5. req'[r].pc = "send" => Cardinality(MessagesOf(r)') = Cardinality(req[r].sigs \ req[r].known)
    <3> SUFFICES ASSUME req'[r].pc = "send"
                 PROVE  Cardinality(MessagesOf(r)') = Cardinality(req[r].sigs \ req[r].known)
      OBVIOUS
    <3>1. CASE ArmTasks(r) \/ CreateTasks(r)
      <4>1. req'[r].sigs = req[r].sigs /\ req'[r].known = req[r].known
        BY <1>a, <3>1, RequestMoves DEF Moves, Becomes, Holds
      <4>2. MessagesOf(r)' = Messages(r, req'[r].tid, req[r].sigs \ req[r].known)
        BY <4>1, Zenon DEF MessagesOf, Messages
      <4>3. IsFiniteSet(req[r].sigs \ req[r].known)
        BY <1>a, MessagesCount, FS_Difference
      <4> QED
        BY <4>2, <4>3, OneEach
    <3>2. CASE ~(ArmTasks(r) \/ CreateTasks(r))
      BY <1>a, <1>2, <3>2, RequestMoves DEF RequestStep, Moves, Becomes, Holds, AfterCheck, AfterRecheck
    <3> QED
      BY <3>1, <3>2
  <2>6. ASSUME NEW t \in Request
        PROVE  Outstanding(t)' = Outstanding(t) +
                 (IF req'[r].pc = "send" /\ req'[r].tid = t
                  THEN Cardinality(req[r].sigs \ req[r].known) ELSE 0)
    <3>1. CASE req'[r].pc = "send" /\ req'[r].tid = t
      <4>1. Unsent(t)' = MessagesOf(r)'
        BY <1>c, <3>1, OneSenderNext
      <4> QED
        BY <1>d, <1>f, <2>3, <2>5, <3>1, <4>1 DEF Outstanding
    <3>2. CASE ~(req'[r].pc = "send" /\ req'[r].tid = t)
      <4>1. Unsent(t)' = {}
        BY <1>c, <3>2, OneSenderNext
      <4> QED
        BY <1>f, <2>3, <3>2, <4>1, FS_EmptySet DEF Outstanding
    <3> QED
      BY <3>1, <3>2
  <2> QED
    BY <1>f, <2>1, <2>2, <2>3, <2>6
<1> QED
  BY <1>1, <1>2

---------------------------------------------------------------------------
(* No signature drops out.                                                  *)

\* Progress and what is on its way make up the amount of a task, at least.
WayInv ==
    \A n \in Node, t \in Request : tasks[n].id = t =>
        tasks[n].amount <= tasks[n].progress + Outstanding(t)

\* A task that is armed has the known signatures behind it and the others ahead.
LEMMA KnownAndNew ==
    ASSUME ReqTypeOK, NEW r \in Request
    PROVE  /\ Cardinality(req[r].sigs) \in Nat /\ Cardinality(req[r].known) \in Nat
           /\ Cardinality(req[r].sigs \ req[r].known) \in Nat
           /\ Cardinality(req[r].sigs) <= Cardinality(req[r].known) + Cardinality(req[r].sigs \ req[r].known)
           /\ req[r].known \subseteq req[r].sigs =>
                Cardinality(req[r].sigs) = Cardinality(req[r].known) + Cardinality(req[r].sigs \ req[r].known)
<1>1. IsFiniteSet(req[r].sigs) /\ IsFiniteSet(req[r].known) /\ Cardinality(req[r].sigs \ req[r].known) \in Nat
  BY MessagesCount
<1>2. Cardinality(req[r].sigs) \in Nat /\ Cardinality(req[r].known) \in Nat
  BY <1>1, FS_CardinalityType
<1>3. Cardinality(req[r].sigs \ req[r].known) = Cardinality(req[r].sigs) - Cardinality(req[r].sigs \cap req[r].known)
  BY <1>1, FS_Difference
<1>4. /\ Cardinality(req[r].sigs \cap req[r].known) \in Nat
      /\ Cardinality(req[r].sigs \cap req[r].known) <= Cardinality(req[r].known)
  BY <1>1, FS_Intersection, FS_CardinalityType
<1>5. req[r].known \subseteq req[r].sigs =>
        Cardinality(req[r].sigs \cap req[r].known) = Cardinality(req[r].known)
  <2>1. req[r].known \subseteq req[r].sigs => req[r].sigs \cap req[r].known = req[r].known
    OBVIOUS
  <2> QED
    BY <2>1
<1> DEFINE listed == Cardinality(req[r].sigs)
           old == Cardinality(req[r].known)
           new == Cardinality(req[r].sigs \ req[r].known)
           both == Cardinality(req[r].sigs \cap req[r].known)
<1>6. /\ listed \in Nat /\ old \in Nat /\ new \in Nat /\ both \in Nat
      /\ new = listed - both /\ both <= old
      /\ req[r].known \subseteq req[r].sigs => both = old
  BY <1>1, <1>2, <1>3, <1>4, <1>5
<1> HIDE DEF listed, old, new, both
<1>7. listed <= old + new /\ (req[r].known \subseteq req[r].sigs => listed = old + new)
  BY <1>6
<1> QED
  BY <1>6, <1>7 DEF listed, old, new, both

\* What the first step of a handler on the tasks does to a task: all of it, or nothing.
LEMMA TaskArmed ==
    ASSUME TypeOK, SerialInv, NEW r \in Request, RequestStep(r), NEW n \in Node, tasks'[n].id # None
    PROVE  \/ tasks'[n] = tasks[n]
           \/ /\ tasks'[n].amount = Cardinality(req[r].sigs) /\ tasks'[n].synced = req[r].sigs
              /\ tasks'[n].progress = Cardinality(req[r].known)
              /\ req[r].pc # "send" /\ req'[r].pc = "send" /\ req'[r].tid = tasks'[n].id
              /\ \/ n \in Attached /\ tasks'[n].id = tasks[n].id /\ req[r].known = tasks[n].synced
                    /\ tasks'[n].transferCount = tasks[n].transferCount
                 \/ tasks[n].id = None /\ req[r].known = {} /\ tasks'[n].id = r /\ tasks'[n].transferCount = 0
<1> USE DEF Moves, Becomes, Holds
<1>a. GraphTypeOK /\ ReqTypeOK /\ RequestsOK /\ OwnTasks /\ OneAccount /\ RequestOK(r) /\ ArmedOK(r)
  BY DEF TypeOK, SerialInv, RequestsOK
<1>1. CASE ArmTasks(r)
  <2>1. req[r].pc = "arm" /\ (n \in Attached => req[r].known = tasks[n].synced)
    BY <1>a, <1>1 DEF ArmTasks, ArmedOK
  <2>2. PICK t \in IF Attached = {} THEN {req[r].tid} ELSE {tasks[p].id : p \in Attached} :
               Becomes(r, IF req[r].goal = "resync" THEN "send" ELSE "create", req[r].goal,
                       req[r].sigs, req[r].known, t)
    BY <1>a, <1>1, RequestMoves
  <2>3. CASE n \in Attached
    <3>1. req[r].goal = "resync"
      BY <1>a, <2>1, <2>3, NothingAttached DEF RequestOK, BeforeSend
    <3>2. t = tasks[n].id
      BY <1>a, <2>2, <2>3, AttachedOne
    <3> QED
      BY <1>a, <1>1, <2>1, <2>2, <2>3, <3>1, <3>2, ArmEffect
  <2>4. CASE n \notin Attached
    BY <1>a, <1>1, <2>4, ArmEffect
  <2> QED
    BY <2>3, <2>4
<1>2. CASE CreateTasks(r)
  <2>1. req[r].pc = "create" /\ req[r].tid = r /\ accounts = {r} /\ req[r].known = {}
    BY <1>2, <1>a DEF CreateTasks, RequestOK
  <2>2. Moves(r, "send", req[r].goal)
    BY <1>a, <1>2, RequestMoves
  <2>3. CASE n.by = r /\ n.acc \in accounts
    <3>1. tasks[n].id = None
      BY <1>a, <2>1, <2>3 DEF OwnTasks
    <3>2. tasks'[n] = [id |-> r, amount |-> Cardinality(req[r].sigs), progress |-> 0,
                       transferCount |-> 0, synced |-> req[r].sigs]
      BY <1>2, <2>1, <2>3 DEF CreateTasks
    <3> QED
      BY <2>1, <2>2, <3>1, <3>2, FS_EmptySet
  <2>4. CASE ~(n.by = r /\ n.acc \in accounts)
    BY <1>2, <2>4 DEF CreateTasks
  <2> QED
    BY <2>3, <2>4
<1> QED
  BY <1>1, <1>2, RequestFrame

\* As a handler goes on.
LEMMA RequestWay ==
    ASSUME TypeOK, SerialInv, FiniteInv, WayInv, NEW r \in Request, RequestStep(r),
           UNCHANGED <<collectorVars, keeperVars>>
    PROVE  WayInv'
<1>a. GraphTypeOK /\ ReqTypeOK /\ GraphTypeOK'
  BY RequestTypeOK DEF TypeOK
<1> SUFFICES ASSUME NEW n \in Node, NEW t \in Request, tasks'[n].id = t
             PROVE  tasks'[n].amount <= tasks'[n].progress + Outstanding(t)'
  BY DEF WayInv
<1>1. tasks'[n] \in Task /\ t # None
  BY <1>a, ConstantsAssumption DEF GraphTypeOK
<1>2. /\ Outstanding(t) \in Nat
      /\ Outstanding(t)' = Outstanding(t) +
           (IF req[r].pc # "send" /\ req'[r].pc = "send" /\ req'[r].tid = t
            THEN Cardinality(req[r].sigs \ req[r].known) ELSE 0)
  BY RequestOutstanding
<1>3. /\ Cardinality(req[r].sigs) \in Nat /\ Cardinality(req[r].known) \in Nat
      /\ Cardinality(req[r].sigs \ req[r].known) \in Nat
      /\ Cardinality(req[r].sigs) <= Cardinality(req[r].known) + Cardinality(req[r].sigs \ req[r].known)
  BY <1>a, KnownAndNew
<1>4. \/ tasks'[n] = tasks[n]
      \/ /\ tasks'[n].amount = Cardinality(req[r].sigs)
         /\ tasks'[n].progress = Cardinality(req[r].known)
         /\ req[r].pc # "send" /\ req'[r].pc = "send" /\ req'[r].tid = t
  BY <1>1, TaskArmed
<1>5. CASE tasks'[n] = tasks[n]
  <2>1. tasks[n].amount <= tasks[n].progress + Outstanding(t)
    BY <1>5 DEF WayInv
  <2> QED
    BY <1>1, <1>2, <1>3, <1>5, <2>1 DEF Task
<1> QED
  BY <1>2, <1>3, <1>4, <1>5

\* As long as progress and what is on its way do not shrink together.
LEMMA OthersWay ==
    ASSUME TypeOK, FiniteInv, WayInv,
           \A n \in Node : tasks'[n].id = tasks[n].id /\ tasks'[n].amount = tasks[n].amount,
           \A n \in Node, t \in Request : tasks[n].id = t =>
               /\ Outstanding(t) \in Int /\ Outstanding(t)' \in Int /\ tasks'[n].progress \in Int
               /\ tasks[n].progress + Outstanding(t) <= tasks'[n].progress + Outstanding(t)'
    PROVE  WayInv'
<1> SUFFICES ASSUME NEW n \in Node, NEW t \in Request, tasks'[n].id = t
             PROVE  tasks'[n].amount <= tasks'[n].progress + Outstanding(t)'
  BY DEF WayInv
<1>1. tasks[n].amount <= tasks[n].progress + Outstanding(t)
  BY DEF WayInv
<1>2. tasks[n].amount \in Int /\ tasks[n].progress \in Int
  BY DEF TypeOK, GraphTypeOK, Task
<1> QED
  BY <1>1, <1>2

\* The requests that are not running, and the messages they have to send, stay.
LEMMA UnsentKept ==
    ASSUME TypeOK, FiniteInv, RequestsOK, NEW t
    PROVE  /\ IsFiniteSet(Unsent(t)) /\ Cardinality(Unsent(t)) \in Nat
           /\ UNCHANGED req => Unsent(t)' = Unsent(t)
           /\ Idle => Unsent(t) = {}
<1>1. UNCHANGED req => Unsent(t)' = Unsent(t)
  BY DEF Unsent, MessagesOf
<1>2. Idle => Unsent(t) = {}
  BY DEF Idle, Live, Ended, Unsent
<1>3. CASE \E r \in Request : Live(r)
  <2>1. PICK r \in Request : Live(r)
    BY <1>3
  <2>2. \A q \in Request \ {r} : req[q].pc # "send"
    BY <2>1 DEF RequestsOK, OneLive, Live, Ended
  <2>3. Unsent(t) \in {MessagesOf(r), {}}
    BY <2>2, OneSender
  <2> QED
    BY <1>1, <1>2, <2>3, MessagesCount, FS_EmptySet, FS_CardinalityType DEF TypeOK
<1> QED
  BY <1>1, <1>2, <1>3, FS_EmptySet DEF Idle

\* No failure but a collector's: a step that is no handler's moves no signature off
\* the way, but by counting it.
LEMMA StepWay ==
    ASSUME Failing \subseteq {"collector"}, TypeOK, PricedInv, SerialInv, FlowInv, FiniteInv, WayInv,
           [SerialNext]_vars
    PROVE  FiniteInv' /\ WayInv'
<1>a. /\ \A r \in Request : ~RequestFails(r)
      /\ \A k \in Keepers : ~KeeperCrash(k)
      /\ \A j \in jobs : ~JobFails(j)
  BY DEF RequestFails, KeeperCrash, JobFails, Fault
<1>b. RequestsOK /\ GraphTypeOK /\ KeeperTypeOK /\ \A n \in Node : tasks[n] \in Task
  BY DEF SerialInv, TypeOK, GraphTypeOK
<1>c. \A t \in Request : /\ Cardinality(Unsent(t)) \in Nat /\ Waiting(t) \in Nat
                         /\ Outstanding(t) = Cardinality(Unsent(t)) + Waiting(t)
                         /\ Outstanding(t)' = Cardinality(Unsent(t)') + Waiting(t)'
  BY <1>b, UnsentKept, PartsFinite DEF Outstanding
<1>1. CASE Idle /\ Clients
  <2>1. UNCHANGED <<tasks, signatureTopic, queryTopic, hand, fetched, jobs>>
    BY <1>1, ClientFrame DEF collectorVars, keeperVars
  <2>2. \A t : Waiting(t)' = Waiting(t)
    BY <2>1 DEF Waiting
  <2>3. \A t : Unsent(t)' = Unsent(t)
    BY <1>1, <1>b, UnsentKept, ClientFrame DEF Unsent
  <2>4. FiniteInv'
    BY <2>1 DEF FiniteInv, Busy
  <2> QED
    BY <1>b, <1>c, <2>1, <2>2, <2>3, <2>4, OthersWay DEF Task
<1>2. ASSUME NEW r \in Request, RequestStep(r), UNCHANGED <<collectorVars, keeperVars>>
      PROVE  FiniteInv' /\ WayInv'
  BY <1>2, RequestOutstanding, RequestWay
<1>3. ASSUME NEW c \in Collectors, CollectorStep(c) \/ TryFails(c) \/ CollectorCrash(c), UNCHANGED <<req, keeperVars>>
      PROVE  FiniteInv' /\ WayInv'
  <2>1. UNCHANGED tasks
    BY <1>3 DEF CollectorStep, TakeMessage, CollectQueries, PriceThrows, CatchQueries, TryFails,
                CollectorCrash, graphVars
  <2>2. FiniteInv' /\ \A t \in Request : Waiting(t) <= Waiting(t)'
    BY <1>3, <1>c, CollectorWaiting, CollectorFaultWaiting
  <2>3. \A t \in Request : Unsent(t)' = Unsent(t) /\ Waiting(t)' \in Nat
    BY <1>3, <1>b, <2>2, UnsentKept, PartsFiniteNext
  <2> QED
    BY <1>b, <1>c, <2>1, <2>2, <2>3, OthersWay DEF Task
<1>4. ASSUME NEW k \in Keepers, TakeDelivery(k), UNCHANGED <<req, collectorVars>>
      PROVE  FiniteInv' /\ WayInv'
  <2>1. UNCHANGED tasks
    BY <1>4 DEF TakeDelivery, graphVars
  <2>2. FiniteInv' /\ \A t \in Request : Waiting(t)' = Waiting(t) /\ Unsent(t)' = Unsent(t)
    BY <1>4, <1>b, TakeDeliveryWaiting, UnsentKept
  <2> QED
    BY <1>b, <1>c, <2>1, <2>2, OthersWay DEF Task
<1>5. ASSUME NEW j \in jobs, RunQuery(j), UNCHANGED <<req, collectorVars>>
      PROVE  FiniteInv' /\ WayInv'
  <2>1. FiniteInv' /\ \A t \in Request :
          /\ Waiting(t)' \in Nat
          /\ Waiting(t) = Waiting(t)' + (IF j.at = "increment" /\ j.dlv.msg.tid = t THEN 1 ELSE 0)
          /\ Unsent(t)' = Unsent(t)
    BY <1>5, <1>b, RunQueryWaiting, UnsentKept
  <2>2. \A n \in Node : /\ tasks'[n].id = tasks[n].id /\ tasks'[n].amount = tasks[n].amount
                        /\ tasks'[n].progress = IF j.at = "increment" /\ tasks[n].id = j.dlv.msg.tid
                                                THEN tasks[n].progress + 1 ELSE tasks[n].progress
    BY <1>5, <1>b, QueryEffect
  <2>3. ASSUME NEW n \in Node, NEW t \in Request, tasks[n].id = t
        PROVE  /\ Outstanding(t) \in Int /\ Outstanding(t)' \in Int /\ tasks'[n].progress \in Int
               /\ tasks[n].progress + Outstanding(t) <= tasks'[n].progress + Outstanding(t)'
    <3>1. tasks[n].progress \in Nat
      BY <1>b DEF Task
    <3> QED
      BY <1>c, <2>1, <2>2, <2>3, <3>1
  <2> QED
    BY <2>1, <2>2, <2>3, OthersWay
<1>6. CASE Environment \/ UNCHANGED vars
  <2>1. UNCHANGED <<tasks, signatureTopic, queryTopic, hand, fetched, jobs, req>>
    BY <1>6 DEF Environment, Grow, FetchPrices, vars, graphVars, collectorVars, keeperVars
  <2>2. \A t \in Request : Waiting(t)' = Waiting(t) /\ Unsent(t)' = Unsent(t)
    BY <1>b, <2>1, UnsentKept DEF Waiting
  <2>3. FiniteInv'
    BY <2>1 DEF FiniteInv, Busy
  <2> QED
    BY <1>b, <1>c, <2>1, <2>2, <2>3, OthersWay DEF Task
<1> QED
  BY <1>a, <1>1, <1>2, <1>3, <1>4, <1>5, <1>6, SerialSteps DEF KeeperStep

LEMMA InitWay == Init => FiniteInv /\ WayInv
<1> SUFFICES ASSUME Init PROVE FiniteInv /\ WayInv
  OBVIOUS
<1>1. /\ \A n \in Node : tasks[n].id = None
      /\ signatureTopic = {} /\ queryTopic = {} /\ jobs = {} /\ Busy = {}
      /\ \A c \in Collectors : fetched[c] = {}
  BY DEF Init, GraphInit, ReqInit, CollectorInit, KeeperInit, NoTask, Busy
<1> QED
  BY <1>1, FS_EmptySet, ConstantsAssumption DEF FiniteInv, WayInv

\* Whatever collectors crash, fail and repeat, no signature drops out: the progress of a
\* task and what is on its way always make up its amount.
THEOREM NothingDropsOut ==
    ASSUME Failing \subseteq {"collector"}
    PROVE  SerialSpec => []NothingUncounted
<1> DEFINE Inv == TypeOK /\ PricedInv /\ FreshInv /\ CountInv /\ SerialInv /\ FlowInv /\ FiniteInv /\ WayInv
<1>1. Init => Inv
  BY InitTypeOK, InitPriced, InitCount, InitSerial, InitOnce, InitWay
<1>2. Inv /\ [SerialNext]_vars => Inv'
  <2> SUFFICES ASSUME Inv, [SerialNext]_vars PROVE Inv'
    OBVIOUS
  <2>1. TypeOK' /\ PricedInv' /\ FreshInv' /\ CountInv'
    BY SerialIsNext, StepTypeOK, StepPriced, StepCount
  <2>2. SerialInv' /\ FlowInv' /\ FiniteInv' /\ WayInv'
    BY StepSerial, StepFlow, StepWay
  <2> QED
    BY <2>1, <2>2
<1>3. Inv => NothingUncounted
  BY DEF NothingUncounted, WayInv, Attached, TypeOK, GraphTypeOK, Task
<1> QED
  <2> HIDE DEF Inv
  <2> QED
    BY <1>1, <1>2, <1>3, PTL DEF SerialSpec
=============================================================================
