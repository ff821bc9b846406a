--------------------------- MODULE RunEngineProofs ---------------------------
(***************************************************************************)
(* What holds of RunEngine for every sample list, concurrency, cap, retry  *)
(* limit and sequence of sessions.                                         *)
(***************************************************************************)
EXTENDS RunEngine, SumTheorems, SequenceTheorems, TLAPS

-----------------------------------------------------------------------------
(* What the operators of the model return. *)

\* A request is well typed whatever the conversation has heard.
LEMMA RequestType ==
  ASSUME TypeOK, NEW g \in Groups, NEW i \in Members(g)
  PROVE  Request(g, i) \in Requests /\ Request(g, i).sample = i
<1>1. i \in Input /\ Slots[i] \in Nat
  BY EngineAssumption DEF Members, Samples
<1>2. [k \in 1..Slots[i] |-> Gold] \in [1..Slots[i] -> Texts]
  BY DEF Texts
<1>3. [k \in 1..Slots[i] |-> Gold] \in Seq(Texts)
  BY <1>1, <1>2, SeqDef
<1>4. spoken[g] \in Seq(Texts)
  BY DEF TypeOK
<1> QED BY <1>1, <1>3, <1>4 DEF Request, Requests

\* A response and the absence of one are told apart, and each says something.
LEMMA SaidType ==
  ASSUME NEW p, p.response \in Responses \cup {NoResponse}
  PROVE  Said(p) \in Texts
<1>1. CASE p.response = NoResponse
  BY <1>1 DEF Said, Texts
<1>2. CASE p.response # NoResponse
  <2>1. p.response.content \in Contents
    BY <1>2 DEF Responses
  <2> QED BY <1>2, <2>1 DEF Said, Texts
<1> QED BY <1>1, <1>2

LEMMA PriceType ==
  ASSUME NEW r \in Responses
  PROVE  Price(r) \in 0..MaxCost
<1>1. r.cost \in (0..MaxCost) \cup {Unpriced} /\ MaxCost \in Nat
  BY EngineAssumption DEF Responses
<1> QED BY <1>1 DEF Price

\* Settling a sample keeps the types of everything Complete touches.
LEMMA CompleteType ==
  ASSUME TypeOK, NEW g \in Groups, NEW i \in Members(g), NEW p \in Predictions,
         Complete(g, i, p)
  PROVE  /\ pred' \in [Samples -> Predictions \cup {NoPrediction}]
         /\ spoken' \in [Groups -> Seq(Texts)]
         /\ place' \in [Groups -> {"queued", "turn", "calling", "waiting", "agent",
                                   "done", "raised"}]
         /\ attempts' \in [Groups -> 0..(MaxRetries + 1)]
<1>1. i \in Samples
  BY DEF Members
<1>2. Said(p) \in Texts
  BY SaidType DEF Predictions
<1>3. spoken[g] \in Seq(Texts)
  BY DEF TypeOK
<1>4. Append(spoken[g], Said(p)) \in Seq(Texts)
  BY <1>2, <1>3
<1>5. 0 \in 0..(MaxRetries + 1)
  BY EngineAssumption
<1> QED BY <1>1, <1>4, <1>5 DEF Complete, TypeOK

-----------------------------------------------------------------------------
(* Type correctness. *)

\* What a settled sample is recorded with is a prediction.
LEMMA PredictionType ==
  ASSUME TypeOK, NEW g \in Groups, NEW i \in Members(g),
         NEW kind \in {"answered", "hit", "agent", "refused", "error"},
         NEW resp \in Responses \cup {NoResponse}, NEW n \in Nat
  PROVE  [kind |-> kind, request |-> Request(g, i), response |-> resp,
          attempts |-> n] \in Predictions
BY RequestType DEF Predictions

\* The total stays a number when a response is recorded.
LEMMA RecordCostType ==
  ASSUME TypeOK, NEW resp \in Responses, RecordCost(resp)
  PROVE  spend' \in Nat /\ priced' \in BOOLEAN /\ spend' <= spend + MaxCost
<1>1. Price(resp) \in 0..MaxCost /\ MaxCost \in Nat /\ spend \in Nat
  BY PriceType, EngineAssumption DEF TypeOK
<1>2. spend' = spend + Price(resp) /\ priced' \in BOOLEAN
  BY DEF RecordCost, TypeOK
<1> QED BY <1>1, <1>2

\* A delivery is recorded as one.
LEMMA DeliverType ==
  ASSUME TypeOK, NEW r \in Requests, NEW resp \in Responses, NEW stored \in BOOLEAN,
         Deliver(r, resp, stored)
  PROVE  delivered' \subseteq Deliveries
<1>1. session \in Nat
  BY EngineAssumption DEF TypeOK
<1>2. [request |-> r, response |-> resp, session |-> session, stored |-> stored]
        \in Deliveries
  BY <1>1 DEF Deliveries
<1> QED BY <1>2 DEF Deliver, TypeOK

LEMMA InitType == Init => TypeOK
<1>1. \A g \in Groups : <<>> \in Seq(Texts)
  BY EmptySeq
<1>2. 0 \in 0..(MaxRetries + 1) /\ 1 \in 1..MaxSessions
  BY EngineAssumption
<1> SUFFICES ASSUME Init PROVE TypeOK
  OBVIOUS
<1>3. spoken \in [Groups -> Seq(Texts)]
  BY <1>1 DEF Init, Fresh
<1>4. attempts \in [Groups -> 0..(MaxRetries + 1)] /\ session \in 1..MaxSessions
  BY <1>2 DEF Init, Fresh
<1> QED BY <1>3, <1>4 DEF Init, Fresh, TypeOK

\* TypeOK bounds the attempts; this is what keeps the bound when a backed-off call is
\* sent again.
WaitersMayRetry == \A g \in Groups : place[g] = "waiting" => attempts[g] <= MaxRetries

\* Every step of a task keeps the types.
LEMMA TaskType ==
  ASSUME TypeOK, WaitersMayRetry, NEW g \in Groups, Task(g)
  PROVE  TypeOK'
<1> USE DEF volatile
<1>a. attempts[g] \in 0..(MaxRetries + 1) /\ MaxRetries \in Nat
  BY EngineAssumption DEF TypeOK
<1>b. attempts[g] \in Nat
  BY <1>a
<1>1. CASE Start(g)
  BY <1>1 DEF Start, TypeOK
<1>2. CASE PrepareRaises(g)
  BY <1>2 DEF PrepareRaises, Raise, TypeOK
<1>3. CASE RefuseOverBudget(g)
  <2>1. PICK i \in Members(g) :
          /\ exceeded' = TRUE
          /\ Complete(g, i, [kind |-> "refused", request |-> Request(g, i),
                             response |-> NoResponse, attempts |-> 0])
          /\ UNCHANGED <<phase, session, mode, spend, priced, cache, delivered>>
    BY <1>3 DEF RefuseOverBudget
  <2>2. [kind |-> "refused", request |-> Request(g, i),
         response |-> NoResponse, attempts |-> 0] \in Predictions
    BY PredictionType
  <2> QED BY <2>1, <2>2, CompleteType DEF TypeOK
<1>4. CASE CacheHit(g)
  <2>1. PICK i \in Members(g), e \in cache :
          /\ RecordCost(e.response)
          /\ Complete(g, i, [kind |-> "hit", request |-> Request(g, i),
                             response |-> e.response, attempts |-> 0])
          /\ UNCHANGED <<phase, session, mode, exceeded, cache, delivered>>
    BY <1>4 DEF CacheHit, Cached
  <2>2. e.response \in Responses
    BY DEF TypeOK, Entries
  <2>3. [kind |-> "hit", request |-> Request(g, i),
         response |-> e.response, attempts |-> 0] \in Predictions
    BY <2>2, PredictionType
  <2> QED BY <2>1, <2>2, <2>3, CompleteType, RecordCostType DEF TypeOK
<1>5. CASE Call(g)
  BY <1>5, <1>a DEF Call, TypeOK
<1>6. CASE Succeed(g)
  <2>1. PICK i \in Members(g), resp \in Responses :
          /\ RecordCost(resp)
          /\ Deliver(Request(g, i), resp, WritesCache)
          /\ IF WritesCache THEN Store(Request(g, i), resp) ELSE UNCHANGED cache
          /\ Complete(g, i, [kind |-> "answered", request |-> Request(g, i),
                             response |-> resp, attempts |-> attempts[g]])
          /\ UNCHANGED <<phase, session, mode, exceeded>>
    BY <1>6 DEF Succeed
  <2>2. [kind |-> "answered", request |-> Request(g, i),
         response |-> resp, attempts |-> attempts[g]] \in Predictions
    BY <1>b, PredictionType
  <2>3. Request(g, i) \in Requests
    BY RequestType
  <2>4. cache' \subseteq Entries
    BY <2>1, <2>3 DEF Store, Entries, TypeOK
  <2>5. WritesCache \in BOOLEAN
    BY DEF WritesCache
  <2>6. delivered' \subseteq Deliveries
    BY <2>1, <2>3, <2>5, DeliverType
  <2> QED BY <2>1, <2>2, <2>4, <2>6, CompleteType, RecordCostType DEF TypeOK
<1>7. CASE PutFails(g)
  <2>1. PICK i \in Members(g), resp \in Responses :
          /\ RecordCost(resp)
          /\ Deliver(Request(g, i), resp, FALSE)
          /\ Raise(g)
          /\ UNCHANGED <<session, mode, exceeded, cache>>
    BY <1>7 DEF PutFails
  <2>2. Request(g, i) \in Requests
    BY RequestType
  <2>3. delivered' \subseteq Deliveries
    BY <2>1, <2>2, DeliverType
  <2> QED BY <2>1, <2>3, RecordCostType DEF TypeOK, Raise
<1>8. CASE BackOff(g)
  BY <1>8 DEF BackOff, TypeOK
<1>9. CASE Retry(g)
  <2>1. attempts[g] + 1 \in 0..(MaxRetries + 1)
    BY <1>9, <1>a DEF Retry, WaitersMayRetry
  <2> QED BY <1>9, <2>1 DEF Retry, TypeOK
<1>10. CASE GiveUp(g)
  <2>1. PICK i \in Members(g) :
          /\ Complete(g, i, [kind |-> "error", request |-> Request(g, i),
                             response |-> NoResponse, attempts |-> attempts[g]])
          /\ UNCHANGED <<phase, session, mode, spend, priced, exceeded, cache, delivered>>
    BY <1>10 DEF GiveUp
  <2>2. [kind |-> "error", request |-> Request(g, i),
         response |-> NoResponse, attempts |-> attempts[g]] \in Predictions
    BY <1>b, PredictionType
  <2> QED BY <2>1, <2>2, CompleteType DEF TypeOK
<1>11. CASE AgentCall(g)
  BY <1>11 DEF AgentCall, TypeOK
<1>12. CASE AgentAnswers(g)
  <2>1. PICK i \in Members(g), resp \in Responses, turns \in 0..MaxToolTurns :
          /\ RecordCost(resp)
          /\ Deliver(Request(g, i), resp, FALSE)
          /\ Complete(g, i, [kind |-> "agent", request |-> Request(g, i),
                             response |-> resp, attempts |-> turns + 1])
          /\ UNCHANGED <<phase, session, mode, exceeded, cache>>
    BY <1>12 DEF AgentAnswers
  <2>2. turns + 1 \in Nat
    BY EngineAssumption
  <2>3. [kind |-> "agent", request |-> Request(g, i),
         response |-> resp, attempts |-> turns + 1] \in Predictions
    BY <2>2, PredictionType
  <2>4. Request(g, i) \in Requests
    BY RequestType
  <2>5. delivered' \subseteq Deliveries
    BY <2>1, <2>4, DeliverType
  <2> QED BY <2>1, <2>3, <2>5, CompleteType, RecordCostType DEF TypeOK
<1>13. CASE AgentFails(g)
  <2>1. PICK i \in Members(g) :
          /\ Complete(g, i, [kind |-> "error", request |-> Request(g, i),
                             response |-> NoResponse, attempts |-> 1])
          /\ UNCHANGED <<phase, session, mode, spend, priced, exceeded, cache, delivered>>
    BY <1>13 DEF AgentFails
  <2>2. [kind |-> "error", request |-> Request(g, i),
         response |-> NoResponse, attempts |-> 1] \in Predictions
    BY PredictionType
  <2> QED BY <2>1, <2>2, CompleteType DEF TypeOK
<1>14. CASE Finish(g)
  BY <1>14 DEF Finish, TypeOK
<1> QED BY <1>1, <1>2, <1>3, <1>4, <1>5, <1>6, <1>7, <1>8, <1>9, <1>10, <1>11,
           <1>12, <1>13, <1>14 DEF Task

\* The steps of the process as a whole keep the types.
LEMMA ProcessType ==
  ASSUME TypeOK, Begin \/ Return \/ Kill \/ Restart \/ UNCHANGED vars
  PROVE  TypeOK'
<1> USE DEF volatile
<1>1. CASE Begin
  BY <1>1 DEF Begin, TypeOK
<1>2. CASE Return
  BY <1>2 DEF Return, TypeOK
<1>3. CASE Kill
  BY <1>3 DEF Kill, TypeOK
<1>4. CASE Restart
  <2>1. \A g \in Groups : <<>> \in Seq(Texts)
    BY EmptySeq
  <2>2. 0 \in 0..(MaxRetries + 1) /\ session' \in 1..MaxSessions
    BY <1>4, EngineAssumption DEF Restart, TypeOK
  <2> QED BY <1>4, <2>1, <2>2 DEF Restart, TypeOK
<1>5. CASE UNCHANGED vars
  BY <1>5 DEF vars, TypeOK
<1> QED BY <1>1, <1>2, <1>3, <1>4, <1>5

\* A task that is not running a step keeps its place and its count of attempts.
LEMMA OthersStay ==
  ASSUME TypeOK, NEW g \in Groups, Task(g), NEW h \in Groups, h # g
  PROVE  place'[h] = place[h] /\ attempts'[h] = attempts[h]
<1> USE DEF TypeOK
<1>1. CASE Start(g) BY <1>1 DEF Start
<1>2. CASE PrepareRaises(g) BY <1>2 DEF PrepareRaises, Raise
<1>3. CASE RefuseOverBudget(g) BY <1>3 DEF RefuseOverBudget, Complete
<1>4. CASE CacheHit(g) BY <1>4 DEF CacheHit, Complete
<1>5. CASE Call(g) BY <1>5 DEF Call
<1>6. CASE Succeed(g) BY <1>6 DEF Succeed, Complete
<1>7. CASE PutFails(g) BY <1>7 DEF PutFails, Raise
<1>8. CASE BackOff(g) BY <1>8 DEF BackOff
<1>9. CASE Retry(g) BY <1>9 DEF Retry
<1>10. CASE GiveUp(g) BY <1>10 DEF GiveUp, Complete
<1>11. CASE AgentCall(g) BY <1>11 DEF AgentCall
<1>12. CASE AgentAnswers(g) BY <1>12 DEF AgentAnswers, Complete
<1>13. CASE AgentFails(g) BY <1>13 DEF AgentFails, Complete
<1>14. CASE Finish(g) BY <1>14 DEF Finish
<1> QED BY <1>1, <1>2, <1>3, <1>4, <1>5, <1>6, <1>7, <1>8, <1>9, <1>10, <1>11,
           <1>12, <1>13, <1>14 DEF Task

\* Only BackOff sends a task to wait, and it checks the retries.
LEMMA OnlyBackOffWaits ==
  ASSUME TypeOK, NEW g \in Groups, Task(g), ~BackOff(g)
  PROVE  place'[g] # "waiting"
<1> USE DEF TypeOK
<1>1. CASE Start(g) BY <1>1 DEF Start
<1>2. CASE PrepareRaises(g) BY <1>2 DEF PrepareRaises, Raise
<1>3. CASE RefuseOverBudget(g) BY <1>3 DEF RefuseOverBudget, Complete
<1>4. CASE CacheHit(g) BY <1>4 DEF CacheHit, Complete
<1>5. CASE Call(g) BY <1>5 DEF Call
<1>6. CASE Succeed(g) BY <1>6 DEF Succeed, Complete
<1>7. CASE PutFails(g) BY <1>7 DEF PutFails, Raise
<1>9. CASE Retry(g) BY <1>9 DEF Retry
<1>10. CASE GiveUp(g) BY <1>10 DEF GiveUp, Complete
<1>11. CASE AgentCall(g) BY <1>11 DEF AgentCall
<1>12. CASE AgentAnswers(g) BY <1>12 DEF AgentAnswers, Complete
<1>13. CASE AgentFails(g) BY <1>13 DEF AgentFails, Complete
<1>14. CASE Finish(g) BY <1>14 DEF Finish
<1> QED BY <1>1, <1>2, <1>3, <1>4, <1>5, <1>6, <1>7, <1>9, <1>10, <1>11,
           <1>12, <1>13, <1>14 DEF Task

LEMMA RetryStep ==
  ASSUME TypeOK, WaitersMayRetry, [Next]_vars
  PROVE  WaitersMayRetry'
<1>1. ASSUME NEW g \in Groups, Task(g) PROVE WaitersMayRetry'
  <2> SUFFICES ASSUME NEW h \in Groups, place'[h] = "waiting"
               PROVE  attempts'[h] <= MaxRetries
    BY DEF WaitersMayRetry
  <2>1. CASE h # g
    BY <1>1, <2>1, OthersStay DEF WaitersMayRetry
  <2>2. CASE h = g
    BY <1>1, <2>2, OnlyBackOffWaits DEF BackOff, MayRetry, TypeOK
  <2> QED BY <2>1, <2>2
<1>2. CASE Begin \/ Return \/ Kill \/ Restart \/ UNCHANGED vars
  BY <1>2 DEF Begin, Return, Kill, Restart, vars, volatile, WaitersMayRetry
<1> QED BY <1>1, <1>2 DEF Next, Over

\* Every variable keeps its type; no call is attempted more than max_retries + 1 times.
THEOREM TypeCorrect == Spec => [](TypeOK /\ WaitersMayRetry)
<1>1. Init => TypeOK /\ WaitersMayRetry
  BY InitType DEF Init, Fresh, WaitersMayRetry
<1>2. TypeOK /\ WaitersMayRetry /\ [Next]_vars => (TypeOK /\ WaitersMayRetry)'
  BY TaskType, ProcessType, RetryStep DEF Next, Over
<1> QED BY <1>1, <1>2, PTL DEF Spec

-----------------------------------------------------------------------------
(* The spending cap: how far past it a run may go. *)

LEMMA GroupsFinite == IsFiniteSet(Groups)
<1>1. IsFiniteSet(Input)
  BY FS_Interval, EngineAssumption DEF Input
<1>2. Groups \in SUBSET Input
  BY DEF Groups, Samples
<1> QED BY <1>1, <1>2, FS_Subset

\* The sets the semaphore and the provider see are finite, and the second is in the first.
LEMMA TaskSets ==
  /\ IsFiniteSet(Holding) /\ Cardinality(Holding) \in Nat
  /\ IsFiniteSet(InFlight) /\ Cardinality(InFlight) \in Nat
  /\ InFlight \subseteq Holding
  /\ Cardinality(InFlight) <= Cardinality(Holding)
<1>1. InFlight \subseteq Holding /\ Holding \subseteq Groups
  BY DEF InFlight, Holding
<1>2. IsFiniteSet(Holding)
  BY <1>1, GroupsFinite, FS_Subset
<1>3. IsFiniteSet(InFlight) /\ Cardinality(InFlight) <= Cardinality(Holding)
  BY <1>1, <1>2, FS_Subset
<1> QED BY <1>1, <1>2, <1>3, FS_CardinalityType

\* What moving one task does to the two sets.
LEMMA MoveSets ==
  ASSUME TypeOK, NEW g \in Groups, NEW w, place' = [place EXCEPT ![g] = w]
  PROVE  /\ InFlight' = IF w \in {"calling", "waiting"} THEN InFlight \cup {g}
                        ELSE InFlight \ {g}
         /\ Holding' = IF w \in {"turn", "calling", "waiting", "agent"}
                       THEN Holding \cup {g} ELSE Holding \ {g}
BY DEF TypeOK, InFlight, Holding

LEMMA WidthType == Width \in Nat /\ Width >= 1 /\ MaxCost \in Nat /\ MaxCost >= 1
BY EngineAssumption DEF Width

LEMMA OneMoreTimes == \A n, m \in Nat : (n + 1) * m = n * m + m
OBVIOUS

LEMMA FewerTimes == \A a, b, m \in Nat : a <= b => a * m <= b * m
OBVIOUS

\* At most Width conversations run at a time, and what the run has spent plus what the
\* requests in flight may still cost stays below the cap plus Width responses.  The
\* second half is what makes the bound on the spend inductive: a response that arrives
\* moves its price from one summand to the other.
CapInv ==
  /\ Cardinality(Holding) <= Width
  /\ \A g \in Groups : place[g] # "agent"
  /\ Budget # NoBudget =>
       spend + Cardinality(InFlight) * MaxCost < Budget + Width * MaxCost

\* Nothing is spent and nothing is in flight: the bound holds with room to spare.
LEMMA CapFresh ==
  ASSUME Holding = {}, InFlight = {}, spend = 0, \A g \in Groups : place[g] # "agent"
  PROVE  CapInv
<1>1. Cardinality(Holding) = 0 /\ Cardinality(InFlight) = 0
  BY FS_EmptySet
<1>2. 0 * MaxCost = 0 /\ 1 * MaxCost = MaxCost /\ 1 * MaxCost <= Width * MaxCost
  BY WidthType, FewerTimes
<1>3. Width * MaxCost \in Nat
  BY WidthType
<1>4. Budget # NoBudget => Budget \in Nat
  BY EngineAssumption
<1> QED BY <1>1, <1>2, <1>3, <1>4, WidthType DEF CapInv

\* A step that spends nothing and puts no request in flight keeps the bound.
LEMMA CapIdle ==
  ASSUME TypeOK, CapInv, spend' = spend, Holding' \subseteq Holding,
         InFlight' \subseteq InFlight, \A g \in Groups : place'[g] # "agent"
  PROVE  CapInv'
<1>1. Cardinality(Holding') <= Cardinality(Holding) /\ Cardinality(Holding') \in Nat
  BY TaskSets, FS_Subset, FS_CardinalityType
<1>2. Cardinality(InFlight') <= Cardinality(InFlight) /\ Cardinality(InFlight') \in Nat
  BY TaskSets, FS_Subset, FS_CardinalityType
<1>3. Cardinality(InFlight') * MaxCost <= Cardinality(InFlight) * MaxCost
  BY <1>2, FewerTimes, WidthType, TaskSets
<1>4. /\ Cardinality(InFlight') * MaxCost \in Nat
      /\ Cardinality(InFlight) * MaxCost \in Nat
      /\ Width * MaxCost \in Nat /\ spend \in Nat
  BY <1>2, WidthType, TaskSets DEF TypeOK
<1>5. Budget # NoBudget => Budget \in Nat
  BY EngineAssumption
<1>6. Cardinality(Holding) \in Nat /\ Width \in Nat
  BY TaskSets, WidthType
<1>7. Cardinality(Holding') <= Width
  BY <1>1, <1>6 DEF CapInv
<1>8. Budget # NoBudget =>
        spend' + Cardinality(InFlight') * MaxCost < Budget + Width * MaxCost
  BY <1>3, <1>4, <1>5 DEF CapInv
<1> QED BY <1>7, <1>8 DEF CapInv

\* A response that arrives: its price is spent, its request is no longer in flight.
LEMMA CapArrives ==
  ASSUME TypeOK, CapInv, NEW g \in InFlight, NEW resp \in Responses, RecordCost(resp),
         InFlight' = InFlight \ {g}, Holding' \subseteq Holding,
         \A h \in Groups : place'[h] # "agent"
  PROVE  CapInv'
<1> DEFINE n == Cardinality(InFlight')
<1>0. IsFiniteSet(InFlight) /\ Cardinality(InFlight) \in Nat
  BY TaskSets
<1>a. IsFiniteSet(InFlight \ {g}) /\ Cardinality(InFlight \ {g}) = Cardinality(InFlight) - 1
  BY <1>0, FS_RemoveElement
<1>b. Cardinality(InFlight \ {g}) \in Nat
  BY <1>a, FS_CardinalityType
<1>1. n \in Nat /\ Cardinality(InFlight) = n + 1
  BY <1>0, <1>a, <1>b
<1>2. Cardinality(InFlight) * MaxCost = n * MaxCost + MaxCost
  BY <1>1, OneMoreTimes, WidthType
<1>3. spend' \in Nat /\ spend' <= spend + MaxCost /\ spend \in Nat
  BY RecordCostType DEF TypeOK
<1>4. n * MaxCost \in Nat /\ Width * MaxCost \in Nat /\ MaxCost \in Nat
  BY <1>1, WidthType
<1>5. Budget # NoBudget => Budget \in Nat
  BY EngineAssumption
<1>6. Cardinality(Holding') <= Cardinality(Holding) /\ Cardinality(Holding') \in Nat
  BY TaskSets, FS_Subset, FS_CardinalityType
<1>7. Cardinality(Holding) \in Nat /\ Width \in Nat
  BY TaskSets, WidthType
<1>8. Budget # NoBudget => spend' + n * MaxCost < Budget + Width * MaxCost
  <2> HIDE DEF n
  <2> QED BY <1>2, <1>3, <1>4, <1>5 DEF CapInv
<1>9. Cardinality(Holding') <= Width
  BY <1>6, <1>7 DEF CapInv
<1> QED BY <1>8, <1>9 DEF CapInv

\* A cache hit: it is looked for below the cap, by a task that has nothing in flight.
LEMMA CapHit ==
  ASSUME TypeOK, CapInv, ~OverBudget, NEW g \in Holding \ InFlight,
         NEW resp \in Responses, RecordCost(resp),
         InFlight' = InFlight, Holding' = Holding,
         \A h \in Groups : place'[h] # "agent"
  PROVE  CapInv'
<1> DEFINE n == Cardinality(InFlight)
<1>1. /\ IsFiniteSet(Holding) /\ Cardinality(Holding) \in Nat
      /\ InFlight \in SUBSET (Holding \ {g}) /\ n \in Nat
  BY TaskSets
<1>2. IsFiniteSet(Holding \ {g}) /\ Cardinality(Holding \ {g}) = Cardinality(Holding) - 1
  BY <1>1, FS_RemoveElement
<1>3. n <= Cardinality(Holding) - 1
  BY <1>1, <1>2, FS_Subset
<1>4. n + 1 <= Width /\ n + 1 \in Nat /\ Width \in Nat
  BY <1>1, <1>3, WidthType DEF CapInv
<1>5. n * MaxCost + MaxCost <= Width * MaxCost
  <2> HIDE DEF n
  <2>1. (n + 1) * MaxCost <= Width * MaxCost
    BY <1>4, FewerTimes, WidthType
  <2>2. (n + 1) * MaxCost = n * MaxCost + MaxCost
    BY <1>1, OneMoreTimes, WidthType
  <2> QED BY <2>1, <2>2
<1>6. spend' \in Nat /\ spend' <= spend + MaxCost /\ spend \in Nat
  BY RecordCostType DEF TypeOK
<1>7. n * MaxCost \in Nat /\ Width * MaxCost \in Nat /\ MaxCost \in Nat
  BY <1>1, WidthType
<1>8. Budget # NoBudget => Budget \in Nat /\ spend < Budget
  BY <1>6, EngineAssumption DEF OverBudget
<1>9. Budget # NoBudget => spend' + n * MaxCost < Budget + Width * MaxCost
  <2> HIDE DEF n
  <2> QED BY <1>5, <1>6, <1>7, <1>8
<1> QED BY <1>9 DEF CapInv

\* A call: it is made below the cap, and there are at most Width of them.
LEMMA CapCall ==
  ASSUME TypeOK, CapInv, ~OverBudget, spend' = spend, Holding' = Holding,
         InFlight' \subseteq Holding, \A h \in Groups : place'[h] # "agent"
  PROVE  CapInv'
<1> DEFINE n == Cardinality(InFlight')
<1>1. IsFiniteSet(Holding) /\ Cardinality(Holding) \in Nat
  BY TaskSets
<1>2. n <= Cardinality(Holding) /\ n \in Nat
  BY <1>1, FS_Subset, FS_CardinalityType
<1>3. n <= Width /\ Width \in Nat
  BY <1>1, <1>2, WidthType DEF CapInv
<1>4. n * MaxCost <= Width * MaxCost
  BY <1>2, <1>3, FewerTimes, WidthType
<1>5. n * MaxCost \in Nat /\ Width * MaxCost \in Nat /\ spend \in Nat
  BY <1>2, WidthType DEF TypeOK
<1>6. Budget # NoBudget => Budget \in Nat /\ spend < Budget
  BY <1>5, EngineAssumption DEF OverBudget
<1>7. Budget # NoBudget => spend' + n * MaxCost < Budget + Width * MaxCost
  <2> HIDE DEF n
  <2> QED BY <1>4, <1>5, <1>6
<1> QED BY <1>7 DEF CapInv

\* A conversation takes the semaphore only when there is a place left.
LEMMA CapStart ==
  ASSUME TypeOK, CapInv, NEW g \in Groups, Start(g)
  PROVE  CapInv'
<1>1. /\ InFlight' = InFlight \ {g} /\ Holding' = Holding \cup {g}
      /\ g \notin InFlight /\ Cardinality(Holding) < Width
      /\ \A h \in Groups : place'[h] # "agent"
      /\ spend' = spend
  BY MoveSets DEF Start, InFlight, CapInv, TypeOK
<1>2. InFlight' = InFlight
  BY <1>1
<1>3. /\ IsFiniteSet(Holding) /\ Cardinality(Holding) \in Nat
      /\ Width \in Nat
  BY TaskSets, WidthType
<1>4. \/ Cardinality(Holding \cup {g}) = Cardinality(Holding) + 1
      \/ Cardinality(Holding \cup {g}) = Cardinality(Holding)
  BY <1>3, FS_AddElement
<1>5. Cardinality(Holding') <= Width
  BY <1>1, <1>3, <1>4
<1> QED BY <1>1, <1>2, <1>5 DEF CapInv

LEMMA CapTask ==
  ASSUME ~ToolAssisted, TypeOK, CapInv, NEW g \in Groups, Task(g)
  PROVE  CapInv'
<1> USE DEF At
<1>0. place \in [Groups -> {"queued", "turn", "calling", "waiting", "agent", "done",
                            "raised"}] /\ \A h \in Groups : place[h] # "agent"
  BY DEF TypeOK, CapInv
<1>1. CASE Start(g) BY <1>1, CapStart
<1>2. CASE PrepareRaises(g)
  <2>1. place' = [place EXCEPT ![g] = "raised"] /\ spend' = spend
    BY <1>2 DEF PrepareRaises, Raise
  <2>2. InFlight' = InFlight \ {g} /\ Holding' = Holding \ {g}
    BY <2>1, MoveSets
  <2>3. \A h \in Groups : place'[h] # "agent"
    BY <2>1, <1>0
  <2> QED BY <2>1, <2>2, <2>3, CapIdle
<1>3. CASE RefuseOverBudget(g)
  <2>1. place' = [place EXCEPT ![g] = "turn"] /\ spend' = spend /\ place[g] = "turn"
    BY <1>3 DEF RefuseOverBudget, Complete, AskModel
  <2>2. g \in Holding
    BY <2>1 DEF Holding
  <2>3. InFlight' = InFlight \ {g} /\ Holding' = Holding \cup {g}
    BY <2>1, MoveSets
  <2> QED BY <2>1, <2>2, <2>3, <1>0, CapIdle
<1>4. CASE CacheHit(g)
  <2>1. PICK resp \in Responses :
          /\ RecordCost(resp) /\ ~OverBudget
          /\ place' = [place EXCEPT ![g] = "turn"] /\ place[g] = "turn"
    BY <1>4 DEF CacheHit, Cached, Complete, AskModel, TypeOK, Entries
  <2>2. g \in Holding \ InFlight
    BY <2>1 DEF Holding, InFlight
  <2>3. InFlight' = InFlight \ {g} /\ Holding' = Holding \cup {g}
    BY <2>1, MoveSets
  <2>4. InFlight' = InFlight /\ Holding' = Holding
    BY <2>2, <2>3
  <2> QED BY <2>1, <2>2, <2>4, <1>0, CapHit
<1>5. CASE Call(g)
  <2>1. /\ place' = [place EXCEPT ![g] = "calling"] /\ spend' = spend
        /\ ~OverBudget /\ place[g] = "turn"
    BY <1>5 DEF Call, AskModel
  <2>2. g \in Holding
    BY <2>1 DEF Holding
  <2>3. InFlight' = InFlight \cup {g} /\ Holding' = Holding \cup {g}
    BY <2>1, MoveSets
  <2>4. InFlight' \subseteq Holding /\ Holding' = Holding
    BY <2>2, <2>3, TaskSets
  <2> QED BY <2>1, <2>4, <1>0, CapCall
<1>6. CASE Succeed(g)
  <2>1. PICK resp \in Responses :
          /\ RecordCost(resp)
          /\ place' = [place EXCEPT ![g] = "turn"] /\ place[g] = "calling"
    BY <1>6 DEF Succeed, Complete
  <2>2. g \in InFlight /\ g \in Holding
    BY <2>1 DEF InFlight, Holding
  <2>a. InFlight' = InFlight \ {g} /\ Holding' = Holding \cup {g}
    BY <2>1, MoveSets
  <2>3. InFlight' = InFlight \ {g} /\ Holding' \subseteq Holding
    BY <2>2, <2>a
  <2> QED BY <2>1, <2>2, <2>3, <1>0, CapArrives
<1>7. CASE PutFails(g)
  <2>1. PICK resp \in Responses :
          /\ RecordCost(resp)
          /\ place' = [place EXCEPT ![g] = "raised"] /\ place[g] = "calling"
    BY <1>7 DEF PutFails, Raise
  <2>2. g \in InFlight
    BY <2>1 DEF InFlight
  <2>a. InFlight' = InFlight \ {g} /\ Holding' = Holding \ {g}
    BY <2>1, MoveSets
  <2>3. InFlight' = InFlight \ {g} /\ Holding' \subseteq Holding
    BY <2>a
  <2> QED BY <2>1, <2>2, <2>3, <1>0, CapArrives
<1>8. CASE BackOff(g)
  <2>1. place' = [place EXCEPT ![g] = "waiting"] /\ spend' = spend /\ place[g] = "calling"
    BY <1>8 DEF BackOff
  <2>2. g \in InFlight /\ g \in Holding
    BY <2>1 DEF InFlight, Holding
  <2>3. InFlight' = InFlight \cup {g} /\ Holding' = Holding \cup {g}
    BY <2>1, MoveSets
  <2> QED BY <2>1, <2>2, <2>3, <1>0, CapIdle
<1>9. CASE Retry(g)
  <2>1. place' = [place EXCEPT ![g] = "calling"] /\ spend' = spend /\ place[g] = "waiting"
    BY <1>9 DEF Retry
  <2>2. g \in InFlight /\ g \in Holding
    BY <2>1 DEF InFlight, Holding
  <2>3. InFlight' = InFlight \cup {g} /\ Holding' = Holding \cup {g}
    BY <2>1, MoveSets
  <2> QED BY <2>1, <2>2, <2>3, <1>0, CapIdle
<1>10. CASE GiveUp(g)
  <2>1. place' = [place EXCEPT ![g] = "turn"] /\ spend' = spend /\ place[g] = "calling"
    BY <1>10 DEF GiveUp, Complete
  <2>2. g \in Holding
    BY <2>1 DEF Holding
  <2>3. InFlight' = InFlight \ {g} /\ Holding' = Holding \cup {g}
    BY <2>1, MoveSets
  <2> QED BY <2>1, <2>2, <2>3, <1>0, CapIdle
<1>11. CASE AgentCall(g) BY <1>11 DEF AgentCall
<1>12. CASE AgentAnswers(g) BY <1>12, <1>0 DEF AgentAnswers
<1>13. CASE AgentFails(g) BY <1>13, <1>0 DEF AgentFails
<1>14. CASE Finish(g)
  <2>1. place' = [place EXCEPT ![g] = "done"] /\ spend' = spend
    BY <1>14 DEF Finish
  <2>2. InFlight' = InFlight \ {g} /\ Holding' = Holding \ {g}
    BY <2>1, MoveSets
  <2>3. \A h \in Groups : place'[h] # "agent"
    BY <2>1, <1>0
  <2> QED BY <2>1, <2>2, <2>3, CapIdle
<1> QED BY <1>1, <1>2, <1>3, <1>4, <1>5, <1>6, <1>7, <1>8, <1>9, <1>10, <1>11,
           <1>12, <1>13, <1>14 DEF Task

LEMMA CapNext ==
  ASSUME ~ToolAssisted, TypeOK, CapInv, [Next]_vars
  PROVE  CapInv'
<1>1. ASSUME NEW g \in Groups, Task(g) PROVE CapInv'
  BY <1>1, CapTask
<1>2. CASE Restart
  <2>1. place' = [g \in Groups |-> "queued"] /\ spend' = 0
    BY <1>2 DEF Restart
  <2>2. Holding' = {} /\ InFlight' = {} /\ \A g \in Groups : place'[g] # "agent"
    BY <2>1 DEF Holding, InFlight
  <2>3. Cardinality(Holding') = 0 /\ Cardinality(InFlight') = 0
    BY <2>2, FS_EmptySet
  <2>4. 0 * MaxCost = 0 /\ 1 * MaxCost = MaxCost /\ 1 * MaxCost <= Width * MaxCost
    BY WidthType, FewerTimes
  <2>5. Width * MaxCost \in Nat
    BY WidthType
  <2>6. Budget # NoBudget => Budget \in Nat
    BY EngineAssumption
  <2> QED BY <2>1, <2>2, <2>3, <2>4, <2>5, <2>6, WidthType DEF CapInv
<1>3. CASE Begin \/ Return \/ Kill \/ UNCHANGED vars
  BY <1>3 DEF Begin, Return, Kill, vars, volatile, CapInv, Holding, InFlight
<1> QED BY <1>1, <1>2, <1>3 DEF Next, Over

\* Unless the run is tool_assisted, whose agent path does not look at the cap, the spend
\* of a run stays below the cap plus one response for each conversation that may run.
THEOREM Overshoot ==
  ASSUME ~ToolAssisted
  PROVE  Spec => []OvershootBounded
<1>1. Init => CapInv
  <2> SUFFICES ASSUME Init PROVE CapInv
    OBVIOUS
  <2>1. Holding = {} /\ InFlight = {} /\ \A g \in Groups : place[g] # "agent"
    BY DEF Init, Fresh, Holding, InFlight
  <2> QED BY <2>1, CapFresh DEF Init, Fresh
<1>2. TypeOK /\ CapInv /\ [Next]_vars => CapInv'
  BY CapNext
<1>3. TypeOK /\ CapInv => OvershootBounded
  <2> SUFFICES ASSUME TypeOK, CapInv, Budget # NoBudget
               PROVE  spend < Budget + Width * MaxCost
    BY DEF OvershootBounded
  <2>1. /\ spend \in Nat /\ Cardinality(InFlight) * MaxCost \in Nat
        /\ Width * MaxCost \in Nat /\ Budget \in Nat
    BY WidthType, TaskSets, EngineAssumption DEF TypeOK
  <2> QED BY <2>1 DEF CapInv
<1> QED BY <1>1, <1>2, <1>3, TypeCorrect, PTL DEF Spec

-----------------------------------------------------------------------------
(* Conversations partition the samples. *)

LEMMA LeastOfNaturals ==
  ASSUME NEW T, T \subseteq Nat, T # {}
  PROVE  \E m \in T : \A k \in T : m <= k
<1> DEFINE R == OpToRel(<, Nat)
<1>1. IsWellFoundedOn(R, Nat)
  BY NatLessThanWellFounded
<1>2. \E m \in T : \A k \in T : <<k, m>> \notin R
  <2> HIDE DEF R
  <2> QED BY <1>1, WFMin
<1>3. \A k, m \in Nat : k < m => <<k, m>> \in R
  BY DEF OpToRel
<1> HIDE DEF R
<1>4. PICK m \in T : \A k \in T : <<k, m>> \notin R
  BY <1>2
<1>5. ASSUME NEW k \in T PROVE m <= k
  <2>1. k \in Nat /\ m \in Nat
    OBVIOUS
  <2>2. ~(k < m)
    BY <1>3, <1>4, <2>1
  <2> QED BY <2>1, <2>2
<1> QED BY <1>5

\* Every sample is in the conversation of some group, so none is left without a task.
LEMMA EverySampleHasATask ==
  ASSUME NEW i \in Samples
  PROVE  \E g \in Groups : i \in Members(g)
<1>1. Members(i) \subseteq Nat /\ i \in Members(i)
  BY EngineAssumption DEF Members, Samples, Input, SameConversation
<1>2. PICK g \in Members(i) : \A k \in Members(i) : g <= k
  BY <1>1, LeastOfNaturals
<1>3. g \in Samples /\ SameConversation(i, g)
  BY DEF Members
<1>4. \A k \in Members(g) : k \in Members(i)
  BY <1>3 DEF Members, SameConversation
<1>5. g \in Groups /\ i \in Members(g)
  BY <1>2, <1>3, <1>4 DEF Groups, Members, SameConversation
<1> QED BY <1>5

\* No sample is in two of them, so none is run twice.
LEMMA NoSampleHasTwoTasks ==
  ASSUME NEW g \in Groups, NEW h \in Groups, NEW i \in Members(g), i \in Members(h)
  PROVE  g = h
<1>1. g \in Samples /\ h \in Samples /\ g \in Nat /\ h \in Nat
  BY EngineAssumption DEF Groups, Samples, Input
<1>2. h \in Members(g) /\ g \in Members(h)
  BY <1>1 DEF Members, SameConversation
<1>3. g <= h /\ h <= g
  BY <1>2 DEF Groups
<1> QED BY <1>1, <1>3

\* An earlier turn is in the same conversation and comes before in its order.
LEMMA EarlierTurnIsBefore ==
  ASSUME NEW g \in Groups, NEW i \in Members(g), NEW j \in Samples, EarlierTurn(j, i)
  PROVE  j \in Members(g) /\ Before(j, i)
BY DEF EarlierTurn, Members, SameConversation, Before

-----------------------------------------------------------------------------
(* Answers are the provider's. *)

\* A delivery is remembered, and so are the ones before it.
LEMMA DeliverRemembers ==
  ASSUME NEW r, NEW resp, NEW stored, Deliver(r, resp, stored)
  PROVE  /\ delivered \subseteq delivered'
         /\ \E d \in delivered' : d.request = r /\ d.response = resp
<1> DEFINE new == [request |-> r, response |-> resp, session |-> session,
                   stored |-> stored]
<1>1. new \in delivered' /\ delivered \subseteq delivered'
  BY DEF Deliver
<1>2. new.request = r /\ new.response = resp
  OBVIOUS
<1> QED BY <1>1, <1>2

\* Settling a sample with an answer that was delivered for its request.
LEMMA GenuineComplete ==
  ASSUME TypeOK, AnswersAreGenuine, NEW g \in Groups, NEW i \in Members(g),
         NEW p, Complete(g, i, p), delivered \subseteq delivered',
         \A e \in cache' : \E d \in delivered' :
           d.request = e.request /\ d.response = e.response,
         p.request = Request(g, i),
         p.response # NoResponse =>
           \E d \in delivered' : d.request = p.request /\ d.response = p.response
  PROVE  AnswersAreGenuine'
<1>1. pred' = [pred EXCEPT ![i] = p] /\ i \in Samples
  BY DEF Complete, Members
<1>2. p.request.sample = i
  BY RequestType
<1>3. ASSUME NEW k \in Samples, pred'[k] # NoPrediction, pred'[k].response # NoResponse
      PROVE  /\ pred'[k].request.sample = k
             /\ \E d \in delivered' :
                  d.request = pred'[k].request /\ d.response = pred'[k].response
  <2>1. CASE k = i
    BY <1>1, <1>2, <1>3, <2>1 DEF TypeOK
  <2>2. CASE k # i
    <3>1. pred'[k] = pred[k]
      BY <1>1, <2>2 DEF TypeOK
    <3> QED BY <1>3, <3>1 DEF AnswersAreGenuine
  <2> QED BY <2>1, <2>2
<1> QED BY <1>3 DEF AnswersAreGenuine

LEMMA GenuineTask ==
  ASSUME TypeOK, AnswersAreGenuine, NEW g \in Groups, Task(g)
  PROVE  AnswersAreGenuine'
<1>1. CASE RefuseOverBudget(g)
  <2>1. PICK i \in Members(g) :
          /\ Complete(g, i, [kind |-> "refused", request |-> Request(g, i),
                             response |-> NoResponse, attempts |-> 0])
          /\ UNCHANGED <<cache, delivered>>
    BY <1>1 DEF RefuseOverBudget
  <2> QED BY <2>1, GenuineComplete DEF AnswersAreGenuine
<1>2. CASE CacheHit(g)
  <2>1. PICK i \in Members(g), e \in cache :
          /\ e.request = Request(g, i)
          /\ Complete(g, i, [kind |-> "hit", request |-> Request(g, i),
                             response |-> e.response, attempts |-> 0])
          /\ UNCHANGED <<cache, delivered>>
    BY <1>2 DEF CacheHit, Cached
  <2> QED BY <2>1, GenuineComplete DEF AnswersAreGenuine
<1>3. CASE Succeed(g)
  <2>1. PICK i \in Members(g), resp \in Responses :
          /\ Deliver(Request(g, i), resp, WritesCache)
          /\ IF WritesCache THEN Store(Request(g, i), resp) ELSE UNCHANGED cache
          /\ Complete(g, i, [kind |-> "answered", request |-> Request(g, i),
                             response |-> resp, attempts |-> attempts[g]])
    BY <1>3 DEF Succeed
  <2>2. \E d \in delivered' : d.request = Request(g, i) /\ d.response = resp
    BY <2>1, DeliverRemembers
  <2>3. delivered \subseteq delivered'
    BY <2>1, DeliverRemembers
  <2>4. \A e \in cache' :
          e \in cache \/ (e.request = Request(g, i) /\ e.response = resp)
    BY <2>1 DEF Store
  <2>5. \A e \in cache' : \E d \in delivered' :
          d.request = e.request /\ d.response = e.response
    BY <2>2, <2>3, <2>4 DEF AnswersAreGenuine
  <2> QED BY <2>1, <2>2, <2>3, <2>5, GenuineComplete
<1>4. CASE PutFails(g)
  <2>1. delivered \subseteq delivered' /\ UNCHANGED <<cache, pred>>
    BY <1>4 DEF PutFails, Deliver, Raise
  <2> QED BY <2>1 DEF AnswersAreGenuine
<1>5. CASE GiveUp(g)
  <2>1. PICK i \in Members(g) :
          /\ Complete(g, i, [kind |-> "error", request |-> Request(g, i),
                             response |-> NoResponse, attempts |-> attempts[g]])
          /\ UNCHANGED <<cache, delivered>>
    BY <1>5 DEF GiveUp
  <2> QED BY <2>1, GenuineComplete DEF AnswersAreGenuine
<1>6. CASE AgentAnswers(g)
  <2>1. PICK i \in Members(g), resp \in Responses, turns \in 0..MaxToolTurns :
          /\ Deliver(Request(g, i), resp, FALSE)
          /\ Complete(g, i, [kind |-> "agent", request |-> Request(g, i),
                             response |-> resp, attempts |-> turns + 1])
          /\ UNCHANGED cache
    BY <1>6 DEF AgentAnswers
  <2>2. /\ \E d \in delivered' : d.request = Request(g, i) /\ d.response = resp
        /\ delivered \subseteq delivered'
    BY <2>1, DeliverRemembers
  <2>3. \A e \in cache' : \E d \in delivered' :
          d.request = e.request /\ d.response = e.response
    BY <2>1, <2>2 DEF AnswersAreGenuine
  <2> QED BY <2>1, <2>2, <2>3, GenuineComplete
<1>7. CASE AgentFails(g)
  <2>1. PICK i \in Members(g) :
          /\ Complete(g, i, [kind |-> "error", request |-> Request(g, i),
                             response |-> NoResponse, attempts |-> 1])
          /\ UNCHANGED <<cache, delivered>>
    BY <1>7 DEF AgentFails
  <2> QED BY <2>1, GenuineComplete DEF AnswersAreGenuine
<1>8. CASE \/ Start(g) \/ PrepareRaises(g) \/ Call(g) \/ BackOff(g) \/ Retry(g)
           \/ AgentCall(g) \/ Finish(g)
  <2>1. UNCHANGED <<pred, cache, delivered>>
    BY <1>8 DEF Start, PrepareRaises, Raise, Call, BackOff, Retry, AgentCall, Finish
  <2> QED BY <2>1 DEF AnswersAreGenuine
<1> QED BY <1>1, <1>2, <1>3, <1>4, <1>5, <1>6, <1>7, <1>8 DEF Task

\* Whatever a prediction or a cache entry answers, a provider answered to exactly that
\* request; a failed call is never cached.
THEOREM Genuine == Spec => []AnswersAreGenuine
<1>1. Init => AnswersAreGenuine
  BY DEF Init, Fresh, AnswersAreGenuine
<1>2. TypeOK /\ AnswersAreGenuine /\ [Next]_vars => AnswersAreGenuine'
  <2> SUFFICES ASSUME TypeOK, AnswersAreGenuine, [Next]_vars PROVE AnswersAreGenuine'
    OBVIOUS
  <2>1. ASSUME NEW g \in Groups, Task(g) PROVE AnswersAreGenuine'
    BY <2>1, GenuineTask
  <2>2. CASE Restart
    BY <2>2 DEF Restart, AnswersAreGenuine
  <2>3. CASE Begin \/ Return \/ Kill \/ UNCHANGED vars
    BY <2>3 DEF Begin, Return, Kill, vars, volatile, AnswersAreGenuine
  <2> QED BY <2>1, <2>2, <2>3 DEF Next, Over
<1> QED BY <1>1, <1>2, TypeCorrect, PTL DEF Spec

-----------------------------------------------------------------------------
(* A resumed run never pays for what is on disk. *)

\* A call in flight is for a request that is not in the cache, if the cache is read at
\* all: nobody else asks for that sample, so nobody else can have saved it meanwhile.
\* The agent path has no part in this: it and the cache exclude each other.
UnsavedInv ==
  /\ ToolAssisted => cache = {} /\ InFlight = {}
  /\ ~ToolAssisted => \A g \in Groups : place[g] # "agent"
  /\ mode \in {"read_write", "read_only"} =>
       \A g \in InFlight : \A i \in Members(g) :
         Current(g, i) => \A e \in cache : e.request # Request(g, i)

\* What the task g does about a sample of its own concerns no other task.
LEMMA TaskIsLocal ==
  ASSUME TypeOK, NEW g \in Groups, Task(g), NEW h \in Groups, h # g,
         NEW i \in Members(h)
  PROVE  /\ place'[h] = place[h]
         /\ Current(h, i)' => Current(h, i)
         /\ Request(h, i)' = Request(h, i)
         /\ \A e \in cache' : e \in cache \/ e.request.sample # i
<1> USE DEF TypeOK
<1>1. place'[h] = place[h]
  BY OthersStay
<1>2. ASSUME NEW j \in Members(g), NEW p, Complete(g, j, p)
      PROVE  (Current(h, i)' => Current(h, i)) /\ Request(h, i)' = Request(h, i)
  <2>1. /\ \A k \in Members(h) : pred'[k] = pred[k]
        /\ spoken'[h] = spoken[h]
    BY <1>2, NoSampleHasTwoTasks DEF Complete, Members
  <2> QED BY <2>1 DEF Current, Request, Members
<1>3. ASSUME UNCHANGED <<pred, spoken>>
      PROVE  (Current(h, i)' => Current(h, i)) /\ Request(h, i)' = Request(h, i)
  BY <1>3 DEF Current, Request
<1>4. (Current(h, i)' => Current(h, i)) /\ Request(h, i)' = Request(h, i)
  <2>1. CASE \/ Start(g) \/ PrepareRaises(g) \/ Call(g) \/ BackOff(g) \/ Retry(g)
             \/ AgentCall(g) \/ Finish(g) \/ PutFails(g)
    BY <1>3, <2>1 DEF Start, PrepareRaises, Raise, Call, BackOff, Retry, AgentCall,
                      Finish, PutFails
  <2>2. CASE \/ RefuseOverBudget(g) \/ CacheHit(g) \/ Succeed(g) \/ GiveUp(g)
             \/ AgentAnswers(g) \/ AgentFails(g)
    BY <1>2, <2>2 DEF RefuseOverBudget, CacheHit, Succeed, GiveUp, AgentAnswers,
                      AgentFails
  <2> QED BY <2>1, <2>2 DEF Task
<1>5. \A e \in cache' : e \in cache \/ e.request.sample # i
  <2>1. CASE Succeed(g)
    <3>1. PICK j \in Members(g), resp \in Responses :
            IF WritesCache THEN Store(Request(g, j), resp) ELSE UNCHANGED cache
      BY <2>1 DEF Succeed
    <3>2. Request(g, j).sample = j /\ j # i
      BY RequestType, NoSampleHasTwoTasks
    <3>3. \A e \in cache' : e \in cache \/ e.request = Request(g, j)
      BY <3>1 DEF Store
    <3> QED BY <3>2, <3>3
  <2>2. CASE ~Succeed(g)
    <3>1. UNCHANGED cache
      BY <2>2 DEF Task, Start, PrepareRaises, RefuseOverBudget, CacheHit, Call,
                  PutFails, BackOff, Retry, GiveUp, AgentCall, AgentAnswers,
                  AgentFails, Finish
    <3> QED BY <3>1
  <2> QED BY <2>1, <2>2
<1> QED BY <1>1, <1>4, <1>5

\* Only AgentCall enters the agent path, only Call and Retry the other.
LEMMA PathsApart ==
  ASSUME TypeOK, UnsavedInv, NEW g \in Groups, Task(g)
  PROVE  /\ ToolAssisted => cache' = {} /\ InFlight' = {}
         /\ ~ToolAssisted => \A h \in Groups : place'[h] # "agent"
<1> USE DEF TypeOK, At
<1>0. /\ ToolAssisted => cache = {} /\ \A h \in Groups : place[h] \notin {"calling", "waiting"}
      /\ ~ToolAssisted => \A h \in Groups : place[h] # "agent"
  BY DEF UnsavedInv, InFlight
<1>1. /\ ToolAssisted => cache' = {} /\ place'[g] \notin {"calling", "waiting"}
      /\ ~ToolAssisted => place'[g] # "agent"
  <2>1. CASE Start(g) BY <1>0, <2>1 DEF Start
  <2>2. CASE PrepareRaises(g) BY <1>0, <2>2 DEF PrepareRaises, Raise
  <2>3. CASE RefuseOverBudget(g) BY <1>0, <2>3 DEF RefuseOverBudget, Complete
  <2>4. CASE CacheHit(g) BY <1>0, <2>4 DEF CacheHit, Complete
  <2>5. CASE Call(g) BY <1>0, <2>5 DEF Call, AskModel
  <2>6. CASE Succeed(g) BY <1>0, <2>6 DEF Succeed, Complete
  <2>7. CASE PutFails(g) BY <1>0, <2>7 DEF PutFails, Raise
  <2>8. CASE BackOff(g) BY <1>0, <2>8 DEF BackOff
  <2>9. CASE Retry(g) BY <1>0, <2>9 DEF Retry
  <2>10. CASE GiveUp(g) BY <1>0, <2>10 DEF GiveUp, Complete
  <2>11. CASE AgentCall(g) BY <1>0, <2>11 DEF AgentCall
  <2>12. CASE AgentAnswers(g) BY <1>0, <2>12 DEF AgentAnswers, Complete
  <2>13. CASE AgentFails(g) BY <1>0, <2>13 DEF AgentFails, Complete
  <2>14. CASE Finish(g) BY <1>0, <2>14 DEF Finish
  <2> QED BY <2>1, <2>2, <2>3, <2>4, <2>5, <2>6, <2>7, <2>8, <2>9, <2>10, <2>11,
             <2>12, <2>13, <2>14 DEF Task
<1>2. \A h \in Groups : h # g => place'[h] = place[h]
  BY OthersStay
<1> QED BY <1>0, <1>1, <1>2 DEF InFlight

\* The task's own request in flight: it was looked for when the call was made.
LEMMA OwnCallUnsaved ==
  ASSUME TypeOK, UnsavedInv, NEW g \in Groups, Task(g), g \in InFlight',
         mode \in {"read_write", "read_only"}
  PROVE  /\ UNCHANGED <<pred, spoken, cache>>
         /\ \A i \in Members(g) :
              Current(g, i) => \A e \in cache : e.request # Request(g, i)
<1> USE DEF TypeOK
<1>0. place'[g] \in {"calling", "waiting"}
  BY DEF InFlight
<1>1. Call(g) \/ BackOff(g) \/ Retry(g)
  BY <1>0 DEF Task, Start, PrepareRaises, Raise, RefuseOverBudget, CacheHit, Succeed,
              PutFails, GiveUp, AgentCall, AgentAnswers, AgentFails, Finish, Complete
<1>2. UNCHANGED <<pred, spoken, cache>>
  BY <1>1 DEF Call, BackOff, Retry
<1>3. CASE Call(g)
  <2>1. PICK j \in Members(g) : Current(g, j) /\ Cached(Request(g, j)) = {}
    BY <1>3 DEF Call, AskModel, At, ReadsCache
  <2>2. \A i \in Members(g) : Current(g, i) => i = j
    <3> SUFFICES ASSUME NEW i \in Members(g), Current(g, i), i # j PROVE FALSE
      OBVIOUS
    <3>1. i \in Nat /\ j \in Nat /\ TurnIndex[i] \in Nat /\ TurnIndex[j] \in Nat
      BY EngineAssumption DEF Members, Samples, Input
    <3>2. Before(i, j) \/ Before(j, i)
      BY <3>1 DEF Before
    <3> QED BY <2>1, <3>2 DEF Current
  <2> QED BY <1>2, <2>1, <2>2 DEF Cached
<1>4. CASE BackOff(g) \/ Retry(g)
  <2>1. g \in InFlight
    BY <1>4 DEF BackOff, Retry, InFlight
  <2> QED BY <1>2, <2>1 DEF UnsavedInv
<1> QED BY <1>1, <1>2, <1>3, <1>4

LEMMA UnsavedTask ==
  ASSUME TypeOK, UnsavedInv, NEW g \in Groups, Task(g)
  PROVE  UnsavedInv'
<1>1. mode' = mode
  BY DEF Task, Start, PrepareRaises, RefuseOverBudget, CacheHit, Call, Succeed, PutFails,
         BackOff, Retry, GiveUp, AgentCall, AgentAnswers, AgentFails, Finish
<1>2. ASSUME mode \in {"read_write", "read_only"}, NEW h \in InFlight',
             NEW i \in Members(h), Current(h, i)', NEW e \in cache'
      PROVE  e.request # Request(h, i)'
  <2>0. h \in Groups
    BY DEF InFlight
  <2>1. CASE h = g
    <3>1. /\ UNCHANGED <<pred, spoken, cache>>
          /\ Current(g, i) => \A f \in cache : f.request # Request(g, i)
      BY <1>2, <2>0, <2>1, OwnCallUnsaved
    <3> QED BY <1>2, <2>1, <3>1 DEF Current, Request
  <2>2. CASE h # g
    <3>1. /\ place'[h] = place[h]
          /\ Current(h, i)
          /\ Request(h, i)' = Request(h, i)
          /\ e \in cache \/ e.request.sample # i
      BY <1>2, <2>0, <2>2, TaskIsLocal
    <3>2. h \in InFlight
      BY <2>0, <3>1 DEF InFlight
    <3>3. e \in cache => e.request # Request(h, i)
      BY <1>2, <3>1, <3>2 DEF UnsavedInv
    <3>4. Request(h, i).sample = i
      BY <2>0, RequestType
    <3> QED BY <3>1, <3>3, <3>4
  <2> QED BY <2>1, <2>2
<1> QED BY <1>1, <1>2, PathsApart DEF UnsavedInv

\* A process that reads the cache never pays for an answer that is already on disk:
\* over any sequence of sessions, kills, failed writes and cache modes.
THEOREM NoAnswerIsPaidTwice == Spec => NeverPaidTwice
<1>1. Init => UnsavedInv
  BY DEF Init, Fresh, UnsavedInv, InFlight
<1>2. TypeOK /\ UnsavedInv /\ [Next]_vars => UnsavedInv'
  <2> SUFFICES ASSUME TypeOK, UnsavedInv, [Next]_vars PROVE UnsavedInv'
    OBVIOUS
  <2>1. ASSUME NEW g \in Groups, Task(g) PROVE UnsavedInv'
    BY <2>1, UnsavedTask
  <2>2. CASE Restart
    <3>1. place' = [g \in Groups |-> "queued"] /\ cache' = cache
      BY <2>2 DEF Restart
    <3>2. InFlight' = {}
      BY <3>1 DEF InFlight
    <3> QED BY <3>1, <3>2 DEF UnsavedInv
  <2>3. CASE Begin \/ Return \/ Kill \/ UNCHANGED vars
    <3>1. UNCHANGED <<mode, place, pred, spoken, cache>>
      BY <2>3 DEF Begin, Return, Kill, vars, volatile
    <3> QED BY <3>1 DEF UnsavedInv, InFlight, Current, Request
  <2> QED BY <2>1, <2>2, <2>3 DEF Next, Over
<1>3. TypeOK /\ UnsavedInv /\ [Next]_vars => [PaysForTheUnsaved]_vars
  <2> SUFFICES ASSUME TypeOK, UnsavedInv, [Next]_vars,
                      mode \in {"read_write", "read_only"},
                      NEW d \in delivered' \ delivered, NEW e \in cache
               PROVE  e.request # d.request
    BY DEF PaysForTheUnsaved
  <2>1. PICK g \in Groups : Succeed(g) \/ PutFails(g) \/ AgentAnswers(g)
    BY DEF Next, Over, Task, Begin, Return, Kill, Restart, vars, Start, PrepareRaises,
           RefuseOverBudget, CacheHit, Call, BackOff, Retry, GiveUp, AgentCall,
           AgentFails, Finish
  <2>2. CASE AgentAnswers(g)
    <3>1. place[g] = "agent"
      BY <2>2 DEF AgentAnswers, At
    <3> QED BY <3>1 DEF UnsavedInv
  <2>3. CASE Succeed(g) \/ PutFails(g)
    <3>1. PICK i \in Members(g), resp \in Responses, stored \in BOOLEAN :
            At(g, i, "calling") /\ Deliver(Request(g, i), resp, stored)
      <4>1. WritesCache \in BOOLEAN
        BY DEF WritesCache
      <4>2. CASE Succeed(g)
        BY <4>1, <4>2 DEF Succeed
      <4>3. CASE PutFails(g)
        BY <4>3 DEF PutFails
      <4> QED BY <2>3, <4>2, <4>3
    <3>2. d.request = Request(g, i)
      BY <3>1 DEF Deliver
    <3>3. g \in InFlight /\ Current(g, i)
      BY <3>1 DEF At, InFlight
    <3> QED BY <3>2, <3>3 DEF UnsavedInv
  <2> QED BY <2>1, <2>2, <2>3
<1> QED BY <1>1, <1>2, <1>3, TypeCorrect, PTL DEF Spec, NeverPaidTwice

-----------------------------------------------------------------------------
(* A turn is shown what this model said before it. *)

\* No two turns of a conversation have one index.
TurnsAreDistinct ==
  \A i, j \in Samples : SameConversation(i, j) /\ TurnIndex[i] = TurnIndex[j] => i = j

Settled(g) == {i \in Members(g) : pred[i] # NoPrediction}

\* What a conversation has heard is what was said at its settled turns, each at the
\* place its turn has; and a turn is settled after those before it.
HeardInv ==
  Chaining => \A g \in Groups :
    /\ Len(spoken[g]) = Cardinality(Settled(g))
    /\ \A i \in Settled(g) :
         /\ EarlierTurns(i) \subseteq Settled(g)
         /\ spoken[g][Cardinality(EarlierTurns(i)) + 1] = Said(pred[i])

LEMMA SetsOfSamples ==
  ASSUME NEW S \in SUBSET Samples
  PROVE  IsFiniteSet(S) /\ Cardinality(S) \in Nat
<1>1. IsFiniteSet(Input)
  BY EngineAssumption, FS_Interval DEF Input
<1>2. S \subseteq Input
  BY DEF Samples
<1> QED BY <1>1, <1>2, FS_Subset, FS_CardinalityType

\* A settled turn has fewer turns before it than its conversation has settled.
LEMMA PlaceOfTurn ==
  ASSUME NEW g \in Groups, NEW i \in Settled(g), EarlierTurns(i) \subseteq Settled(g)
  PROVE  /\ Cardinality(EarlierTurns(i)) \in Nat
         /\ Cardinality(EarlierTurns(i)) < Cardinality(Settled(g))
<1>1. Settled(g) \in SUBSET Samples /\ EarlierTurns(i) \in SUBSET Samples
  BY DEF Settled, Members, EarlierTurns
<1>2. i \in Samples /\ TurnIndex[i] \in Nat
  BY <1>1, EngineAssumption DEF Samples
<1>3. i \notin EarlierTurns(i)
  BY <1>2 DEF EarlierTurns
<1>4. /\ Cardinality(EarlierTurns(i)) \in Nat /\ Cardinality(Settled(g)) \in Nat
      /\ IsFiniteSet(Settled(g))
  BY <1>1, SetsOfSamples
<1>5. Cardinality(EarlierTurns(i)) <= Cardinality(Settled(g))
  BY <1>4, FS_Subset
<1>6. Cardinality(EarlierTurns(i)) # Cardinality(Settled(g))
  BY <1>3, <1>4, FS_Subset
<1> QED BY <1>4, <1>5, <1>6

\* The turns before the one a task is at are those it has settled.
LEMMA EarlierAreSettled ==
  ASSUME TurnsAreDistinct, HeardInv, Chaining,
         NEW g \in Groups, NEW i \in Members(g), Current(g, i)
  PROVE  EarlierTurns(i) = Settled(g)
<1>1. ASSUME NEW j \in EarlierTurns(i) PROVE j \in Settled(g)
  <2>1. j \in Samples /\ EarlierTurn(j, i)
    BY DEF EarlierTurns, EarlierTurn, SameConversation
  <2>2. j \in Members(g) /\ Before(j, i)
    BY <2>1, EarlierTurnIsBefore
  <2> QED BY <2>2 DEF Current, Settled
<1>2. ASSUME NEW j \in Settled(g) PROVE j \in EarlierTurns(i)
  <2>1. i \in Samples /\ j \in Samples /\ SameConversation(i, j) /\ SameConversation(j, i)
    BY DEF Settled, Members, SameConversation
  <2>2. i # j /\ i \notin Settled(g)
    BY DEF Current, Settled
  <2>3. TurnIndex[i] \in Nat /\ TurnIndex[j] \in Nat /\ TurnIndex[i] # TurnIndex[j]
    BY <2>1, <2>2, EngineAssumption DEF Samples, TurnsAreDistinct
  <2>4. i \notin EarlierTurns(j)
    BY <2>2 DEF HeardInv
  <2> QED BY <2>1, <2>3, <2>4 DEF EarlierTurns
<1> QED BY <1>1, <1>2

\* Settling a turn: what was heard grows by what it said, at its place.
LEMMA HeardComplete ==
  ASSUME TypeOK, TurnsAreDistinct, HeardInv, Chaining,
         NEW g \in Groups, NEW i \in Members(g), Current(g, i),
         NEW p \in Predictions, Complete(g, i, p)
  PROVE  HeardInv'
<1> USE DEF TypeOK
<1>1. /\ i \in Samples /\ p # NoPrediction /\ i \notin Settled(g)
      /\ pred' = [pred EXCEPT ![i] = p]
      /\ spoken' = [spoken EXCEPT ![g] = Append(@, Said(p))]
  BY PredictionAssumption DEF Complete, Members, Current, Settled
<1>2. ASSUME NEW h \in Groups, h # g
      PROVE  /\ spoken'[h] = spoken[h] /\ Settled(h)' = Settled(h)
             /\ \A j \in Settled(h) : pred'[j] = pred[j]
  <2>1. i \notin Members(h)
    BY <1>2, NoSampleHasTwoTasks
  <2> QED BY <1>1, <1>2, <2>1 DEF Settled, Members
<1>3. /\ Settled(g)' = Settled(g) \cup {i}
      /\ \A j \in Settled(g) : pred'[j] = pred[j] /\ j # i
      /\ pred'[i] = p
  BY <1>1 DEF Settled, Members
<1>4. /\ EarlierTurns(i) = Settled(g)
      /\ Len(spoken[g]) = Cardinality(Settled(g))
      /\ \A j \in Settled(g) :
           /\ EarlierTurns(j) \subseteq Settled(g)
           /\ spoken[g][Cardinality(EarlierTurns(j)) + 1] = Said(pred[j])
  BY EarlierAreSettled DEF HeardInv
<1>5. Cardinality(Settled(g)') = Cardinality(Settled(g)) + 1 /\ Cardinality(Settled(g)) \in Nat
  <2>1. Settled(g) \in SUBSET Samples
    BY DEF Settled, Members
  <2>2. IsFiniteSet(Settled(g)) /\ Cardinality(Settled(g)) \in Nat
    BY <2>1, SetsOfSamples
  <2> QED BY <1>1, <1>3, <2>2, FS_AddElement
<1>6. /\ spoken[g] \in Seq(Texts) /\ Said(p) \in Texts
      /\ spoken'[g] = Append(spoken[g], Said(p))
  BY <1>1, SaidType DEF Predictions
<1>7. /\ Len(spoken'[g]) = Len(spoken[g]) + 1
      /\ spoken'[g][Len(spoken[g]) + 1] = Said(p)
      /\ \A k \in 1..Len(spoken[g]) : spoken'[g][k] = spoken[g][k]
  BY <1>6
<1>8. ASSUME NEW j \in Settled(g)'
      PROVE  /\ EarlierTurns(j) \subseteq Settled(g)'
             /\ spoken'[g][Cardinality(EarlierTurns(j)) + 1] = Said(pred'[j])
  <2>1. CASE j = i
    BY <1>3, <1>4, <1>7, <2>1
  <2>2. CASE j # i
    <3>1. j \in Settled(g) /\ EarlierTurns(j) \subseteq Settled(g)
      BY <1>3, <1>4, <1>8, <2>2
    <3>2. /\ Cardinality(EarlierTurns(j)) \in Nat
          /\ Cardinality(EarlierTurns(j)) < Cardinality(Settled(g))
      BY <3>1, PlaceOfTurn
    <3>3. Cardinality(EarlierTurns(j)) + 1 \in 1..Len(spoken[g])
      BY <1>4, <1>5, <3>2
    <3> QED BY <1>3, <1>4, <1>7, <3>1, <3>3
  <2> QED BY <2>1, <2>2
<1>9. /\ Len(spoken'[g]) = Cardinality(Settled(g)')
      /\ \A j \in Settled(g)' :
           /\ EarlierTurns(j) \subseteq Settled(g)'
           /\ spoken'[g][Cardinality(EarlierTurns(j)) + 1] = Said(pred'[j])
  BY <1>4, <1>5, <1>7, <1>8
<1>10. ASSUME NEW h \in Groups, h # g
       PROVE  /\ Len(spoken'[h]) = Cardinality(Settled(h)')
              /\ \A j \in Settled(h)' :
                   /\ EarlierTurns(j) \subseteq Settled(h)'
                   /\ spoken'[h][Cardinality(EarlierTurns(j)) + 1] = Said(pred'[j])
  BY <1>2, <1>10 DEF HeardInv
<1> QED BY <1>9, <1>10 DEF HeardInv, Said

\* The request of the turn that is settled shows all that was heard, and those of the
\* turns settled before it are what they were.
LEMMA ShownComplete ==
  ASSUME TypeOK, TurnsAreDistinct, HeardInv, HistoryIsOwnWords, Chaining,
         NEW g \in Groups, NEW i \in Members(g), Current(g, i),
         NEW p \in Predictions, p.request = Request(g, i), Complete(g, i, p)
  PROVE  HistoryIsOwnWords'
<1> USE DEF TypeOK
<1>1. i \in Samples /\ pred' = [pred EXCEPT ![i] = p] /\ pred[i] = NoPrediction
  BY DEF Complete, Members, Current
<1>2. /\ EarlierTurns(i) = Settled(g)
      /\ Len(spoken[g]) = Cardinality(Settled(g))
      /\ \A j \in Settled(g) : spoken[g][Cardinality(EarlierTurns(j)) + 1] = Said(pred[j])
  BY EarlierAreSettled DEF HeardInv
<1>3. \A j \in Samples : j # i => pred'[j] = pred[j]
  BY <1>1
<1>4. ASSUME Slots[i] > 0
      PROVE  /\ Len(p.request.history) = Cardinality(EarlierTurns(i))
             /\ \A j \in EarlierTurns(i) :
                  /\ pred'[j] # NoPrediction
                  /\ p.request.history[Cardinality(EarlierTurns(j)) + 1] = Said(pred'[j])
  <2>1. p.request.history = spoken[g]
    BY <1>4 DEF Request
  <2>2. \A j \in Settled(g) : pred'[j] = pred[j] /\ pred[j] # NoPrediction
    BY <1>1, <1>3 DEF Settled, Members
  <2> QED BY <1>2, <2>1, <2>2
<1>5. ASSUME NEW k \in Samples, k # i, pred[k] # NoPrediction, Slots[k] > 0
      PROVE  /\ Len(pred[k].request.history) = Cardinality(EarlierTurns(k))
             /\ \A j \in EarlierTurns(k) :
                  /\ pred'[j] # NoPrediction
                  /\ pred[k].request.history[Cardinality(EarlierTurns(j)) + 1] = Said(pred'[j])
  <2>1. /\ Len(pred[k].request.history) = Cardinality(EarlierTurns(k))
        /\ \A j \in EarlierTurns(k) :
             /\ pred[j] # NoPrediction
             /\ pred[k].request.history[Cardinality(EarlierTurns(j)) + 1] = Said(pred[j])
    BY <1>5 DEF HistoryIsOwnWords
  <2>2. \A j \in EarlierTurns(k) : j \in Samples /\ j # i
    BY <1>1, <2>1 DEF EarlierTurns
  <2> QED BY <1>3, <2>1, <2>2
<1>6. ASSUME NEW k \in Samples, pred'[k] # NoPrediction, Slots[k] > 0
      PROVE  /\ Len(pred'[k].request.history) = Cardinality(EarlierTurns(k))
             /\ \A j \in EarlierTurns(k) :
                  /\ pred'[j] # NoPrediction
                  /\ pred'[k].request.history[Cardinality(EarlierTurns(j)) + 1] = Said(pred'[j])
  <2>1. CASE k = i
    BY <1>1, <1>4, <1>6, <2>1
  <2>2. CASE k # i
    BY <1>3, <1>5, <1>6, <2>2
  <2> QED BY <2>1, <2>2
<1> QED BY <1>6 DEF HistoryIsOwnWords, Said

\* A step of a task settles the turn it is at, or says nothing.
LEMMA SettlesOrNot ==
  ASSUME TypeOK, NEW g \in Groups, Task(g)
  PROVE  \/ UNCHANGED <<pred, spoken>>
         \/ \E i \in Members(g), p \in Predictions :
              Current(g, i) /\ p.request = Request(g, i) /\ Complete(g, i, p)
<1>1. CASE \/ Start(g) \/ PrepareRaises(g) \/ Call(g) \/ PutFails(g) \/ BackOff(g)
           \/ Retry(g) \/ AgentCall(g) \/ Finish(g)
  BY <1>1 DEF Start, PrepareRaises, Raise, Call, PutFails, BackOff, Retry, AgentCall, Finish
<1>2. CASE RefuseOverBudget(g)
  BY <1>2, PredictionType DEF RefuseOverBudget, AskModel, At
<1>3. CASE CacheHit(g)
  <2>1. PICK i \in Members(g), e \in cache :
          /\ Current(g, i)
          /\ Complete(g, i, [kind |-> "hit", request |-> Request(g, i),
                             response |-> e.response, attempts |-> 0])
    BY <1>3 DEF CacheHit, Cached, AskModel, At
  <2>2. e.response \in Responses
    BY DEF TypeOK, Entries
  <2>3. [kind |-> "hit", request |-> Request(g, i),
         response |-> e.response, attempts |-> 0] \in Predictions
    BY <2>2, PredictionType
  <2> QED BY <2>1, <2>3
<1>4. CASE Succeed(g)
  <2>1. PICK i \in Members(g), resp \in Responses :
          /\ Current(g, i)
          /\ Complete(g, i, [kind |-> "answered", request |-> Request(g, i),
                             response |-> resp, attempts |-> attempts[g]])
    BY <1>4 DEF Succeed, At
  <2>2. attempts[g] \in Nat
    BY EngineAssumption DEF TypeOK
  <2>3. [kind |-> "answered", request |-> Request(g, i),
         response |-> resp, attempts |-> attempts[g]] \in Predictions
    BY <2>2, PredictionType
  <2> QED BY <2>1, <2>3
<1>5. CASE GiveUp(g)
  <2>1. attempts[g] \in Nat
    BY EngineAssumption DEF TypeOK
  <2> QED BY <1>5, <2>1, PredictionType DEF GiveUp, At
<1>6. CASE AgentAnswers(g)
  BY <1>6, PredictionType DEF AgentAnswers, At
<1>7. CASE AgentFails(g)
  BY <1>7, PredictionType DEF AgentFails, At
<1> QED BY <1>1, <1>2, <1>3, <1>4, <1>5, <1>6, <1>7 DEF Task

\* Under model_history every turn is shown what this model said at the turns before it,
\* in their order: for any conversations in any input order, failures, retries, cache
\* hits and sessions, as long as no two turns of a conversation have one index.
THEOREM OwnHistory ==
  ASSUME TurnsAreDistinct
  PROVE  Spec => []HistoryIsOwnWords
<1> DEFINE Inv == HeardInv /\ HistoryIsOwnWords
<1>1. Init => Inv
  <2> SUFFICES ASSUME Init PROVE Inv
    OBVIOUS
  <2>1. /\ pred = [i \in Samples |-> NoPrediction] /\ spoken = [g \in Groups |-> <<>>]
    BY DEF Init, Fresh
  <2>2. \A g \in Groups : Settled(g) = {}
    BY <2>1 DEF Settled, Members
  <2> QED BY <2>1, <2>2, FS_EmptySet DEF HeardInv, HistoryIsOwnWords
<1>2. TypeOK /\ Inv /\ [Next]_vars => Inv'
  <2> SUFFICES ASSUME TypeOK, Inv, [Next]_vars PROVE Inv'
    OBVIOUS
  <2>1. CASE ~Chaining
    BY <2>1 DEF HeardInv, HistoryIsOwnWords, Chaining
  <2>2. CASE UNCHANGED <<pred, spoken>>
    BY <2>2 DEF HeardInv, HistoryIsOwnWords, Settled, Said
  <2>3. ASSUME Chaining, NEW g \in Groups, Task(g) PROVE Inv'
    <3>1. CASE ~UNCHANGED <<pred, spoken>>
      <4>1. PICK i \in Members(g), p \in Predictions :
              Current(g, i) /\ p.request = Request(g, i) /\ Complete(g, i, p)
        BY <2>3, <3>1, SettlesOrNot
      <4> QED BY <2>3, <4>1, HeardComplete, ShownComplete
    <3> QED BY <2>2, <3>1
  <2>4. CASE Restart
    <3>1. /\ pred' = [i \in Samples |-> NoPrediction] /\ spoken' = [g \in Groups |-> <<>>]
      BY <2>4 DEF Restart
    <3>2. \A g \in Groups : Settled(g)' = {}
      BY <3>1 DEF Settled, Members
    <3> QED BY <3>1, <3>2, FS_EmptySet DEF HeardInv, HistoryIsOwnWords
  <2>5. CASE Begin \/ Return \/ Kill \/ UNCHANGED vars
    BY <2>2, <2>5 DEF Begin, Return, Kill, vars, volatile
  <2> QED BY <2>1, <2>3, <2>4, <2>5 DEF Next, Over
<1> QED BY <1>1, <1>2, TypeCorrect, PTL DEF Spec

-----------------------------------------------------------------------------
(* The engine implements EvaluationPromise. *)

\* A task ends normally only when each of its samples has a prediction.
DoneInv == \A g \in Groups : place[g] = "done" => \A i \in Members(g) : pred[i] # NoPrediction

\* Predictions are never taken back within a session.
LEMMA PredictionsStay ==
  ASSUME TypeOK, NEW g \in Groups, Task(g), NEW i \in Samples, pred[i] # NoPrediction
  PROVE  pred'[i] # NoPrediction
<1> USE DEF TypeOK
<1>1. ASSUME NEW j \in Members(g), Current(g, j), NEW p, Complete(g, j, p)
      PROVE  pred'[i] # NoPrediction
  BY <1>1 DEF Complete, Current
<1>2. CASE \/ RefuseOverBudget(g) \/ CacheHit(g) \/ Succeed(g) \/ GiveUp(g)
           \/ AgentAnswers(g) \/ AgentFails(g)
  BY <1>1, <1>2 DEF RefuseOverBudget, AskModel, CacheHit, Succeed, GiveUp, AgentAnswers,
                    AgentFails, At
<1>3. CASE ~ \/ RefuseOverBudget(g) \/ CacheHit(g) \/ Succeed(g) \/ GiveUp(g)
             \/ AgentAnswers(g) \/ AgentFails(g)
  BY <1>3 DEF Task, Start, PrepareRaises, Raise, Call, BackOff, Retry, AgentCall,
              Finish, PutFails
<1> QED BY <1>2, <1>3

LEMMA DoneTask ==
  ASSUME TypeOK, DoneInv, NEW g \in Groups, Task(g)
  PROVE  DoneInv'
<1> SUFFICES ASSUME NEW h \in Groups, place'[h] = "done", NEW i \in Members(h)
             PROVE  pred'[i] # NoPrediction
  BY DEF DoneInv
<1>1. i \in Samples
  BY DEF Members
<1>2. CASE h # g
  BY <1>1, <1>2, OthersStay, PredictionsStay DEF DoneInv
<1>3. CASE h = g
  <2>1. Finish(g)
    BY <1>3 DEF TypeOK, Task, Start, PrepareRaises, Raise, RefuseOverBudget, CacheHit,
                Call, Succeed, PutFails, BackOff, Retry, GiveUp, AgentCall,
                AgentAnswers, AgentFails, Complete
  <2> QED BY <1>3, <2>1 DEF Finish
<1> QED BY <1>2, <1>3

LEMMA DoneCorrect == Spec => []DoneInv
<1>1. Init => DoneInv
  BY DEF Init, Fresh, DoneInv
<1>2. TypeOK /\ DoneInv /\ [Next]_vars => DoneInv'
  <2> SUFFICES ASSUME TypeOK, DoneInv, [Next]_vars PROVE DoneInv'
    OBVIOUS
  <2>1. ASSUME NEW g \in Groups, Task(g) PROVE DoneInv'
    BY <2>1, DoneTask
  <2>2. CASE Restart
    BY <2>2 DEF Restart, DoneInv
  <2>3. CASE Begin \/ Return \/ Kill \/ UNCHANGED vars
    BY <2>3 DEF Begin, Return, Kill, vars, volatile, DoneInv
  <2> QED BY <2>1, <2>2, <2>3 DEF Next, Over
<1> QED BY <1>1, <1>2, TypeCorrect, PTL DEF Spec

\* The refinement mapping, by name.
outcomeBar == [i \in Samples |-> Outcome(pred[i])]
savedBar == {e.request.sample : e \in cache}

\* A prediction is an answer or a failure, and it is told apart from none at all.
LEMMA OutcomeOf ==
  /\ Outcome(NoPrediction) = "pending"
  /\ \A p \in Predictions : Outcome(p) \in {"answered", "failed"}
  /\ \A p \in Predictions : p.response = NoResponse <=> Outcome(p) = "failed"
BY PredictionAssumption DEF Outcome

\* Settling the current turn of a task settles one sample of the promise.
LEMMA SettleStep ==
  ASSUME TypeOK, Alive, UNCHANGED phase,
         NEW g \in Groups, NEW i \in Members(g), Current(g, i),
         NEW p \in Predictions, Complete(g, i, p),
         \/ savedBar' = savedBar
         \/ savedBar' = savedBar \cup {i} /\ p.response # NoResponse
  PROVE  Promise!Settle(i)
<1>1. i \in Samples /\ pred' = [pred EXCEPT ![i] = p] /\ pred[i] = NoPrediction
  BY DEF Members, Complete, Current
<1>2. outcomeBar' = [outcomeBar EXCEPT ![i] = Outcome(p)]
  BY <1>1 DEF outcomeBar, TypeOK
<1>3. outcomeBar[i] = "pending"
  BY <1>1, OutcomeOf DEF outcomeBar
<1>4. ASSUME NEW j \in Samples, EarlierTurn(j, i) PROVE outcomeBar[j] # "pending"
  <2>1. pred[j] # NoPrediction
    BY <1>4, EarlierTurnIsBefore DEF Current
  <2>2. Outcome(pred[j]) \in {"answered", "failed"}
    BY <2>1, OutcomeOf DEF TypeOK
  <2> QED BY <2>2 DEF outcomeBar
<1>5. \/ Outcome(p) = "failed" /\ savedBar' = savedBar
      \/ Outcome(p) = "answered" /\ savedBar' \in {savedBar, savedBar \cup {i}}
  BY OutcomeOf
<1>6. phase \in {"running", "aborting"} /\ phase' = phase
  BY DEF Alive
<1> QED BY <1>2, <1>3, <1>4, <1>5, <1>6 DEF Promise!Settle, outcomeBar, savedBar

\* Predicting what the provider said: the entry it leaves, if any, is of this sample.
LEMMA StoreStep ==
  ASSUME NEW g \in Groups, NEW i \in Members(g), TypeOK,
         NEW resp, Store(Request(g, i), resp)
  PROVE  savedBar' = savedBar \cup {i}
<1> DEFINE r == Request(g, i)
           new == [request |-> r, response |-> resp]
<1>1. r.sample = i
  BY RequestType
<1> HIDE DEF r
<1>2. cache' = {e \in cache : e.request # r} \cup {new}
  BY DEF Store, r
<1>3. new.request.sample = i
  BY <1>1
<1> HIDE DEF new
<1>4. ASSUME NEW e \in cache' PROVE e.request.sample \in savedBar \cup {i}
  BY <1>2, <1>3, <1>4 DEF savedBar
<1>5. ASSUME NEW e \in cache PROVE e.request.sample \in savedBar'
  <2>1. CASE e.request = r
    <3>1. e.request.sample = new.request.sample /\ new \in cache'
      BY <1>1, <1>2, <1>3, <2>1
    <3> QED BY <3>1 DEF savedBar
  <2>2. CASE e.request # r
    BY <1>2, <2>2 DEF savedBar
  <2> QED BY <2>1, <2>2
<1>6. i \in savedBar'
  BY <1>2, <1>3 DEF savedBar
<1>7. \A x \in savedBar' : x \in savedBar \cup {i}
  BY <1>4 DEF savedBar
<1>8. \A x \in savedBar : x \in savedBar'
  BY <1>5 DEF savedBar
<1> QED BY <1>6, <1>7, <1>8

\* Every step of a task settles a sample, aborts the run, or is not noticed.
LEMMA TaskStep ==
  ASSUME TypeOK, NEW g \in Groups, Task(g)
  PROVE  \/ \E i \in Samples : Promise!Settle(i)
         \/ Promise!Abort
         \/ UNCHANGED <<phase, outcomeBar, savedBar>>
<1> USE DEF At
<1>a. \A i \in Members(g) : i \in Samples
  BY DEF Members
<1>n. attempts[g] \in Nat
  BY EngineAssumption DEF TypeOK
<1>1. CASE RefuseOverBudget(g)
  <2>1. PICK i \in Members(g) :
          /\ Alive /\ Current(g, i) /\ UNCHANGED <<phase, cache>>
          /\ Complete(g, i, [kind |-> "refused", request |-> Request(g, i),
                             response |-> NoResponse, attempts |-> 0])
    BY <1>1 DEF RefuseOverBudget, AskModel
  <2>2. savedBar' = savedBar
    BY <2>1 DEF savedBar
  <2>3. [kind |-> "refused", request |-> Request(g, i), response |-> NoResponse,
         attempts |-> 0] \in Predictions
    BY PredictionType
  <2>4. Promise!Settle(i)
    BY <2>1, <2>2, <2>3, SettleStep
  <2> QED BY <1>a, <2>4
<1>2. CASE CacheHit(g)
  <2>1. PICK i \in Members(g), e \in cache :
          /\ Alive /\ Current(g, i) /\ UNCHANGED <<phase, cache>>
          /\ Complete(g, i, [kind |-> "hit", request |-> Request(g, i),
                             response |-> e.response, attempts |-> 0])
    BY <1>2 DEF CacheHit, AskModel, Cached
  <2>2. savedBar' = savedBar
    BY <2>1 DEF savedBar
  <2>3. e.response \in Responses
    BY DEF TypeOK, Entries
  <2>4. [kind |-> "hit", request |-> Request(g, i), response |-> e.response,
         attempts |-> 0] \in Predictions
    BY <2>3, PredictionType
  <2>5. Promise!Settle(i)
    BY <2>1, <2>2, <2>4, SettleStep
  <2> QED BY <1>a, <2>5
<1>3. CASE Succeed(g)
  <2>1. PICK i \in Members(g), resp \in Responses :
          /\ Alive /\ Current(g, i) /\ UNCHANGED phase
          /\ IF WritesCache THEN Store(Request(g, i), resp) ELSE UNCHANGED cache
          /\ Complete(g, i, [kind |-> "answered", request |-> Request(g, i),
                             response |-> resp, attempts |-> attempts[g]])
    BY <1>3 DEF Succeed
  <2> DEFINE p == [kind |-> "answered", request |-> Request(g, i), response |-> resp,
                   attempts |-> attempts[g]]
  <2>2. p \in Predictions
    BY <1>n, PredictionType
  <2>3. p.response # NoResponse
    <3>1. resp.content \in Contents
      BY DEF Responses
    <3>2. resp # NoResponse
      BY <3>1, EngineAssumption DEF NoResponse
    <3> QED BY <3>2
  <2>4. savedBar' = savedBar \/ savedBar' = savedBar \cup {i}
    <3>1. CASE WritesCache
      BY <2>1, <3>1, StoreStep
    <3>2. CASE ~WritesCache
      BY <2>1, <3>2 DEF savedBar
    <3> QED BY <3>1, <3>2
  <2>5. Complete(g, i, p)
    BY <2>1
  <2> HIDE DEF p
  <2>6. Promise!Settle(i)
    BY <2>1, <2>2, <2>3, <2>4, <2>5, SettleStep
  <2> QED BY <1>a, <2>6
<1>4. CASE GiveUp(g)
  <2>1. PICK i \in Members(g) :
          /\ Alive /\ Current(g, i) /\ UNCHANGED <<phase, cache>>
          /\ Complete(g, i, [kind |-> "error", request |-> Request(g, i),
                             response |-> NoResponse, attempts |-> attempts[g]])
    BY <1>4 DEF GiveUp
  <2>2. savedBar' = savedBar
    BY <2>1 DEF savedBar
  <2>3. [kind |-> "error", request |-> Request(g, i), response |-> NoResponse,
         attempts |-> attempts[g]] \in Predictions
    BY <1>n, PredictionType
  <2>4. Promise!Settle(i)
    BY <2>1, <2>2, <2>3, SettleStep
  <2> QED BY <1>a, <2>4
<1>5. CASE AgentAnswers(g)
  <2>1. PICK i \in Members(g), resp \in Responses, turns \in 0..MaxToolTurns :
          /\ Alive /\ Current(g, i) /\ UNCHANGED <<phase, cache>>
          /\ Complete(g, i, [kind |-> "agent", request |-> Request(g, i),
                             response |-> resp, attempts |-> turns + 1])
    BY <1>5 DEF AgentAnswers
  <2>2. savedBar' = savedBar
    BY <2>1 DEF savedBar
  <2>3. turns + 1 \in Nat
    BY EngineAssumption
  <2>4. [kind |-> "agent", request |-> Request(g, i), response |-> resp,
         attempts |-> turns + 1] \in Predictions
    BY <2>3, PredictionType
  <2>5. Promise!Settle(i)
    BY <2>1, <2>2, <2>4, SettleStep
  <2> QED BY <1>a, <2>5
<1>6. CASE AgentFails(g)
  <2>1. PICK i \in Members(g) :
          /\ Alive /\ Current(g, i) /\ UNCHANGED <<phase, cache>>
          /\ Complete(g, i, [kind |-> "error", request |-> Request(g, i),
                             response |-> NoResponse, attempts |-> 1])
    BY <1>6 DEF AgentFails
  <2>2. savedBar' = savedBar
    BY <2>1 DEF savedBar
  <2>3. [kind |-> "error", request |-> Request(g, i), response |-> NoResponse,
         attempts |-> 1] \in Predictions
    BY PredictionType
  <2>4. Promise!Settle(i)
    BY <2>1, <2>2, <2>3, SettleStep
  <2> QED BY <1>a, <2>4
<1>7. CASE PrepareRaises(g) \/ PutFails(g)
  <2>1. /\ UNCHANGED <<pred, cache>>
        /\ Alive /\ phase' = "aborting"
    BY <1>7 DEF PrepareRaises, PutFails, Raise
  <2>2. UNCHANGED <<outcomeBar, savedBar>>
    BY <2>1 DEF outcomeBar, savedBar
  <2> QED BY <2>1, <2>2 DEF Promise!Abort, outcomeBar, savedBar, Alive
<1>8. CASE \/ Start(g) \/ Call(g) \/ BackOff(g) \/ Retry(g) \/ AgentCall(g) \/ Finish(g)
  <2>1. UNCHANGED <<phase, pred, cache>>
    BY <1>8 DEF Start, Call, BackOff, Retry, AgentCall, Finish
  <2> QED BY <2>1 DEF outcomeBar, savedBar
<1> QED BY <1>1, <1>2, <1>3, <1>4, <1>5, <1>6, <1>7, <1>8 DEF Task

\* Whatever tasks, retries, caps, kills and restarts do, a caller sees the promise: each
\* sample settled once and in turn order, all of the predictions or none, and a saved
\* answer saved for good.
THEOREM EngineKeepsPromise == Spec => KeepsPromise
<1>1. Init => Promise!Init
  BY DEF Init, Fresh, Promise!Init, Outcome
<1>2. TypeOK /\ DoneInv /\ [Next]_vars => [Promise!Next]_(Promise!vars)
  <2> SUFFICES ASSUME TypeOK, DoneInv, [Next]_vars
               PROVE  Promise!Next \/ UNCHANGED <<phase, outcomeBar, savedBar>>
    BY DEF Promise!vars, outcomeBar, savedBar
  <2>1. CASE \E g \in Groups : Task(g)
    BY <2>1, TaskStep DEF Promise!Next
  <2>2. CASE Begin
    BY <2>2 DEF Begin, volatile, Promise!Next, Promise!Begin
  <2>3. CASE Return
    <3>1. ASSUME NEW i \in Samples PROVE Outcome(pred[i]) # "pending"
      <4>1. PICK g \in Groups : i \in Members(g)
        BY EverySampleHasATask
      <4>2. pred[i] # NoPrediction
        BY <2>3, <4>1 DEF Return, DoneInv
      <4>3. Outcome(pred[i]) \in {"answered", "failed"}
        BY <4>2, OutcomeOf DEF TypeOK
      <4> QED BY <4>3
    <3>2. phase = "running" /\ phase' = "returned" /\ UNCHANGED <<pred, cache>>
      BY <2>3 DEF Return, volatile
    <3> QED BY <3>1, <3>2 DEF Promise!Next, Promise!Return
  <2>4. CASE Kill
    BY <2>4 DEF Kill, volatile, Alive, Promise!Next, Promise!Stop
  <2>5. CASE Restart
    <3>1. /\ phase \in {"returned", "dead"} /\ phase' = "ready" /\ UNCHANGED cache
          /\ pred' = [i \in Samples |-> NoPrediction]
      BY <2>5 DEF Restart
    <3>2. [i \in Samples |-> Outcome(pred'[i])] = [i \in Samples |-> "pending"]
      BY <3>1, OutcomeOf
    <3> QED BY <3>1, <3>2 DEF Promise!Next, Promise!Restart
  <2>6. CASE UNCHANGED vars
    BY <2>6 DEF vars, volatile, outcomeBar, savedBar
  <2> QED BY <2>1, <2>2, <2>3, <2>4, <2>5, <2>6 DEF Next, Over
<1> QED BY <1>1, <1>2, TypeCorrect, DoneCorrect, PTL DEF Spec, KeepsPromise, Promise!Spec

-----------------------------------------------------------------------------
(* The reported cost is the price of the answers. *)

\* What sample i has cost, as far as its prediction says; nothing before it has one.
Cost(i) == IF pred[i] = NoPrediction THEN 0 ELSE Price(pred[i].response)
Costed == [i \in Samples |-> Cost(i)]
HasPrice(i) == pred[i] # NoPrediction /\ pred[i].response.cost # Unpriced

\* As long as no exception has cut a conversation off, the total and its flag are
\* those of the predictions made so far.
AccountInv ==
  phase \in {"ready", "running", "returned"} =>
    /\ spend = SumFunctionOnSet(Costed, Samples)
    /\ priced <=> \E i \in Samples : HasPrice(i)

\* The samples are finitely many and their costs are numbers.
LEMMA CostsAreNumbers ==
  ASSUME TypeOK
  PROVE  IsFiniteSet(Samples) /\ \A i \in Samples : Cost(i) \in Nat
<1>1. IsFiniteSet(Samples)
  BY EngineAssumption, FS_Interval, FS_Subset DEF Samples, Input
<1>2. ASSUME NEW i \in Samples PROVE Cost(i) \in Nat
  <2>1. pred[i] # NoPrediction => pred[i].response \in Responses \cup {NoResponse}
    BY DEF TypeOK, Predictions
  <2>2. Price(NoResponse) = 0
    BY DEF Price, NoResponse
  <2>3. \A r \in Responses : Price(r) \in Nat
    BY PriceType, EngineAssumption
  <2> QED BY <2>1, <2>2, <2>3 DEF Cost
<1> QED BY <1>1, <1>2

\* Settling a sample that had no prediction adds what its response cost.
LEMMA AccountComplete ==
  ASSUME TypeOK, AccountInv, phase' = phase, NEW g \in Groups, NEW i \in Members(g),
         Current(g, i), NEW p \in Predictions, Complete(g, i, p),
         \/ RecordCost(p.response)
         \/ p.response = NoResponse /\ UNCHANGED <<spend, priced>>
  PROVE  AccountInv'
<1> SUFFICES ASSUME phase \in {"ready", "running", "returned"}
             PROVE  /\ spend' = SumFunctionOnSet(Costed', Samples)
                    /\ priced' <=> \E j \in Samples : HasPrice(j)'
  BY DEF AccountInv
<1>1. i \in Samples /\ pred' = [pred EXCEPT ![i] = p] /\ pred[i] = NoPrediction
  BY DEF Members, Complete, Current
<1>2. p # NoPrediction /\ p.response \in Responses \cup {NoResponse}
  BY PredictionAssumption DEF Predictions
<1>3. pred'[i] = p /\ \A j \in Samples \ {i} : pred'[j] = pred[j]
  BY <1>1 DEF TypeOK
<1>4. Costed[i] = 0 /\ Costed'[i] = Price(p.response)
  BY <1>1, <1>2, <1>3 DEF Costed, Cost
<1>5. \A j \in Samples \ {i} : Costed[j] = Costed'[j]
  BY <1>3 DEF Costed, Cost
<1>6. Price(p.response) \in Nat
  <2>1. Price(NoResponse) = 0
    BY DEF Price, NoResponse
  <2> QED BY <1>2, <2>1, PriceType, EngineAssumption
<1>7. IsFiniteSet(Samples) /\ \A j \in Samples : Costed[j] \in Int /\ Costed'[j] \in Int
  <2>1. \A j \in Samples : Costed[j] \in Int
    BY CostsAreNumbers DEF Costed
  <2> QED BY <1>4, <1>5, <1>6, <2>1, CostsAreNumbers
<1>8. /\ SumFunctionOnSet(Costed', Samples) =
           SumFunctionOnSet(Costed, Samples) + (Costed'[i] - Costed[i])
      /\ SumFunctionOnSet(Costed, Samples) \in Int
  BY <1>1, <1>5, <1>7, SumChange, SumType
<1>9. spend' = spend + Price(p.response)
  <2>1. Price(NoResponse) = 0 /\ spend \in Nat
    BY DEF Price, NoResponse, TypeOK
  <2> QED BY <2>1 DEF RecordCost
<1>10. priced' <=> priced \/ p.response.cost # Unpriced
  <2>1. CASE RecordCost(p.response)
    <3>1. priced' = (priced \/ p.response.cost # Unpriced)
      BY <2>1 DEF RecordCost
    <3> QED BY <3>1, Zenon
  <2>2. CASE p.response = NoResponse /\ UNCHANGED <<spend, priced>>
    BY <2>2 DEF NoResponse
  <2> QED BY <2>1, <2>2
<1>11. (\E j \in Samples : HasPrice(j)') <=>
         (\E j \in Samples : HasPrice(j)) \/ p.response.cost # Unpriced
  BY <1>1, <1>2, <1>3 DEF HasPrice
<1>12. spend' = SumFunctionOnSet(Costed', Samples)
  BY <1>4, <1>6, <1>8, <1>9 DEF AccountInv
<1> QED BY <1>10, <1>11, <1>12 DEF AccountInv

\* Every step of a task keeps the account, unless it raises.
LEMMA AccountTask ==
  ASSUME TypeOK, AccountInv, NEW g \in Groups, Task(g)
  PROVE  AccountInv'
<1> USE DEF At
<1>1. ASSUME NEW i \in Members(g), NEW kind \in {"refused", "error"}, NEW n \in Nat,
             Current(g, i), UNCHANGED <<phase, spend, priced>>,
             Complete(g, i, [kind |-> kind, request |-> Request(g, i),
                             response |-> NoResponse, attempts |-> n])
      PROVE  AccountInv'
  <2> DEFINE p == [kind |-> kind, request |-> Request(g, i),
                   response |-> NoResponse, attempts |-> n]
  <2>1. p \in Predictions /\ p.response = NoResponse
    BY <1>1, PredictionType
  <2> HIDE DEF p
  <2> QED BY <1>1, <2>1, AccountComplete DEF p
<1>2. ASSUME NEW i \in Members(g), NEW kind \in {"answered", "hit", "agent"}, NEW n \in Nat,
             NEW resp \in Responses, Current(g, i), UNCHANGED phase, RecordCost(resp),
             Complete(g, i, [kind |-> kind, request |-> Request(g, i),
                             response |-> resp, attempts |-> n])
      PROVE  AccountInv'
  <2> DEFINE p == [kind |-> kind, request |-> Request(g, i),
                   response |-> resp, attempts |-> n]
  <2>1. p \in Predictions /\ p.response = resp
    BY <1>2, PredictionType
  <2> HIDE DEF p
  <2> QED BY <1>2, <2>1, AccountComplete DEF p
<1>3. attempts[g] \in Nat
  BY EngineAssumption DEF TypeOK
<1>4. CASE RefuseOverBudget(g)
  BY <1>1, <1>4 DEF RefuseOverBudget, AskModel
<1>5. CASE GiveUp(g)
  BY <1>1, <1>3, <1>5 DEF GiveUp
<1>6. CASE AgentFails(g)
  BY <1>1, <1>6 DEF AgentFails
<1>7. CASE CacheHit(g)
  <2>1. PICK i \in Members(g), e \in cache :
           /\ Current(g, i) /\ RecordCost(e.response) /\ UNCHANGED phase
           /\ Complete(g, i, [kind |-> "hit", request |-> Request(g, i),
                              response |-> e.response, attempts |-> 0])
    BY <1>7 DEF CacheHit, AskModel, Cached
  <2>2. e.response \in Responses
    BY DEF TypeOK, Entries
  <2> QED BY <1>2, <2>1, <2>2
<1>8. CASE Succeed(g)
  BY <1>2, <1>3, <1>8 DEF Succeed
<1>9. CASE AgentAnswers(g)
  <2>1. PICK i \in Members(g), resp \in Responses, turns \in 0..MaxToolTurns :
           /\ Current(g, i) /\ RecordCost(resp) /\ UNCHANGED phase
           /\ Complete(g, i, [kind |-> "agent", request |-> Request(g, i),
                              response |-> resp, attempts |-> turns + 1])
    BY <1>9 DEF AgentAnswers
  <2>2. turns + 1 \in Nat
    BY EngineAssumption
  <2> QED BY <1>2, <2>1, <2>2
<1>10. CASE PutFails(g) \/ PrepareRaises(g)
  BY <1>10 DEF PutFails, PrepareRaises, Raise, AccountInv
<1>11. CASE \/ Start(g) \/ Call(g) \/ BackOff(g) \/ Retry(g) \/ AgentCall(g) \/ Finish(g)
  <2>1. UNCHANGED <<phase, pred, spend, priced>>
    BY <1>11 DEF Start, Call, BackOff, Retry, AgentCall, Finish
  <2> QED BY <2>1 DEF AccountInv, Costed, Cost, HasPrice
<1> QED BY <1>4, <1>5, <1>6, <1>7, <1>8, <1>9, <1>10, <1>11 DEF Task

\* Nothing has been spent where nothing has been predicted.
LEMMA AccountFresh ==
  ASSUME pred = [i \in Samples |-> NoPrediction], spend = 0, priced = FALSE
  PROVE  AccountInv
<1>1. \A i \in Samples : Costed[i] = 0 /\ ~HasPrice(i)
  BY DEF Costed, Cost, HasPrice
<1>2. IsFiniteSet(Samples)
  BY EngineAssumption, FS_Interval, FS_Subset DEF Samples, Input
<1>3. SumFunctionOnSet(Costed, Samples) = 0
  BY <1>1, <1>2, SumOfZeros
<1> QED BY <1>1, <1>3 DEF AccountInv

\* A run returns when all its tasks are done.
AllDone == phase = "returned" => \A g \in Groups : place[g] = "done"

LEMMA AllDoneCorrect == Spec => []AllDone
<1>1. Init => AllDone
  BY DEF Init, AllDone
<1>2. AllDone /\ [Next]_vars => AllDone'
  <2> SUFFICES ASSUME AllDone, [Next]_vars PROVE AllDone'
    OBVIOUS
  <2>1. ASSUME NEW g \in Groups, Task(g) PROVE phase' # "returned"
    <3>1. Alive
      BY <2>1 DEF Task, Start, PrepareRaises, RefuseOverBudget, CacheHit, Call, Succeed,
                  PutFails, BackOff, Retry, GiveUp, AgentCall, AgentAnswers, AgentFails,
                  Finish, AskModel, At
    <3>2. phase' \in {phase, "aborting"}
      BY <2>1 DEF Task, Start, PrepareRaises, RefuseOverBudget, CacheHit, Call, Succeed,
                  PutFails, BackOff, Retry, GiveUp, AgentCall, AgentAnswers, AgentFails,
                  Finish, Raise
    <3> QED BY <3>1, <3>2 DEF Alive
  <2>2. CASE Begin \/ Return \/ Kill \/ Restart \/ UNCHANGED vars
    BY <2>2 DEF Begin, Return, Kill, Restart, vars, volatile, AllDone
  <2> QED BY <2>1, <2>2 DEF Next, Over, AllDone
<1> QED BY <1>1, <1>2, PTL DEF Spec

\* A run that returns reports as its cost the price of exactly the answers it
\* returns, for any samples, tasks, retries, cache and prices, and no cost exactly
\* when none of them had one; a run that an exception ends may have paid for more.
THEOREM CostsAreAccounted == Spec => []CostIsAccounted
<1>1. Init => AccountInv
  BY AccountFresh DEF Init, Fresh
<1>2. TypeOK /\ AccountInv /\ [Next]_vars => AccountInv'
  <2> SUFFICES ASSUME TypeOK, AccountInv, [Next]_vars PROVE AccountInv'
    OBVIOUS
  <2>1. ASSUME NEW g \in Groups, Task(g) PROVE AccountInv'
    BY <2>1, AccountTask
  <2>2. CASE Restart
    <3>1. \A i \in Samples : Costed'[i] = 0 /\ ~HasPrice(i)'
      BY <2>2 DEF Restart, Costed, Cost, HasPrice
    <3>2. IsFiniteSet(Samples)
      BY EngineAssumption, FS_Interval, FS_Subset DEF Samples, Input
    <3>3. SumFunctionOnSet(Costed', Samples) = 0
      BY <3>1, <3>2, SumOfZeros
    <3> QED BY <2>2, <3>1, <3>3 DEF Restart, AccountInv
  <2>3. CASE Begin \/ Return \/ Kill \/ UNCHANGED vars
    <3>1. UNCHANGED <<pred, spend, priced>> /\ (phase' \in {"ready", "running", "returned"} =>
            phase \in {"ready", "running", "returned"})
      BY <2>3 DEF Begin, Return, Kill, vars, volatile
    <3> QED BY <3>1 DEF AccountInv, Costed, Cost, HasPrice
  <2> QED BY <2>1, <2>2, <2>3 DEF Next, Over
<1>3. TypeOK /\ DoneInv /\ AllDone /\ AccountInv => CostIsAccounted
  <2> SUFFICES ASSUME TypeOK, DoneInv, AllDone, AccountInv, phase = "returned"
               PROVE  CostIsAccounted
    BY DEF CostIsAccounted
  <2> DEFINE answered == {i \in Samples : pred[i].response # NoResponse}
             prices == [i \in answered |-> Price(pred[i].response)]
  <2>1. \A i \in Samples : pred[i] # NoPrediction
    BY EverySampleHasATask DEF DoneInv, AllDone
  <2>2. IsFiniteSet(Samples) /\ \A i \in Samples : Costed[i] \in Nat
    BY CostsAreNumbers DEF Costed
  <2>3. answered \in SUBSET Samples /\ IsFiniteSet(answered)
    BY <2>2, FS_Subset
  <2>4. \A i \in Samples \ answered : Costed[i] = 0
    BY DEF Costed, Cost, Price, NoResponse
  <2>5. SumFunctionOnSet(Costed, Samples) = SumFunctionOnSet(Costed, answered)
    <3> HIDE DEF answered
    <3> QED BY <2>2, <2>3, <2>4, SumOfRest
  <2>6. SumFunctionOnSet(Costed, answered) = SumFunctionOnSet(prices, answered)
    <3>1. \A i \in answered : Costed[i] \in Int /\ Costed[i] = prices[i]
      BY <2>1, <2>2, <2>3 DEF Costed, Cost
    <3> HIDE DEF answered, prices
    <3> QED BY <2>3, <3>1, SumSame
  <2>7. SumFunction(prices) = SumFunctionOnSet(prices, answered)
    <3>1. DOMAIN prices = answered
      OBVIOUS
    <3> HIDE DEF answered, prices
    <3> QED BY <3>1 DEF SumFunction
  <2>8. spend = SumFunction(prices)
    BY <2>5, <2>6, <2>7 DEF AccountInv
  <2>9. priced <=> \E i \in answered : pred[i].response.cost # Unpriced
    <3>1. \A i \in Samples : pred[i].response.cost # Unpriced => i \in answered
      BY DEF NoResponse
    <3> QED BY <2>1, <3>1 DEF AccountInv, HasPrice
  <2> QED BY <2>8, <2>9 DEF CostIsAccounted
<1> QED BY <1>1, <1>2, <1>3, TypeCorrect, DoneCorrect, AllDoneCorrect, PTL DEF Spec

-----------------------------------------------------------------------------
(* A run goes on, and not for ever. *)

\* More steps than one request can take: each attempt is a call and a wait.
Rounds == 2 * MaxRetries + 4

Unsettled(g) == {i \in Members(g) : pred[i] = NoPrediction}

\* A bound on the steps a task has before it, from its place, the attempts made and
\* the number of samples without a prediction.
Remaining(where, tries, open) ==
  LET rest == Rounds * open + Rounds IN
  IF where = "queued" THEN rest + 2
  ELSE IF where = "turn" THEN rest + 1
  ELSE IF where = "agent" THEN rest
  ELSE IF where = "calling" THEN rest - 2 * tries
  ELSE IF where = "waiting" THEN rest - 2 * tries - 1
  ELSE 0

StepsLeft == [g \in Groups |-> Remaining(place[g], attempts[g], Cardinality(Unsettled(g)))]
WorkLeft == SumFunctionOnSet(StepsLeft, Groups)

LEMMA UnsettledCounts ==
  ASSUME NEW g \in Groups
  PROVE  IsFiniteSet(Unsettled(g)) /\ Cardinality(Unsettled(g)) \in Nat
<1>1. Unsettled(g) \in SUBSET Samples
  BY DEF Unsettled, Members
<1> QED BY <1>1, SetsOfSamples

\* The bound is a number, and the lower the further a task is.
LEMMA StepsAreNumbers ==
  ASSUME TypeOK, WaitersMayRetry, NEW g \in Groups
  PROVE  StepsLeft[g] \in Nat
<1> DEFINE open == Cardinality(Unsettled(g))
           rest == Rounds * open + Rounds
<1>1. open \in Nat /\ Rounds \in Nat /\ Rounds = 2 * MaxRetries + 4 /\ MaxRetries \in Nat
  BY UnsettledCounts, EngineAssumption DEF Rounds
<1>2. attempts[g] \in Nat /\ attempts[g] <= MaxRetries + 1
  BY <1>1 DEF TypeOK
<1> HIDE DEF open
<1>3. Rounds * open \in Nat
  BY <1>1
<1>4. rest \in Nat /\ rest >= 2 * MaxRetries + 4
  BY <1>1, <1>3
<1> HIDE DEF rest
<1>5. StepsLeft[g] = Remaining(place[g], attempts[g], open)
  BY DEF StepsLeft, open
<1>6. StepsLeft[g] =
        IF place[g] = "queued" THEN rest + 2
        ELSE IF place[g] = "turn" THEN rest + 1
        ELSE IF place[g] = "agent" THEN rest
        ELSE IF place[g] = "calling" THEN rest - 2 * attempts[g]
        ELSE IF place[g] = "waiting" THEN rest - 2 * attempts[g] - 1
        ELSE 0
  BY <1>5 DEF Remaining, rest
<1>7. place[g] = "waiting" => attempts[g] <= MaxRetries
  BY DEF WaitersMayRetry
<1> QED BY <1>1, <1>2, <1>4, <1>6, <1>7

\* A turn that is settled takes more off the bound than its request had left.
LEMMA SettlingCounts ==
  ASSUME TypeOK, NEW g \in Groups, NEW i \in Members(g), Current(g, i), NEW p,
         p # NoPrediction, Complete(g, i, p), place[g] \in {"turn", "calling", "agent"}
  PROVE  StepsLeft'[g] < StepsLeft[g]
<1> DEFINE open == Cardinality(Unsettled(g))
           rest == Rounds * open + Rounds
           left == Cardinality(Unsettled(g)')
<1>1. i \in Unsettled(g) /\ i \in Samples
  BY DEF Current, Unsettled, Members
<1>2. Unsettled(g)' = Unsettled(g) \ {i}
  BY <1>1 DEF Complete, Unsettled, Members, TypeOK
<1>3. left = open - 1
  BY <1>1, <1>2, UnsettledCounts, FS_RemoveElement
<1>4. open \in Nat /\ Rounds \in Nat /\ Rounds = 2 * MaxRetries + 4 /\ MaxRetries \in Nat
  BY UnsettledCounts, EngineAssumption DEF Rounds
<1>5. attempts[g] \in Nat /\ attempts[g] <= MaxRetries + 1
  BY <1>4 DEF TypeOK
<1>6. place'[g] = "turn"
  BY DEF Complete, TypeOK
<1> HIDE DEF open, left
<1>7. Rounds * left + Rounds = rest - Rounds /\ rest \in Int
  BY <1>3, <1>4
<1>8. StepsLeft'[g] = Remaining(place'[g], attempts'[g], left)
  BY DEF StepsLeft, Remaining, Rounds, left
<1>9. StepsLeft[g] = Remaining(place[g], attempts[g], open)
  BY DEF StepsLeft, open
<1>10. StepsLeft'[g] = (Rounds * left + Rounds) + 1
  BY <1>6, <1>8 DEF Remaining
<1>11. \/ place[g] = "turn" /\ StepsLeft[g] = rest + 1
       \/ place[g] = "agent" /\ StepsLeft[g] = rest
       \/ place[g] = "calling" /\ StepsLeft[g] = rest - 2 * attempts[g]
  BY <1>9 DEF Remaining
<1> HIDE DEF rest
<1> QED BY <1>4, <1>5, <1>7, <1>10, <1>11

\* Every step of a task brings it nearer to its end.
LEMMA OwnStepCounts ==
  ASSUME TypeOK, WaitersMayRetry, NEW g \in Groups, Task(g)
  PROVE  StepsLeft'[g] < StepsLeft[g]
<1> DEFINE open == Cardinality(Unsettled(g))
           rest == Rounds * open + Rounds
<1>1. CASE \/ RefuseOverBudget(g) \/ CacheHit(g) \/ Succeed(g) \/ GiveUp(g)
           \/ AgentAnswers(g) \/ AgentFails(g)
  <2>1. PICK i \in Members(g) : \E p :
          /\ Current(g, i) /\ Complete(g, i, p)
          /\ place[g] \in {"turn", "calling", "agent"}
          /\ p \in Predictions
    <3>1. ASSUME RefuseOverBudget(g)
          PROVE  \E i \in Members(g) :
                   /\ Current(g, i) /\ place[g] = "turn"
                   /\ Complete(g, i, [kind |-> "refused", request |-> Request(g, i),
                                      response |-> NoResponse, attempts |-> 0])
      BY <3>1 DEF RefuseOverBudget, AskModel, At
    <3>2. ASSUME CacheHit(g)
          PROVE  \E i \in Members(g), resp \in Responses :
                   /\ Current(g, i) /\ place[g] = "turn"
                   /\ Complete(g, i, [kind |-> "hit", request |-> Request(g, i),
                                      response |-> resp, attempts |-> 0])
      BY <3>2 DEF CacheHit, Cached, AskModel, At, TypeOK, Entries
    <3>3. ASSUME Succeed(g)
          PROVE  \E i \in Members(g), resp \in Responses :
                   /\ Current(g, i) /\ place[g] = "calling"
                   /\ Complete(g, i, [kind |-> "answered", request |-> Request(g, i),
                                      response |-> resp, attempts |-> attempts[g]])
      BY <3>3 DEF Succeed, At
    <3>4. ASSUME GiveUp(g)
          PROVE  \E i \in Members(g) :
                   /\ Current(g, i) /\ place[g] = "calling"
                   /\ Complete(g, i, [kind |-> "error", request |-> Request(g, i),
                                      response |-> NoResponse, attempts |-> attempts[g]])
      BY <3>4 DEF GiveUp, At
    <3>5. ASSUME AgentAnswers(g)
          PROVE  \E i \in Members(g), resp \in Responses, turns \in 0..MaxToolTurns :
                   /\ Current(g, i) /\ place[g] = "agent"
                   /\ Complete(g, i, [kind |-> "agent", request |-> Request(g, i),
                                      response |-> resp, attempts |-> turns + 1])
      BY <3>5 DEF AgentAnswers, At
    <3>6. ASSUME AgentFails(g)
          PROVE  \E i \in Members(g) :
                   /\ Current(g, i) /\ place[g] = "agent"
                   /\ Complete(g, i, [kind |-> "error", request |-> Request(g, i),
                                      response |-> NoResponse, attempts |-> 1])
      BY <3>6 DEF AgentFails, At
    <3>7. /\ attempts[g] \in Nat /\ 0 \in Nat /\ 1 \in Nat
          /\ \A turns \in 0..MaxToolTurns : turns + 1 \in Nat
      BY EngineAssumption DEF TypeOK
    <3>8. ASSUME NEW i \in Members(g), NEW resp \in Responses \cup {NoResponse}, NEW n \in Nat,
                 NEW kind \in {"answered", "hit", "agent", "refused", "error"}
          PROVE  [kind |-> kind, request |-> Request(g, i), response |-> resp, attempts |-> n]
                   \in Predictions
      BY PredictionType
    <3> QED BY <1>1, <3>1, <3>2, <3>3, <3>4, <3>5, <3>6, <3>7, <3>8
  <2>2. PICK p : /\ Current(g, i) /\ Complete(g, i, p) /\ p \in Predictions
                 /\ place[g] \in {"turn", "calling", "agent"}
    BY <2>1
  <2>3. p # NoPrediction
    BY <2>2, PredictionAssumption
  <2> QED BY <2>2, <2>3, SettlingCounts
<1>2. CASE \/ Start(g) \/ PrepareRaises(g) \/ Call(g) \/ PutFails(g) \/ BackOff(g)
           \/ Retry(g) \/ AgentCall(g) \/ Finish(g)
  <2>1. UNCHANGED pred
    BY <1>2 DEF Start, PrepareRaises, Raise, Call, PutFails, BackOff, Retry, AgentCall, Finish
  <2>2. Unsettled(g)' = Unsettled(g)
    BY <2>1 DEF Unsettled, Members
  <2>3. StepsLeft'[g] = Remaining(place'[g], attempts'[g], open)
    BY <2>2 DEF StepsLeft, Remaining, Rounds
  <2>4. StepsLeft[g] = Remaining(place[g], attempts[g], open)
    BY DEF StepsLeft
  <2>5. open \in Nat /\ Rounds \in Nat /\ Rounds = 2 * MaxRetries + 4 /\ MaxRetries \in Nat
    BY UnsettledCounts, EngineAssumption DEF Rounds
  <2>6. attempts[g] \in Nat /\ attempts[g] <= MaxRetries + 1
    BY <2>5 DEF TypeOK
  <2> HIDE DEF open
  <2>7. rest \in Nat /\ rest >= 2 * MaxRetries + 4
    <3>1. Rounds * open \in Nat
      BY <2>5
    <3> QED BY <2>5, <3>1
  <2>8. \/ place[g] = "queued" /\ place'[g] = "turn"
        \/ place[g] \in {"turn", "calling"} /\ place'[g] = "raised"
        \/ place[g] = "turn" /\ place'[g] = "calling" /\ attempts'[g] = 1
        \/ place[g] = "calling" /\ place'[g] = "waiting" /\ attempts'[g] = attempts[g]
        \/ place[g] = "waiting" /\ place'[g] = "calling" /\ attempts'[g] = attempts[g] + 1
        \/ place[g] = "turn" /\ place'[g] = "agent"
        \/ place[g] = "turn" /\ place'[g] = "done"
    BY <1>2 DEF Start, PrepareRaises, Raise, Call, AskModel, PutFails, BackOff, Retry,
                AgentCall, Finish, At, TypeOK
  <2>9. \A where, tries :
          Remaining(where, tries, open) =
            IF where = "queued" THEN rest + 2
            ELSE IF where = "turn" THEN rest + 1
            ELSE IF where = "agent" THEN rest
            ELSE IF where = "calling" THEN rest - 2 * tries
            ELSE IF where = "waiting" THEN rest - 2 * tries - 1
            ELSE 0
    BY DEF Remaining
  <2> HIDE DEF rest
  <2> QED BY <2>3, <2>4, <2>5, <2>6, <2>7, <2>8, <2>9
<1> QED BY <1>1, <1>2 DEF Task

\* A task leaves the predictions of the other conversations alone.
LEMMA OthersPredictions ==
  ASSUME TypeOK, NEW g \in Groups, Task(g), NEW h \in Groups, h # g
  PROVE  \A j \in Members(h) : pred'[j] = pred[j]
<1>1. ASSUME NEW i \in Members(g), NEW p, Complete(g, i, p)
      PROVE  \A j \in Members(h) : pred'[j] = pred[j]
  BY <1>1, NoSampleHasTwoTasks DEF Complete, Members, TypeOK
<1>2. CASE \/ RefuseOverBudget(g) \/ CacheHit(g) \/ Succeed(g) \/ GiveUp(g)
           \/ AgentAnswers(g) \/ AgentFails(g)
  BY <1>1, <1>2 DEF RefuseOverBudget, CacheHit, Succeed, GiveUp, AgentAnswers, AgentFails
<1>3. CASE \/ Start(g) \/ PrepareRaises(g) \/ Call(g) \/ PutFails(g) \/ BackOff(g)
           \/ Retry(g) \/ AgentCall(g) \/ Finish(g)
  BY <1>3 DEF Start, PrepareRaises, Raise, Call, PutFails, BackOff, Retry, AgentCall, Finish
<1> QED BY <1>2, <1>3 DEF Task

\* So the bound on their steps stays as it is.
LEMMA OthersSettle ==
  ASSUME TypeOK, NEW g \in Groups, Task(g), NEW h \in Groups, h # g
  PROVE  StepsLeft'[h] = StepsLeft[h]
<1>1. place'[h] = place[h] /\ attempts'[h] = attempts[h]
  BY OthersStay
<1>2. \A j \in Members(h) : pred'[j] = pred[j]
  BY OthersPredictions
<1>3. Unsettled(h)' = Unsettled(h)
  BY <1>2 DEF Unsettled, Members
<1> QED BY <1>1, <1>3 DEF StepsLeft, Remaining, Rounds

LEMMA RemainingIsInt ==
  ASSUME NEW where, NEW tries \in Nat, NEW open \in Nat
  PROVE  Remaining(where, tries, open) \in Int
<1> DEFINE rest == Rounds * open + Rounds
<1>1. rest \in Int
  BY EngineAssumption DEF Rounds
<1> HIDE DEF rest
<1>2. rest + 2 \in Int /\ rest + 1 \in Int /\ rest - 2 * tries \in Int /\ rest - 2 * tries - 1 \in Int
  BY <1>1
<1> QED BY <1>1, <1>2 DEF Remaining, rest

LEMMA WorkIsNumber ==
  ASSUME TypeOK, WaitersMayRetry
  PROVE  WorkLeft \in Nat
<1>1. Nat \in {Nat, Int}
  OBVIOUS
<1> QED BY <1>1, GroupsFinite, StepsAreNumbers, SumType DEF WorkLeft

\* The bound on what all tasks have before them falls with every step.
LEMMA TaskCounts ==
  ASSUME TypeOK, WaitersMayRetry, (TypeOK /\ WaitersMayRetry)', NEW g \in Groups, Task(g)
  PROVE  WorkLeft' < WorkLeft
<1> DEFINE f == StepsLeft
           h == StepsLeft'
<1>1. \A k \in Groups : f[k] \in Int
  BY StepsAreNumbers
<1>2. \A k \in Groups : h[k] \in Int
  <2>1. ASSUME NEW k \in Groups PROVE h[k] \in Int
    <3>1. Unsettled(k)' \in SUBSET Samples
      BY DEF Unsettled, Members
    <3> DEFINE open == Cardinality(Unsettled(k)')
    <3>2. open \in Nat
      BY <3>1, SetsOfSamples
    <3>3. attempts'[k] \in Nat
      BY EngineAssumption DEF TypeOK
    <3>4. h[k] = Remaining(place'[k], attempts'[k], open)
      BY DEF StepsLeft, Remaining, Rounds
    <3> HIDE DEF open, h
    <3> QED BY <3>2, <3>3, <3>4, RemainingIsInt
  <2> QED BY <2>1
<1>3. h[g] < f[g] /\ \A k \in Groups \ {g} : h[k] = f[k]
  BY OwnStepCounts, OthersSettle
<1>4. WorkLeft = SumFunctionOnSet(f, Groups) /\ WorkLeft' = SumFunctionOnSet(h, Groups)
  BY DEF WorkLeft
<1>5. WorkLeft \in Nat
  BY WorkIsNumber
<1> HIDE DEF f, h
<1>6. SumFunctionOnSet(h, Groups) = SumFunctionOnSet(f, Groups) + (h[g] - f[g])
  BY <1>1, <1>2, <1>3, GroupsFinite, SumChange
<1>7. h[g] \in Int /\ f[g] \in Int
  BY <1>1, <1>2
<1> QED BY <1>3, <1>4, <1>5, <1>6, <1>7

\* A step of a run that goes on.
GoesOn == Alive /\ Alive'

\* Every step of a run that has begun and is not over brings it nearer to its end: the
\* bound, a natural number, falls with each, whatever the providers, the cache and the
\* other conversations do.  So a run of n samples has at most as many steps as WorkLeft
\* at its beginning, and nothing in it can go on for ever: no retry, no turn that is
\* taken again, no waiting for a place.
THEOREM EveryStepCounts ==
  Spec => [](WorkLeft \in Nat) /\ [][GoesOn => WorkLeft' < WorkLeft]_vars
<1>1. TypeOK /\ WaitersMayRetry => WorkLeft \in Nat
  BY WorkIsNumber
<1>2. TypeOK /\ WaitersMayRetry /\ (TypeOK /\ WaitersMayRetry)' /\ [Next]_vars
        => [GoesOn => WorkLeft' < WorkLeft]_vars
  <2> SUFFICES ASSUME TypeOK, WaitersMayRetry, (TypeOK /\ WaitersMayRetry)', Next, GoesOn
               PROVE  WorkLeft' < WorkLeft \/ UNCHANGED vars
    OBVIOUS
  <2>1. ASSUME NEW g \in Groups, Task(g) PROVE WorkLeft' < WorkLeft
    BY <2>1, TaskCounts
  <2>2. ~Begin /\ ~Return /\ ~Kill /\ ~Restart
    BY DEF GoesOn, Alive, Begin, Return, Kill, Restart
  <2> QED BY <2>1, <2>2 DEF Next, Over
<1> QED BY <1>1, <1>2, TypeCorrect, PTL DEF Spec

-----------------------------------------------------------------------------
(* Somebody can go on. *)

\* What a task needs to take a step: its place in the queue and the semaphore (Start), a
\* turn to take (Call, CacheHit, RefuseOverBudget, AgentCall, PrepareRaises) or none left
\* (Finish), or the sample whose answer it is waiting for (GiveUp, Retry, AgentFails).
CanMove(g) ==
  \/ /\ place[g] = "queued"
     /\ \A h \in Groups : h < g => place[h] # "queued"
     /\ Cardinality(Holding) < Width
  \/ place[g] = "turn" /\ (Unsettled(g) = {} \/ \E i \in Members(g) : Current(g, i))
  \/ place[g] \in {"calling", "agent"} /\ \E i \in Members(g) : Current(g, i)
  \/ place[g] = "waiting"

\* A call or an agent is about a turn, and a task that raised has ended the run.
InTurn ==
  /\ \A g \in Groups :
       place[g] \in {"calling", "waiting", "agent"} => \E i \in Members(g) : Current(g, i)
  /\ phase \in {"ready", "running"} => \A g \in Groups : place[g] # "raised"

\* The first turn without a prediction is the one a conversation is at.
LEMMA FirstUnsettled ==
  ASSUME TypeOK, NEW g \in Groups, Unsettled(g) # {}
  PROVE  \E i \in Members(g) : Current(g, i)
<1> DEFINE T == {TurnIndex[i] : i \in Unsettled(g)}
<1>1. \A i \in Unsettled(g) : i \in Nat /\ i \in Input /\ TurnIndex[i] \in Nat
  BY EngineAssumption DEF Unsettled, Members, Samples, Input
<1>2. T \subseteq Nat /\ T # {}
  BY <1>1
<1>3. PICK t \in T : \A u \in T : t <= u
  <2> HIDE DEF T
  <2> QED BY <1>2, LeastOfNaturals
<1> DEFINE F == {i \in Unsettled(g) : TurnIndex[i] = t}
<1>4. F \subseteq Nat /\ F # {}
  BY <1>1, <1>3
<1>5. PICK i \in F : \A k \in F : i <= k
  <2> HIDE DEF F
  <2> QED BY <1>4, LeastOfNaturals
<1>6. i \in Unsettled(g) /\ TurnIndex[i] = t
  BY <1>5
<1>7. ASSUME NEW j \in Members(g), Before(j, i) PROVE pred[j] # NoPrediction
  <2> SUFFICES ASSUME j \in Unsettled(g) PROVE FALSE
    BY DEF Unsettled
  <2>1. t <= TurnIndex[j] /\ (TurnIndex[j] = t => i <= j)
    BY <1>3, <1>5
  <2>2. TurnIndex[j] \in Nat /\ t \in Nat /\ i \in Nat /\ j \in Nat
    BY <1>1, <1>6
  <2> QED BY <1>6, <1>7, <2>1, <2>2 DEF Before
<1> QED BY <1>6, <1>7 DEF Current, Unsettled

LEMMA InTurnTask ==
  ASSUME TypeOK, InTurn, NEW g \in Groups, Task(g)
  PROVE  InTurn'
<1>1. ASSUME NEW h \in Groups, place'[h] \in {"calling", "waiting", "agent"}
      PROVE  \E i \in Members(h) : Current(h, i)'
  <2>1. CASE h # g
    <3>1. place'[h] = place[h]
      BY <2>1, OthersStay
    <3>2. PICK i \in Members(h) : Current(h, i)
      BY <1>1, <3>1 DEF InTurn
    <3>3. \A j \in Members(h) : pred'[j] = pred[j]
      BY <2>1, OthersPredictions
    <3> QED BY <3>2, <3>3 DEF Current, Members
  <2>2. CASE h = g
    <3>1. ~ \/ RefuseOverBudget(g) \/ CacheHit(g) \/ Succeed(g) \/ GiveUp(g)
            \/ AgentAnswers(g) \/ AgentFails(g)
      BY <1>1, <2>2 DEF RefuseOverBudget, CacheHit, Succeed, GiveUp, AgentAnswers, AgentFails,
                        Complete, TypeOK
    <3>2. Call(g) \/ BackOff(g) \/ Retry(g) \/ AgentCall(g)
      BY <1>1, <2>2, <3>1 DEF Task, Start, PrepareRaises, Raise, PutFails, Finish, TypeOK
    <3>3. UNCHANGED pred /\ \E i \in Members(g) : Current(g, i)
      BY <3>2 DEF Call, AskModel, BackOff, Retry, AgentCall, At, InTurn
    <3> QED BY <2>2, <3>3 DEF Current, Members
  <2> QED BY <2>1, <2>2
<1>2. ASSUME phase' \in {"ready", "running"}, NEW h \in Groups PROVE place'[h] # "raised"
  <2>1. ~PrepareRaises(g) /\ ~PutFails(g)
    BY <1>2 DEF PrepareRaises, PutFails, Raise
  <2>2. UNCHANGED phase
    BY <2>1 DEF Task, Start, RefuseOverBudget, CacheHit, Call, Succeed, BackOff, Retry, GiveUp,
                AgentCall, AgentAnswers, AgentFails, Finish
  <2>3. place[h] # "raised"
    BY <1>2, <2>2 DEF InTurn
  <2>4. CASE h # g
    BY <2>3, <2>4, OthersStay
  <2>5. CASE h = g
    BY <2>1, <2>5 DEF Task, Start, RefuseOverBudget, CacheHit, Call, Succeed, BackOff, Retry,
                      GiveUp, AgentCall, AgentAnswers, AgentFails, Finish, Complete, TypeOK
  <2> QED BY <2>4, <2>5
<1> QED BY <1>1, <1>2 DEF InTurn

LEMMA InTurnNext == TypeOK /\ InTurn /\ [Next]_vars => InTurn'
<1> SUFFICES ASSUME TypeOK, InTurn, [Next]_vars PROVE InTurn'
  OBVIOUS
<1>1. ASSUME NEW g \in Groups, Task(g) PROVE InTurn'
  BY <1>1, InTurnTask
<1>2. CASE Restart
  BY <1>2 DEF Restart, InTurn
<1>3. CASE Begin \/ Return \/ Kill \/ UNCHANGED vars
  <2>1. UNCHANGED <<place, pred>> /\ (phase' \in {"ready", "running"} => phase \in {"ready", "running"})
    BY <1>3 DEF Begin, Return, Kill, vars, volatile
  <2> QED BY <2>1 DEF InTurn, Current
<1> QED BY <1>1, <1>2, <1>3 DEF Next, Over

\* No conversation waits for another for ever: in every state of a run that no exception
\* has ended, all conversations are done, and then it returns, or one of them can take a
\* step, whatever the concurrency (0 included), the order of the turns and the retries.
\* With EveryStepCounts this is all that RunSettles needs but fairness.
THEOREM NobodyIsStuck ==
  Spec => [](phase = "running" =>
               (\A g \in Groups : place[g] = "done") \/ \E g \in Groups : CanMove(g))
<1>1. Init => InTurn
  BY DEF Init, Fresh, InTurn
<1>2. TypeOK /\ InTurn =>
        (phase = "running" =>
           (\A g \in Groups : place[g] = "done") \/ \E g \in Groups : CanMove(g))
  <2> SUFFICES ASSUME TypeOK, InTurn, phase = "running",
                      NEW g \in Groups, place[g] # "done"
               PROVE  \E k \in Groups : CanMove(k)
    OBVIOUS
  <2>1. \A h \in Groups : place[h] \in {"queued", "turn", "calling", "waiting", "agent", "done"}
    BY DEF TypeOK, InTurn
  <2>2. ASSUME NEW h \in Holding PROVE CanMove(h)
    <3>1. h \in Groups /\ place[h] \in {"turn", "calling", "waiting", "agent"}
      BY DEF Holding
    <3>2. CASE place[h] = "turn"
      BY <3>1, <3>2, FirstUnsettled DEF CanMove
    <3>3. CASE place[h] \in {"calling", "waiting", "agent"}
      BY <3>1, <3>3 DEF CanMove, InTurn
    <3> QED BY <3>1, <3>2, <3>3
  <2>3. CASE Holding # {}
    BY <2>2, <2>3 DEF Holding
  <2>4. CASE Holding = {}
    <3> DEFINE Q == {h \in Groups : place[h] = "queued"}
    <3>1. Q \subseteq Nat /\ Q # {}
      <4>1. Groups \subseteq Nat
        BY EngineAssumption DEF Groups, Samples, Input
      <4>2. g \in Q
        BY <2>1, <2>4 DEF Holding
      <4> QED BY <4>1, <4>2
    <3>2. PICK q \in Q : \A k \in Q : q <= k
      <4> HIDE DEF Q
      <4> QED BY <3>1, LeastOfNaturals
    <3>3. \A h \in Groups : h < q => place[h] # "queued"
      <4>1. \A h \in Groups : h \in Nat
        BY EngineAssumption DEF Groups, Samples, Input
      <4> QED BY <3>2, <4>1
    <3>4. Cardinality(Holding) < Width
      <4>1. Cardinality(Holding) = 0
        BY <2>4, FS_EmptySet
      <4> QED BY <4>1, WidthType
    <3> QED BY <3>2, <3>3, <3>4 DEF CanMove
  <2> QED BY <2>3, <2>4
<1> QED BY <1>1, <1>2, InTurnNext, TypeCorrect, PTL DEF Spec
=============================================================================
