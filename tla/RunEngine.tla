------------------------------ MODULE RunEngine ------------------------------
(***************************************************************************)
(* financebench.execution.engine.RunEngine: one process that runs a list   *)
(* of samples against a model, several conversations at a time, through    *)
(* the response cache, with retries and a spending cap; and the sequence   *)
(* of such processes (first `eval`, then `resume`s) that share the cache.  *)
(*                                                                         *)
(* asyncio runs one task at a time and switches only at an await that      *)
(* suspends.  An action here is the code between two points where another  *)
(* conversation may run; where the code goes on without suspending (the    *)
(* next turn after a completed one) the model allows a switch as well, so  *)
(* it has every behaviour of the code and a few interleavings more.        *)
(***************************************************************************)
EXTENDS Integers, Sequences, FiniteSets, FiniteSetsExt

CONSTANTS
  NInput,         \* how many samples the caller passes, in input order
  Limit,          \* config.limit; 0 when it is None
  Conversation,   \* [1..NInput -> conversation of the sample, or NoConversation]
  TurnIndex,      \* [1..NInput -> its turn_index]
  Slots,          \* [1..NInput -> assistant turns in its gold history]
  Protocol,       \* "gold_history" or "model_history"
  Concurrency,    \* config.concurrency
  MaxRetries,     \* config.max_retries
  MaxToolTurns,   \* tools/agent.py MAX_TOOL_TURNS
  Budget,         \* max_cost_usd, or NoBudget
  ToolAssisted,   \* whether eval_mode is tool_assisted
  RetrievalFails, \* whether preparing a request may raise (ctx.retrieve)
  Contents,       \* what a provider may answer
  TextOf,         \* [Contents -> the text model_answer_text makes of it]
  Costs,          \* estimated_cost_usd of a response: numbers and Unpriced
  MaxCost,        \* the largest cost of one response
  CacheModes,     \* the cache modes a process may be started with
  MaxSessions,    \* bound: how many processes are started in all
  NoConversation, NoBudget, NoContent, Unpriced, NoPrediction,
  Gold,           \* the text of a gold prior answer
  NoAnswer        \* "(no answer)", what a failed turn contributes

Input == 1..NInput
Texts == {TextOf[c] : c \in Contents} \cup {Gold, NoAnswer}

ASSUME EngineAssumption ==
  /\ NInput \in Nat
  /\ Limit \in Nat
  /\ TurnIndex \in [Input -> Nat]
  /\ Slots \in [Input -> Nat]
  /\ Protocol \in {"gold_history", "model_history"}
  /\ Concurrency \in Nat
  /\ MaxRetries \in Nat
  /\ MaxToolTurns \in Nat \ {0}
  /\ ToolAssisted \in BOOLEAN
  /\ RetrievalFails \in BOOLEAN
  /\ Budget \in Nat \cup {NoBudget}
  /\ NoBudget \notin Nat
  /\ MaxCost \in Nat \ {0}
  /\ Unpriced \notin Nat
  /\ Costs \subseteq (0..MaxCost) \cup {Unpriced}
  /\ NoContent \notin Contents
  /\ CacheModes \subseteq {"read_write", "read_only", "refresh", "off"}
  /\ MaxSessions \in Nat \ {0}

VARIABLES
  phase,      \* where the process is in RunEngine.run
  session,    \* which process this is
  mode,       \* cache.mode of this process
  place,      \* where each conversation's task is
  attempts,   \* calls made so far for the task's current request
  pred,       \* the prediction of each sample, once there is one
  spoken,     \* the answers a conversation has heard from this model
  spend,      \* ctx.total_cost
  priced,     \* ctx.priced_any
  exceeded,   \* ctx.budget_exceeded
  cache,      \* the entries on disk; they outlive the process
  delivered   \* history: every answer a provider gave, and what became of it

volatile == <<place, attempts, pred, spoken, spend, priced, exceeded>>
vars == <<phase, session, mode, volatile, cache, delivered>>

-----------------------------------------------------------------------------
(* The plan of a run: samples, conversations, turn order. *)

Samples == {i \in Input : Limit = 0 \/ i <= Limit}

SameConversation(i, j) ==
  \/ i = j
  \/ Conversation[i] # NoConversation /\ Conversation[i] = Conversation[j]

Members(g) == {i \in Samples : SameConversation(g, i)}

\* A conversation is named by the first of its samples in input order.
Groups == {g \in Samples : \A i \in Members(g) : g <= i}

\* group.sort(key=turn_index): stable, so ties keep the input order.
Before(i, j) ==
  TurnIndex[i] < TurnIndex[j] \/ (TurnIndex[i] = TurnIndex[j] /\ i < j)

Head1(g) == CHOOSE i \in Members(g) : \A j \in Members(g) : ~Before(j, i)

Chaining == Protocol = "model_history"

Valid == Chaining => \A g \in Groups : Slots[Head1(g)] = 0

Width == IF Concurrency = 0 THEN 1 ELSE Concurrency

-----------------------------------------------------------------------------
(* Requests, responses, predictions, cache entries. *)

Requests == [sample : Input, history : Seq(Texts)]
Responses == [content : Contents, cost : Costs]
NoResponse == [content |-> NoContent, cost |-> Unpriced]

Predictions ==
  [kind : {"answered", "hit", "agent", "refused", "error"}, request : Requests,
   response : Responses \cup {NoResponse}, attempts : Nat]

ASSUME PredictionAssumption == NoPrediction \notin Predictions

Entries == [request : Requests, response : Responses]
Deliveries ==
  [request : Requests, response : Responses, session : Nat, stored : BOOLEAN]

Price(r) == IF r.cost = Unpriced THEN 0 ELSE r.cost

\* model_answer_text: a failed turn speaks too, as an explicit marker.
Said(p) == IF p.response = NoResponse THEN NoAnswer ELSE TextOf[p.response.content]

\* Mutant of Request: the gold history is kept under model_history.
GoldRequest(g, i) == [sample |-> i, history |-> [k \in 1..Slots[i] |-> Gold]]

\* with_model_history, then build_request.  A sample without history is sent as it is.
Request(g, i) ==
  [sample |-> i,
   history |-> IF Chaining /\ Slots[i] > 0 THEN spoken[g] ELSE [k \in 1..Slots[i] |-> Gold]]

\* The turn the task of g is at: its first one without a prediction.
Current(g, i) ==
  /\ i \in Members(g)
  /\ pred[i] = NoPrediction
  /\ \A j \in Members(g) : Before(j, i) => pred[j] # NoPrediction

ChainBroken(g, i) == Chaining /\ Slots[i] > 0 /\ Slots[i] # Len(spoken[g])

\* Mutant of ReadsCache: a resume does not read back what it wrote.
ReadsCacheOnly == mode = "read_only"

ReadsCache == mode \in {"read_write", "read_only"}
WritesCache == mode \in {"read_write", "refresh"}

\* Mutant of Cached: the key leaves the conversation so far out.
CachedBySample(r) == {e \in cache : e.request.sample = r.sample}

Cached(r) == {e \in cache : e.request = r}

\* Mutant of OverBudget: the cap is compared the wrong way round at its boundary.
OverBudgetStrictly == Budget # NoBudget /\ spend > Budget

OverBudget == Budget # NoBudget /\ spend >= Budget

\* The tasks that hold the semaphore, and those with a request at the provider.
Holding == {g \in Groups : place[g] \in {"turn", "calling", "waiting", "agent"}}
InFlight == {g \in Groups : place[g] \in {"calling", "waiting"}}

Alive == phase \in {"running", "aborting"}

-----------------------------------------------------------------------------
Fresh ==
  /\ place = [g \in Groups |-> "queued"]
  /\ attempts = [g \in Groups |-> 0]
  /\ pred = [i \in Samples |-> NoPrediction]
  /\ spoken = [g \in Groups |-> <<>>]
  /\ spend = 0
  /\ priced = FALSE
  /\ exceeded = FALSE

Init ==
  /\ phase = "ready"
  /\ session = 1
  /\ mode \in CacheModes
  /\ Fresh
  /\ cache = {}
  /\ delivered = {}

\* run(): validate_conversations may refuse the run; else the tasks are created.
Begin ==
  /\ phase = "ready"
  /\ phase' = IF Valid THEN "running" ELSE "rejected"
  /\ UNCHANGED <<session, mode, volatile, cache, delivered>>

\* guarded(): the semaphore wakes its waiters in the order they arrived.
Start(g) ==
  /\ Alive
  /\ place[g] = "queued"
  /\ \A h \in Groups : h < g => place[h] # "queued"
  /\ Cardinality(Holding) < Width
  /\ place' = [place EXCEPT ![g] = "turn"]
  /\ UNCHANGED <<phase, session, mode, attempts, pred, spoken, spend, priced,
                 exceeded, cache, delivered>>

At(g, i, where) == Alive /\ place[g] = where /\ Current(g, i)

\* Append the prediction, feed the answer forward, go on to the next turn.
Complete(g, i, p) ==
  /\ pred' = [pred EXCEPT ![i] = p]
  /\ spoken' = IF Chaining THEN [spoken EXCEPT ![g] = Append(@, Said(p))] ELSE spoken
  /\ place' = [place EXCEPT ![g] = "turn"]
  /\ attempts' = [attempts EXCEPT ![g] = 0]

\* An exception leaves the task: gather propagates it, the other tasks go on.
Raise(g) ==
  /\ place' = [place EXCEPT ![g] = "raised"]
  /\ phase' = "aborting"
  /\ UNCHANGED <<attempts, pred, spoken>>

\* Mutant of RecordCost: the last price replaces the total.
RecordLastCost(r) == spend' = Price(r) /\ priced' = (r.cost # Unpriced)

RecordCost(r) ==
  /\ spend' = spend + Price(r)
  /\ priced' = (priced \/ r.cost # Unpriced)

\* with_model_history raises ConfigError, or the retrieval callback raises.
PrepareRaises(g) ==
  \E i \in Members(g) :
    /\ At(g, i, "turn")
    /\ ChainBroken(g, i) \/ (RetrievalFails /\ ~ToolAssisted)
    /\ Raise(g)
    /\ UNCHANGED <<session, mode, spend, priced, exceeded, cache, delivered>>

AskModel(g, i) == At(g, i, "turn") /\ ~ToolAssisted /\ ~ChainBroken(g, i)

\* The budget guard: it comes before the cache is looked at.
RefuseOverBudget(g) ==
  \E i \in Members(g) :
    /\ AskModel(g, i)
    /\ OverBudget
    /\ exceeded' = TRUE
    /\ Complete(g, i, [kind |-> "refused", request |-> Request(g, i),
                       response |-> NoResponse, attempts |-> 0])
    /\ UNCHANGED <<phase, session, mode, spend, priced, cache, delivered>>

\* A hit is re-parsed from its content and its cost counts towards the cap.
CacheHit(g) ==
  \E i \in Members(g) :
    /\ AskModel(g, i)
    /\ ~OverBudget
    /\ ReadsCache
    /\ \E e \in Cached(Request(g, i)) :
         /\ RecordCost(e.response)
         /\ Complete(g, i, [kind |-> "hit", request |-> Request(g, i),
                            response |-> e.response, attempts |-> 0])
    /\ UNCHANGED <<phase, session, mode, exceeded, cache, delivered>>

\* The first call for a request that is not in the cache.
Call(g) ==
  \E i \in Members(g) :
    /\ AskModel(g, i)
    /\ ~OverBudget
    /\ ~(ReadsCache /\ Cached(Request(g, i)) # {})
    /\ place' = [place EXCEPT ![g] = "calling"]
    /\ attempts' = [attempts EXCEPT ![g] = 1]
    /\ UNCHANGED <<phase, session, mode, pred, spoken, spend, priced, exceeded,
                   cache, delivered>>

-----------------------------------------------------------------------------
(* The provider answers, or does not. *)

Store(r, resp) ==
  cache' = {e \in cache : e.request # r} \cup {[request |-> r, response |-> resp]}

Deliver(r, resp, stored) ==
  delivered' = delivered \cup
    {[request |-> r, response |-> resp, session |-> session, stored |-> stored]}

\* The answer is paid for, cached (unless the mode forbids it) and predicted.
Succeed(g) ==
  \E i \in Members(g), resp \in Responses :
    LET r == Request(g, i) IN
    /\ At(g, i, "calling")
    /\ RecordCost(resp)
    /\ Deliver(r, resp, WritesCache)
    /\ IF WritesCache THEN Store(r, resp) ELSE UNCHANGED cache
    /\ Complete(g, i, [kind |-> "answered", request |-> r, response |-> resp,
                       attempts |-> attempts[g]])
    /\ UNCHANGED <<phase, session, mode, exceeded>>

\* cache.put is not guarded: an OSError there ends the run, with the answer paid for.
PutFails(g) ==
  \E i \in Members(g), resp \in Responses :
    /\ At(g, i, "calling")
    /\ WritesCache
    /\ RecordCost(resp)
    /\ Deliver(Request(g, i), resp, FALSE)
    /\ Raise(g)
    /\ UNCHANGED <<session, mode, exceeded, cache>>

\* Mutant of MayRetry: one attempt more than max_retries allows.
RetryOnceMore(g) == attempts[g] <= MaxRetries + 1

MayRetry(g) == attempts[g] <= MaxRetries

\* A retryable ProviderError within the retries and the deadline: back off.
BackOff(g) ==
  /\ Alive
  /\ place[g] = "calling"
  /\ MayRetry(g)
  /\ place' = [place EXCEPT ![g] = "waiting"]
  /\ UNCHANGED <<phase, session, mode, attempts, pred, spoken, spend, priced,
                 exceeded, cache, delivered>>

\* Mutant of Retry: the attempt is not counted.
RetryUncounted(g) ==
  /\ Alive
  /\ place[g] = "waiting"
  /\ place' = [place EXCEPT ![g] = "calling"]
  /\ UNCHANGED <<phase, session, mode, attempts, pred, spoken, spend, priced,
                 exceeded, cache, delivered>>

\* The sleep ends and the request is sent again; nothing is re-checked.
Retry(g) ==
  /\ Alive
  /\ place[g] = "waiting"
  /\ place' = [place EXCEPT ![g] = "calling"]
  /\ attempts' = [attempts EXCEPT ![g] = @ + 1]
  /\ UNCHANGED <<phase, session, mode, pred, spoken, spend, priced, exceeded,
                 cache, delivered>>

\* Not retryable, out of retries, past the deadline, or not a ProviderError at all.
GiveUp(g) ==
  \E i \in Members(g) :
    /\ At(g, i, "calling")
    /\ Complete(g, i, [kind |-> "error", request |-> Request(g, i),
                       response |-> NoResponse, attempts |-> attempts[g]])
    /\ UNCHANGED <<phase, session, mode, spend, priced, exceeded, cache, delivered>>


-----------------------------------------------------------------------------
(* tool_assisted: the agent loop, uncached, unretried, one prediction. *)

AgentCall(g) ==
  \E i \in Members(g) :
    /\ At(g, i, "turn") /\ ToolAssisted /\ ~ChainBroken(g, i)
    /\ place' = [place EXCEPT ![g] = "agent"]
    /\ UNCHANGED <<phase, session, mode, attempts, pred, spoken, spend, priced,
                   exceeded, cache, delivered>>

\* Only the last response of the loop is recorded.
AgentAnswers(g) ==
  \E i \in Members(g), resp \in Responses, turns \in 0..MaxToolTurns :
    /\ At(g, i, "agent")
    /\ RecordCost(resp)
    /\ Deliver(Request(g, i), resp, FALSE)
    /\ Complete(g, i, [kind |-> "agent", request |-> Request(g, i), response |-> resp,
                       attempts |-> turns + 1])
    /\ UNCHANGED <<phase, session, mode, exceeded, cache>>

\* Mutant of AgentFails: an agent that fails says nothing to the conversation.
AgentFailsSilently(g) ==
  \E i \in Members(g) :
    /\ At(g, i, "agent")
    /\ pred' = [pred EXCEPT ![i] =
         [kind |-> "error", request |-> Request(g, i), response |-> NoResponse, attempts |-> 1]]
    /\ place' = [place EXCEPT ![g] = "turn"]
    /\ UNCHANGED <<phase, session, mode, attempts, spoken, spend, priced, exceeded, cache,
                   delivered>>

\* A provider's error or any exception out of the agent's loop: a prediction all the same.
AgentFails(g) ==
  \E i \in Members(g) :
    /\ At(g, i, "agent")
    /\ Complete(g, i, [kind |-> "error", request |-> Request(g, i),
                       response |-> NoResponse, attempts |-> 1])
    /\ UNCHANGED <<phase, session, mode, spend, priced, exceeded, cache, delivered>>

-----------------------------------------------------------------------------
\* The conversation is over: the task ends and the semaphore is released.
Finish(g) ==
  /\ Alive
  /\ place[g] = "turn"
  /\ \A i \in Members(g) : pred[i] # NoPrediction
  /\ place' = [place EXCEPT ![g] = "done"]
  /\ UNCHANGED <<phase, session, mode, attempts, pred, spoken, spend, priced,
                 exceeded, cache, delivered>>

\* Mutant of Return: a conversation that raised does not keep the run from returning.
ReturnWhatThereIs ==
  /\ Alive
  /\ \A g \in Groups : place[g] \in {"done", "raised"}
  /\ phase' = "returned"
  /\ UNCHANGED <<session, mode, volatile, cache, delivered>>

\* gather is complete: the predictions go back in input order.
Return ==
  /\ phase = "running"
  /\ \A g \in Groups : place[g] = "done"
  /\ phase' = "returned"
  /\ UNCHANGED <<session, mode, volatile, cache, delivered>>

\* The process is killed, or exits with the exception one of its tasks raised.
Kill ==
  /\ Alive
  /\ phase' = "dead"
  /\ UNCHANGED <<session, mode, volatile, cache, delivered>>

\* The run is started again: nothing but the cache directory is left of it.
Restart ==
  /\ phase \in {"returned", "dead"}
  /\ session < MaxSessions
  /\ session' = session + 1
  /\ mode' \in CacheModes
  /\ phase' = "ready"
  /\ place' = [g \in Groups |-> "queued"]
  /\ attempts' = [g \in Groups |-> 0]
  /\ pred' = [i \in Samples |-> NoPrediction]
  /\ spoken' = [g \in Groups |-> <<>>]
  /\ spend' = 0
  /\ priced' = FALSE
  /\ exceeded' = FALSE
  /\ UNCHANGED <<cache, delivered>>

Over ==
  /\ phase = "rejected" \/ (phase \in {"returned", "dead"} /\ session = MaxSessions)
  /\ UNCHANGED vars

Task(g) ==
  \/ Start(g) \/ PrepareRaises(g) \/ RefuseOverBudget(g) \/ CacheHit(g) \/ Call(g)
  \/ Succeed(g) \/ PutFails(g) \/ BackOff(g) \/ Retry(g) \/ GiveUp(g)
  \/ AgentCall(g) \/ AgentAnswers(g) \/ AgentFails(g) \/ Finish(g)

Next ==
  \/ Begin \/ Return \/ Kill \/ Restart \/ Over
  \/ \E g \in Groups : Task(g)

Spec == Init /\ [][Next]_vars

\* The event loop runs every ready task; a provider call ends (with an answer or a
\* timeout), a sleep ends, and an aborted process exits.
Fairness ==
  /\ WF_vars(Begin) /\ WF_vars(Return) /\ WF_vars(phase = "aborting" /\ Kill)
  /\ \A g \in Samples : WF_vars(g \in Groups /\ Task(g))

FairSpec == Spec /\ Fairness

-----------------------------------------------------------------------------
(* Properties. *)

TypeOK ==
  /\ phase \in {"ready", "running", "rejected", "aborting", "returned", "dead"}
  /\ session \in 1..MaxSessions
  /\ mode \in CacheModes
  /\ place \in [Groups -> {"queued", "turn", "calling", "waiting", "agent", "done", "raised"}]
  /\ attempts \in [Groups -> 0..(MaxRetries + 1)]
  /\ pred \in [Samples -> Predictions \cup {NoPrediction}]
  /\ spoken \in [Groups -> Seq(Texts)]
  /\ spend \in Nat
  /\ priced \in BOOLEAN
  /\ exceeded \in BOOLEAN
  /\ cache \subseteq Entries
  /\ delivered \subseteq Deliveries

\* "In-flight calls may overshoot by at most the concurrency width" (engine.py:462):
\* the spend a run records stays below the cap plus one response per running task.
OvershootBounded == Budget # NoBudget => spend < Budget + Width * MaxCost

\* Whatever answer a prediction or a cache entry carries, a provider gave it to exactly
\* that request: no failed call is cached, and no answer moves to another sample or to
\* another conversation so far.
AnswersAreGenuine ==
  /\ \A e \in cache :
       \E d \in delivered : d.request = e.request /\ d.response = e.response
  /\ \A i \in Samples :
       pred[i] # NoPrediction /\ pred[i].response # NoResponse =>
         /\ pred[i].request.sample = i
         /\ \E d \in delivered :
              d.request = pred[i].request /\ d.response = pred[i].response

\* "Cache is resume": a process that reads the cache never pays for an answer that is
\* already on disk, whatever was killed or failed in between.
PaysForTheUnsaved ==
  mode \in {"read_write", "read_only"} =>
    \A d \in delivered' \ delivered : \A e \in cache : e.request # d.request

NeverPaidTwice == [][PaysForTheUnsaved]_vars

\* The cost a returned run reports is the price of the answers it returns, cache hits
\* included ("a run describes what it took to produce its answers"), and it is None
\* exactly when none of them was priced. An agent's answer is its last response; what its
\* turns before took is in no total (CostIsOfTheConversations in ToolAgent).
CostIsAccounted ==
  phase = "returned" =>
    LET answered == {i \in Samples : pred[i].response # NoResponse} IN
    /\ spend = SumFunction([i \in answered |-> Price(pred[i].response)])
    /\ priced <=> \E i \in answered : pred[i].response.cost # Unpriced

EarlierTurns(i) ==
  {j \in Samples : SameConversation(i, j) /\ TurnIndex[j] < TurnIndex[i]}

\* Under model_history the conversation so far that a turn is shown consists of what
\* this model said at the earlier turns, in turn order, failures as "(no answer)";
\* the gold answers are never among it.
HistoryIsOwnWords ==
  Chaining =>
    \A i \in Samples : pred[i] # NoPrediction /\ Slots[i] > 0 =>
      LET shown == pred[i].request.history IN
      /\ Len(shown) = Cardinality(EarlierTurns(i))
      /\ \A j \in EarlierTurns(i) :
           /\ pred[j] # NoPrediction
           /\ shown[Cardinality(EarlierTurns(j)) + 1] = Said(pred[j])

\* "validate_conversations rules this out up front" (engine.py:202): once a run has
\* begun, no turn finds its conversation so far incomplete.
ChainHoldsOnceBegun ==
  Alive => \A g \in Groups, i \in Samples :
    place[g] = "turn" /\ Current(g, i) => ~ChainBroken(g, i)

\* A conversation whose turns are all in the run never breaks, whichever of them fail, are
\* cut off or answer nothing: the next one always finds a word for each (engine.py:401-402).
WholeConversation(g) ==
  \A i \in Members(g) : Slots[i] = Cardinality({j \in Members(g) : Before(j, i)})

WholeChainHolds ==
  Chaining /\ Alive => \A g \in Groups : WholeConversation(g) =>
    \A i \in Members(g) : place[g] = "turn" /\ Current(g, i) => ~ChainBroken(g, i)

\* "Samples whose request hash is already cached resolve instantly with zero network
\* calls" (docs/reproducibility.md:23): a process that reads the cache leaves no sample
\* unanswered whose answer is there.
CachedSampleIsServed ==
  mode \in {"read_write", "read_only"} =>
    \A i \in Samples : pred[i] # NoPrediction =>
      (pred[i].kind = "refused" => Cached(pred[i].request) = {})

\* A run that begins ends: it returns every prediction, or the process dies.
RunSettles == (phase = "running") ~> (phase \in {"returned", "dead"})

EarlierTurn(j, i) == SameConversation(i, j) /\ TurnIndex[j] < TurnIndex[i]

Outcome(p) ==
  CASE p = NoPrediction -> "pending"
    [] p # NoPrediction /\ p.response = NoResponse -> "failed"
    [] OTHER -> "answered"

Promise == INSTANCE EvaluationPromise WITH
  Precedes <- EarlierTurn,
  outcome <- [i \in Samples |-> Outcome(pred[i])],
  saved <- {e.request.sample : e \in cache}

\* The engine keeps its promise: every sample settles once and in turn order, a run
\* returns all of its predictions or none, a saved answer stays saved.
KeepsPromise == Promise!Spec
=============================================================================
