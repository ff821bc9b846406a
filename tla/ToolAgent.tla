------------------------------- MODULE ToolAgent -------------------------------
(***************************************************************************)
(* A tool run: the model and the tools talk for up to MaxTurns turns about *)
(* each sample, the trace of it goes to the table of the process and to    *)
(* tool_traces.jsonl, and eight metrics are read off it, at once or by a   *)
(* later rescore.  What a call ends in is Execute: FinanceTools gives it.  *)
(*                                                                         *)
(* Between two answers of the provider the loop does not await, so one     *)
(* action takes a reply, runs the tool it asks for and sends the result.   *)
(***************************************************************************)
EXTENDS Integers, Sequences, FiniteSets, Functions

CONSTANTS
  Samples,
  MaxTurns,       \* MAX_TOOL_TURNS, 6 in the code
  Replies,        \* what the model may say about a sample: [call, numbers, tokens]
  NoCall,         \* the call of a reply that asks for no tool
  Execute(_, _),  \* what a call ends in, on the context of a sample
  None,           \* no trace
  MaxCommands     \* bound on the commands issued

Kinds ==
  {"ok", "no_such_tool", "bad_arguments", "not_found", "arithmetic", "security_refused", "crash"}
Outcomes == [kind : Kinds, numbers : SUBSET Int]

ASSUME AgentAssumption ==
  /\ IsFiniteSet(Samples)
  /\ MaxTurns \in Nat \ {0}
  /\ MaxCommands \in Nat
  /\ \A s \in Samples : \A r \in Replies[s] :
       /\ r.numbers \subseteq Int /\ r.tokens \in Nat
       /\ r.call # NoCall => Execute(r.call, s) \in Outcomes

VARIABLES
  command, stage, commands,  \* the command under way, how far it is, how many there were
  messages,     \* the turns of each sample's conversation so far
  calls,        \* its tool calls, as recorded
  tokens,       \* summed over its turns
  table,        \* TOOL_TRACES, global to the process
  traces,       \* the traces of the command under way
  predictions,
  grades,
  disk, whole   \* the run's directory, and whether its last command finished

agent == <<messages, calls, tokens>>
vars == <<command, stage, commands, agent, table, traces, predictions, grades, disk, whole>>

-----------------------------------------------------------------------------
(* Records, traces and what is read off them. *)

Record(turn, kind) ==
  [turn |-> turn, exists |-> kind # "no_such_tool", valid |-> kind # "bad_arguments",
   executed |-> kind = "ok", refused |-> kind = "security_refused"]

Records ==
  {r \in [turn : 0..(MaxTurns - 1), exists : BOOLEAN, valid : BOOLEAN, executed : BOOLEAN,
          refused : BOOLEAN] :
     r.executed => r.exists /\ r.valid /\ ~r.refused}
AllReplies == UNION {Replies[s] : s \in Samples}
Turns == [said : {r \in AllReplies : r.call # NoCall}, told : Outcomes]
Traces == [calls : Seq(Records), turns : Nat, used : BOOLEAN, tokens : Nat]

ASSUME NoneAssumption == None \notin Traces

Predictions ==
  [got : {"nothing", "error"}] \cup [got : {"answer"}, reply : AllReplies, attempts : Nat]

Magnitude(n) == IF n < 0 THEN -n ELSE n

\* Within two per cent of what the tool produced, or of one.
Near(stated, produced) ==
  LET scale == IF Magnitude(produced) > 1 THEN Magnitude(produced) ELSE 1
  IN 50 * Magnitude(produced - stated) <= scale

ResultWasUsed(told, numbers) ==
  \E n \in numbers, k \in DOMAIN told : \E p \in told[k].told.numbers : Near(n, p)

\* The eight tool metrics of a trace: "na" where there is nothing to grade.
Verdict(ok) == IF ok THEN "pass" ELSE "fail"
If(applicable, ok) == IF applicable THEN Verdict(ok) ELSE "na"

Real(C) == {c \in C : c.exists}
Ran(C) == {c \in C : c.executed}
First(C) == CHOOSE c \in C : \A d \in C : c.turn <= d.turn

Selection(C) == Verdict(Real(C) # {})
Execution(C) == If(C # {}, Ran(C) # {})
Utilization(C, used) == If(Ran(C) # {}, used)
Security(C) == Verdict(\A c \in C : ~c.refused)
Invocation(C) == Verdict(C # {})
Validity(C) == If(Real(C) # {}, \A c \in Real(C) : c.valid)
Hallucination(C) == If(C # {}, Real(C) = C)

\* Mutant of Recovery: a call before the failure counts as well.
RecoveryAnyOrder(C) == If(C # Ran(C), Real(C) # {})

\* Some call after the first that failed did run.
Recovery(C) == If(C # Ran(C), \E c \in Ran(C) : c.turn > First(C \ Ran(C)).turn)

Metrics(t) ==
  LET C == {t.calls[k] : k \in DOMAIN t.calls} IN
  [selection |-> Selection(C), execution |-> Execution(C),
   utilization |-> Utilization(C, t.used), security |-> Security(C),
   invocation |-> Invocation(C), validity |-> Validity(C),
   hallucination |-> Hallucination(C), recovery |-> Recovery(C)]

Grade == {"na", "pass", "fail"}
Grades ==
  [selection : Grade, execution : Grade, utilization : Grade, security : Grade,
   invocation : Grade, validity : Grade, hallucination : Grade, recovery : Grade]
NotApplicable ==
  [selection |-> "na", execution |-> "na", utilization |-> "na", security |-> "na",
   invocation |-> "na", validity |-> "na", hallucination |-> "na", recovery |-> "na"]

\* Mutant of ScoreOrExcuse: metrics are asked about every sample.
ScoreAlways(p, t) == IF t = None THEN NotApplicable ELSE Metrics(t)

\* A sample the provider never answered is not graded, whatever the table holds.
ScoreOrExcuse(p, t) ==
  IF p.got # "answer" \/ t = None THEN NotApplicable ELSE Metrics(t)

-----------------------------------------------------------------------------
(* The loop of run_agent, and what the engine makes of its end. *)

Nothing == [got |-> "nothing"]
\* Mutant of Asking: a sample that is finished keeps its place among those in flight.
AskingAlone(s) ==
  stage = "asking" /\ \A t \in Samples : predictions[t] = Nothing

Asking(s) == stage = "asking" /\ predictions[s] = Nothing

\* Mutant of Return: only the tokens of the last response are known.
ReturnLastTokens(s, reply, newMessages, newCalls) ==
  LET t == [calls |-> newCalls, turns |-> Len(newCalls),
            used |-> ResultWasUsed(newMessages, reply.numbers), tokens |-> reply.tokens]
  IN /\ table' = [table EXCEPT ![s] = t]
     /\ traces' = [traces EXCEPT ![s] = t]
     /\ predictions' = [predictions EXCEPT ![s] =
          [got |-> "answer", reply |-> reply, attempts |-> t.turns + 1]]

\* The agent returns: a trace for the table and the run, and a prediction.
Return(s, reply, newMessages, newCalls) ==
  LET t == [calls |-> newCalls, turns |-> Len(newCalls),
            used |-> ResultWasUsed(newMessages, reply.numbers),
            tokens |-> tokens[s] + reply.tokens]
  IN /\ table' = [table EXCEPT ![s] = t]
     /\ traces' = [traces EXCEPT ![s] = t]
     /\ predictions' = [predictions EXCEPT ![s] =
          [got |-> "answer", reply |-> reply, attempts |-> t.turns + 1]]

Fail(s) ==
  /\ predictions' = [predictions EXCEPT ![s] = [got |-> "error"]]
  /\ UNCHANGED <<table, traces>>

\* The tokens the run reports: _record_cost is given the last response of each agent.
RunTokens ==
  LET answered == {s \in Samples : predictions[s].got = "answer"}
  IN SumFunction([s \in answered |-> predictions[s].reply.tokens])

ToolSays(s, call) == Execute(call, s)

\* Any JSON object with the key "tool" in the text is a call, whatever it answers beside it.
Asks(reply) == reply.call # NoCall

\* Mutant of TakeTurn: only calls that ran are recorded.
TakeTurnIfItRan(s, reply) ==
  LET told == ToolSays(s, reply.call)
      newMessages == Append(messages[s], [said |-> reply, told |-> told])
      newCalls == IF told.kind = "ok" THEN Append(calls[s], Record(Len(calls[s]), told.kind))
                  ELSE calls[s]
  IN /\ messages' = [messages EXCEPT ![s] = newMessages]
     /\ calls' = [calls EXCEPT ![s] = newCalls]
     /\ tokens' = [tokens EXCEPT ![s] = @ + reply.tokens]
     /\ IF Len(newMessages) = MaxTurns THEN Return(s, reply, newMessages, newCalls)
        ELSE UNCHANGED <<table, traces, predictions>>

\* A turn with a tool call; the last turn allowed returns the call as the answer.
TakeTurn(s, reply) ==
  LET told == ToolSays(s, reply.call)
      newMessages == Append(messages[s], [said |-> reply, told |-> told])
      newCalls == Append(calls[s], Record(Len(calls[s]), told.kind))
  IN /\ messages' = [messages EXCEPT ![s] = newMessages]
     /\ calls' = [calls EXCEPT ![s] = newCalls]
     /\ tokens' = [tokens EXCEPT ![s] = @ + reply.tokens]
     /\ IF Len(newCalls) = MaxTurns THEN Return(s, reply, newMessages, newCalls)
        ELSE UNCHANGED <<table, traces, predictions>>

CallsTool(s, reply) ==
  /\ Asking(s)
  /\ Asks(reply)
  /\ ToolSays(s, reply.call).kind # "crash"
  /\ TakeTurn(s, reply)
  /\ UNCHANGED <<command, stage, commands, grades, disk, whole>>

\* An exception that is no ToolExecutionError leaves the loop, and its trace is lost.
ToolCrashes(s, reply) ==
  /\ Asking(s)
  /\ Asks(reply)
  /\ ToolSays(s, reply.call).kind = "crash"
  /\ Fail(s)
  /\ UNCHANGED <<command, stage, commands, agent, grades, disk, whole>>

Answers(s, reply) ==
  /\ Asking(s)
  /\ ~Asks(reply)
  /\ Return(s, reply, messages[s], calls[s])
  /\ UNCHANGED <<command, stage, commands, agent, grades, disk, whole>>

ProviderFails(s) ==
  /\ Asking(s)
  /\ Fail(s)
  /\ UNCHANGED <<command, stage, commands, agent, grades, disk, whole>>

-----------------------------------------------------------------------------
(* The commands around it. *)

Fresh(value) == [s \in Samples |-> value]

NoConversation ==
  messages' = Fresh(<<>>) /\ calls' = Fresh(<<>>) /\ tokens' = Fresh(0)

StartEval ==
  /\ stage = "idle" /\ commands < MaxCommands
  /\ command' = "eval" /\ stage' = "asking" /\ commands' = commands + 1
  /\ traces' = Fresh(None) /\ predictions' = Fresh(Nothing)
  /\ UNCHANGED <<agent, table, grades, disk, whole>>

\* The stored traces go to the table first; samples without one keep what it holds.
Registered(stored) == [s \in Samples |-> IF stored[s] = None THEN table[s] ELSE stored[s]]

StartRescore ==
  /\ stage = "idle" /\ commands < MaxCommands
  /\ \A s \in Samples : disk.predictions[s] # Nothing
  /\ command' = "rescore" /\ stage' = "scoring" /\ commands' = commands + 1
  /\ traces' = disk.traces
  /\ predictions' = disk.predictions
  /\ table' = Registered(disk.traces)
  /\ UNCHANGED <<agent, grades, disk, whole>>

EndAsking ==
  /\ stage = "asking"
  /\ \A s \in Samples : predictions[s] # Nothing
  /\ stage' = "scoring"
  /\ NoConversation
  /\ UNCHANGED <<command, commands, table, traces, predictions, grades, disk, whole>>

Score ==
  /\ stage = "scoring"
  /\ grades' = [s \in Samples |-> ScoreOrExcuse(predictions[s], table[s])]
  /\ stage' = "predictions"
  /\ UNCHANGED <<command, commands, agent, table, traces, predictions, disk, whole>>

\* Three of the artifacts, in the order of write_run_artifacts.
WritePredictions ==
  /\ stage = "predictions" /\ stage' = "grades"
  /\ disk' = [disk EXCEPT !.predictions = predictions] /\ whole' = FALSE
  /\ UNCHANGED <<command, commands, agent, table, traces, predictions, grades>>

WriteGrades ==
  /\ stage = "grades" /\ stage' = "traces"
  /\ disk' = [disk EXCEPT !.grades = grades]
  /\ UNCHANGED <<command, commands, agent, table, traces, predictions, grades, whole>>

\* A run without a trace leaves the file of the run before.
WriteTraces ==
  /\ stage = "traces" /\ stage' = "idle" /\ command' = "none"
  /\ disk' = IF \A s \in Samples : traces[s] = None THEN disk
             ELSE [disk EXCEPT !.traces = traces]
  /\ whole' = TRUE
  /\ UNCHANGED <<commands, agent, table, traces, predictions, grades>>

\* A process ends, between commands or in the middle of one.
Exit ==
  /\ table # Fresh(None) \/ stage # "idle"
  /\ command' = "none" /\ stage' = "idle"
  /\ table' = Fresh(None)
  /\ NoConversation
  /\ UNCHANGED <<commands, traces, predictions, grades, disk, whole>>

Agent(s) ==
  \/ \E r \in Replies[s] : CallsTool(s, r) \/ ToolCrashes(s, r) \/ Answers(s, r)
  \/ ProviderFails(s)

Work == EndAsking \/ Score \/ WritePredictions \/ WriteGrades \/ WriteTraces

Next ==
  \/ \E s \in Samples : Agent(s)
  \/ Work
  \/ StartEval \/ StartRescore
  \/ Exit

Init ==
  /\ command = "none" /\ stage = "idle" /\ commands = 0
  /\ messages = Fresh(<<>>) /\ calls = Fresh(<<>>) /\ tokens = Fresh(0)
  /\ table = Fresh(None) /\ traces = Fresh(None)
  /\ predictions = Fresh(Nothing) /\ grades = Fresh(NotApplicable)
  /\ disk = [predictions |-> Fresh(Nothing), grades |-> Fresh(NotApplicable),
             traces |-> Fresh(None)]
  /\ whole = FALSE

Spec == Init /\ [][Next]_vars
\* A provider call ends in an answer or its timeout; the rest does not wait for anyone.
FairSpec == Spec /\ WF_vars(Work) /\ \A s \in Samples : WF_vars(Agent(s))

-----------------------------------------------------------------------------
(* Properties. *)

TypeOK ==
  /\ command \in {"none", "eval", "rescore"}
  /\ stage \in {"idle", "asking", "scoring", "predictions", "grades", "traces"}
  /\ commands \in 0..MaxCommands
  /\ messages \in [Samples -> Seq(Turns)]
  /\ calls \in [Samples -> Seq(Records)]
  /\ tokens \in [Samples -> Nat]
  /\ table \in [Samples -> Traces \cup {None}]
  /\ traces \in [Samples -> Traces \cup {None}]
  /\ predictions \in [Samples -> Predictions]
  /\ grades \in [Samples -> Grades]
  /\ disk \in [predictions : [Samples -> Predictions], grades : [Samples -> Grades],
              traces : [Samples -> Traces \cup {None}]]
  /\ whole \in BOOLEAN

Answered(p) == p.got = "answer"
CutOff(p) == Asks(p.reply)

\* The records of the turns of a conversation.
RecordsOf(turns) == [k \in 1..Len(turns) |-> Record(k - 1, turns[k].told.kind)]

\* While a conversation is there, its records are those of its turns, in their
\* order; once it is over the trace holds all of them, it has MaxTurns of them
\* exactly if the last reply still asked for a tool, and that reply, although it
\* answers nothing, is the prediction's response (agent.py, run_agent).
TraceIsTheConversation ==
  \A s \in Samples : stage = "asking" =>
    /\ Len(messages[s]) <= MaxTurns
    /\ calls[s] = RecordsOf(messages[s])
    /\ Answered(predictions[s]) =>
         /\ traces[s].calls = calls[s]
         /\ traces[s].turns = Len(messages[s])
         /\ CutOff(predictions[s]) <=> traces[s].turns = MaxTurns
         /\ CutOff(predictions[s]) => messages[s][MaxTurns].said = predictions[s].reply

\* Tokens of every turn are in the trace: those of the calls and, unless the call
\* itself was cut off, of the answer (agent.py:157-181).
Spent(turns) == SumFunction([k \in 1..Len(turns) |-> turns[k].said.tokens])

EveryTurnIsCounted ==
  \A s \in Samples : stage = "asking" /\ Answered(predictions[s]) =>
    traces[s].tokens = Spent(messages[s]) +
      (IF CutOff(predictions[s]) THEN 0 ELSE predictions[s].reply.tokens)

\* "A run describes what it took to produce its answers" (engine.py:482-484): what an
\* eval reports is what its conversations took, every turn of them.
CostIsOfTheConversations ==
  command = "eval" /\ stage = "scoring" =>
    LET answered == {s \in Samples : Answered(predictions[s])}
    IN RunTokens = SumFunction([s \in answered |-> traces[s].tokens])

\* The grades of an eval come from the traces of this eval alone, whatever earlier
\* runs of the process left in the table (tool_use.py:48, orchestration.py:86).
GradesAreOfThisRun ==
  command = "eval" /\ stage = "predictions" =>
    \A s \in Samples :
      grades[s] = IF Answered(predictions[s]) THEN Metrics(traces[s]) ELSE NotApplicable

\* A rescore of a directory whose last command finished arrives at the grades it
\* holds, although a run without traces leaves an older trace file in it.
RescoreAgrees ==
  command = "rescore" /\ stage = "predictions" /\ whole => grades = disk.grades

\* The metrics never contradict each other about one sample: no result is used or
\* ignored that no tool produced, nothing recovers that did not run, an invented
\* tool is no chosen one, and a sample is graded by all of them or left to none.
MetricsAgree ==
  \A s \in Samples : stage = "predictions" =>
    LET g == grades[s] IN
    /\ g.utilization # "na" <=> g.execution = "pass"
    /\ g.recovery = "pass" => g.execution = "pass"
    /\ g.execution = "fail" => g.recovery = "fail"
    /\ g.execution = "pass" => g.selection = "pass"
    /\ g.hallucination = "pass" => g.selection = "pass"
    /\ g.validity = "fail" => g.recovery # "na"
    /\ g.hallucination = "fail" => g.recovery # "na"
    /\ g.selection = "na" <=> g.invocation = "na"
    /\ g.security = "na" <=> g.invocation = "na"
    /\ g.invocation # "pass" => g.execution = "na"

\* An eval that is not interrupted asks every sample to its end.
AsksToTheEnd == stage = "asking" ~> stage # "asking"

\* What a tool cannot do is told to the model and never ends the sample
\* (registry.py:81-82: "reported back to the model, not raised at the harness").
ErrorsGoToTheModel ==
  [][\A s \in Samples : \A r \in Replies[s] : ~ToolCrashes(s, r)]_vars
=============================================================================
