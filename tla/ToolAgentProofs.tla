---------------------------- MODULE ToolAgentProofs ----------------------------
(***************************************************************************)
(* What holds of ToolAgent for any samples, replies, tools and limit, and  *)
(* any number of evals, rescores and kills.                                *)
(***************************************************************************)
EXTENDS ToolAgent, SumTheorems, SequenceTheorems, TLAPS

-----------------------------------------------------------------------------
(* Records, traces and grades. *)

LEMMA RecordType ==
  ASSUME NEW n \in Nat, n < MaxTurns, NEW kind
  PROVE  Record(n, kind) \in Records
<1>1. n \in 0..(MaxTurns - 1)
  BY AgentAssumption
<1>2. kind = "ok" => kind # "no_such_tool" /\ kind # "bad_arguments" /\ kind # "security_refused"
  OBVIOUS
<1> QED BY <1>1, <1>2 DEF Record, Records

LEMMA GradeTypes ==
  ASSUME NEW C, NEW used
  PROVE  /\ Selection(C) \in Grade
         /\ Execution(C) \in Grade
         /\ Utilization(C, used) \in Grade
         /\ Security(C) \in Grade
         /\ Invocation(C) \in Grade
         /\ Validity(C) \in Grade
         /\ Hallucination(C) \in Grade
         /\ Recovery(C) \in Grade
BY DEF Selection, Execution, Utilization, Security, Invocation, Validity, Hallucination,
       Recovery, Verdict, If, Grade

LEMMA ScoreType ==
  ASSUME NEW p, NEW t
  PROVE  ScoreOrExcuse(p, t) \in Grades
<1>1. Metrics(t) \in Grades
  BY GradeTypes DEF Metrics, Grades
<1>2. NotApplicable \in Grades
  BY DEF NotApplicable, Grades, Grade
<1> QED BY <1>1, <1>2 DEF ScoreOrExcuse

LEMMA ReplyType ==
  ASSUME NEW s \in Samples, NEW reply \in Replies[s]
  PROVE  /\ reply \in AllReplies
         /\ reply.tokens \in Nat
         /\ Asks(reply) => ToolSays(s, reply.call) \in Outcomes
BY AgentAssumption DEF AllReplies, Asks, ToolSays

\* One more turn of a conversation m with the records c of its turns.
OneMore(m, c, turn, newM, newC) ==
  /\ m \in Seq(Turns) /\ c \in Seq(Records) /\ turn \in Turns
  /\ c = RecordsOf(m)
  /\ Len(c) < MaxTurns
  /\ newM = Append(m, turn)
  /\ newC = Append(c, Record(Len(c), turn.told.kind))

LEMMA OneMoreTurn ==
  ASSUME NEW m, NEW c, NEW turn, NEW newM, NEW newC,
         OneMore(m, c, turn, newM, newC)
  PROVE  /\ newM \in Seq(Turns)
         /\ newC \in Seq(Records)
         /\ Len(newM) = Len(m) + 1
         /\ Len(newC) = Len(m) + 1
         /\ Len(m) \in Nat
         /\ newM[Len(m) + 1] = turn
         /\ newC = RecordsOf(newM)
<1> USE DEF OneMore
<1>1. Len(m) \in Nat /\ Len(c) \in Nat /\ Len(c) = Len(m)
  BY LenProperties DEF RecordsOf
<1>2. Record(Len(c), turn.told.kind) \in Records
  BY <1>1, RecordType
<1>3. /\ newM \in Seq(Turns) /\ Len(newM) = Len(m) + 1
      /\ \A k \in 1..Len(m) : newM[k] = m[k]
      /\ newM[Len(m) + 1] = turn
  BY <1>1, AppendProperties
<1>4. /\ newC \in Seq(Records) /\ Len(newC) = Len(c) + 1
      /\ \A k \in 1..Len(c) : newC[k] = c[k]
      /\ newC[Len(c) + 1] = Record(Len(c), turn.told.kind)
  BY <1>1, <1>2, AppendProperties
<1>5. newC = [k \in 1..Len(newC) |-> newC[k]]
  BY <1>4, SeqDef
<1>6. \A k \in 1..Len(newM) : newC[k] = Record(k - 1, newM[k].told.kind)
  <2>1. SUFFICES ASSUME NEW k \in 1..Len(newM)
                 PROVE  newC[k] = Record(k - 1, newM[k].told.kind)
    OBVIOUS
  <2>2. CASE k \in 1..Len(m)
    <3>1. newC[k] = c[k] /\ newM[k] = m[k]
      BY <1>1, <1>3, <1>4, <2>2
    <3>2. c[k] = Record(k - 1, m[k].told.kind)
      BY <2>2 DEF RecordsOf
    <3> QED BY <3>1, <3>2
  <2>3. CASE k = Len(m) + 1
    <3>1. newC[k] = Record(Len(c), turn.told.kind) /\ newM[k] = turn
      BY <1>1, <1>3, <1>4, <2>3
    <3>2. k - 1 = Len(c)
      BY <1>1, <2>3
    <3> QED BY <3>1, <3>2
  <2> QED BY <1>1, <1>3, <2>1, <2>2, <2>3
<1>7. newC = [k \in 1..Len(newM) |-> Record(k - 1, newM[k].told.kind)]
  <2>1. Len(newC) = Len(newM)
    BY <1>1, <1>3, <1>4
  <2> QED BY <1>5, <1>6, <2>1
<1> QED BY <1>1, <1>3, <1>4, <1>7 DEF RecordsOf

-----------------------------------------------------------------------------
(* Types and the conversation. *)

\* The records of a sample are those of its turns; a sample still asked has turns left.
Talk(s) ==
  /\ stage # "asking" => messages[s] = <<>> /\ calls[s] = <<>>
  /\ calls[s] = RecordsOf(messages[s])
  /\ Asking(s) => Len(messages[s]) < MaxTurns
  /\ stage = "asking" => Len(messages[s]) <= MaxTurns
  /\ stage = "asking" /\ Answered(predictions[s]) =>
       /\ traces[s].calls = calls[s]
       /\ traces[s].turns = Len(messages[s])
       /\ CutOff(predictions[s]) <=> traces[s].turns = MaxTurns
       /\ CutOff(predictions[s]) => messages[s][MaxTurns].said = predictions[s].reply

LoopInv == \A s \in Samples : Talk(s)

Inv == TypeOK /\ LoopInv

LEMMA EmptySequences ==
  /\ <<>> \in Seq(Turns)
  /\ <<>> \in Seq(Records)
  /\ Len(<<>>) = 0
  /\ <<>> = RecordsOf(<<>>)
BY DEF RecordsOf

\* What run_agent returns is a trace and a prediction.
LEMMA ReturnType ==
  ASSUME TypeOK, NEW s \in Samples, NEW reply \in Replies[s],
         NEW STATE m, NEW STATE c, c \in Seq(Records), Return(s, reply, m, c)
  PROVE  /\ table' \in [Samples -> Traces \cup {None}]
         /\ traces' \in [Samples -> Traces \cup {None}]
         /\ predictions' \in [Samples -> Predictions]
         /\ traces'[s] \in Traces
         /\ traces'[s].calls = c
         /\ traces'[s].turns = Len(c)
         /\ table'[s] = traces'[s]
         /\ predictions'[s].got = "answer"
         /\ predictions'[s].reply = reply
         /\ \A u \in Samples \ {s} :
              /\ predictions'[u] = predictions[u]
              /\ traces'[u] = traces[u]
              /\ table'[u] = table[u]
<1> DEFINE t == [calls |-> c, turns |-> Len(c),
                 used |-> ResultWasUsed(m, reply.numbers),
                 tokens |-> tokens[s] + reply.tokens]
           p == [got |-> "answer", reply |-> reply, attempts |-> t.turns + 1]
<1>1. Len(c) \in Nat
  BY LenProperties
<1>2. tokens[s] + reply.tokens \in Nat
  BY ReplyType DEF TypeOK
<1>3. ResultWasUsed(m, reply.numbers) \in BOOLEAN
  BY DEF ResultWasUsed
<1>4. t \in Traces
  BY <1>1, <1>2, <1>3 DEF Traces
<1>5. p \in Predictions
  <2>1. reply \in AllReplies
    BY ReplyType
  <2>2. t.turns + 1 \in Nat
    BY <1>1
  <2> QED BY <2>1, <2>2 DEF Predictions
<1>6. /\ table' = [table EXCEPT ![s] = t]
      /\ traces' = [traces EXCEPT ![s] = t]
      /\ predictions' = [predictions EXCEPT ![s] = p]
  BY DEF Return
<1>7. t.calls = c /\ t.turns = Len(c) /\ p.got = "answer" /\ p.reply = reply
  OBVIOUS
<1> HIDE DEF t, p
<1>8. /\ table \in [Samples -> Traces \cup {None}]
      /\ traces \in [Samples -> Traces \cup {None}]
      /\ predictions \in [Samples -> Predictions]
  BY DEF TypeOK
<1> QED BY <1>4, <1>5, <1>6, <1>7, <1>8

\* What an action of one sample leaves of the others.
LEMMA OthersKeep ==
  ASSUME TypeOK, LoopInv, NEW s \in Samples, NEW u \in Samples, u # s,
         stage' = stage, messages'[u] = messages[u], calls'[u] = calls[u],
         predictions'[u] = predictions[u], traces'[u] = traces[u]
  PROVE  Talk(u)'
BY DEF LoopInv, Talk, Asking

LEMMA CallsToolInv ==
  ASSUME Inv, NEW s \in Samples, NEW reply \in Replies[s], CallsTool(s, reply)
  PROVE  Inv'
<1> DEFINE told == ToolSays(s, reply.call)
           turn == [said |-> reply, told |-> told]
           newM == Append(messages[s], turn)
           newC == Append(calls[s], Record(Len(calls[s]), turn.told.kind))
<1>0. /\ stage = "asking" /\ Nothing = predictions[s]
      /\ Asks(reply)
      /\ TypeOK /\ LoopInv
  BY DEF Inv, CallsTool, Asking
<1>1. turn \in Turns
  <2>1. reply \in AllReplies /\ reply.call # NoCall /\ told \in Outcomes
    BY <1>0, ReplyType DEF Asks
  <2> QED BY <2>1 DEF Turns
<1>2. /\ messages[s] \in Seq(Turns) /\ calls[s] \in Seq(Records)
      /\ messages \in [Samples -> Seq(Turns)] /\ calls \in [Samples -> Seq(Records)]
      /\ tokens \in [Samples -> Nat]
  BY <1>0 DEF TypeOK
<1>3. /\ calls[s] = RecordsOf(messages[s])
      /\ Len(messages[s]) < MaxTurns
  BY <1>0 DEF LoopInv, Talk, Asking
<1>3a. Len(calls[s]) < MaxTurns
  BY <1>2, <1>3, LenProperties DEF RecordsOf
<1>4. /\ newM \in Seq(Turns)
      /\ newC \in Seq(Records)
      /\ Len(newM) = Len(messages[s]) + 1
      /\ Len(newC) = Len(messages[s]) + 1
      /\ Len(messages[s]) \in Nat
      /\ newM[Len(messages[s]) + 1] = turn
      /\ newC = RecordsOf(newM)
  <2> HIDE DEF turn
  <2>1. OneMore(messages[s], calls[s], turn, newM, newC)
    BY <1>1, <1>2, <1>3, <1>3a DEF OneMore
  <2> HIDE DEF newM, newC
  <2> QED BY <2>1, OneMoreTurn
<1>5. /\ messages' = [messages EXCEPT ![s] = newM]
      /\ calls' = [calls EXCEPT ![s] = newC]
      /\ tokens' = [tokens EXCEPT ![s] = tokens[s] + reply.tokens]
      /\ Len(newC) = MaxTurns => Return(s, reply, newM, newC)
      /\ Len(newC) # MaxTurns => UNCHANGED <<table, traces, predictions>>
      /\ UNCHANGED <<command, stage, commands, grades, disk, whole>>
  BY DEF CallsTool, TakeTurn
<1>6. turn.said = reply
  OBVIOUS
<1> HIDE DEF told, turn, newM, newC
<1>7. /\ messages' \in [Samples -> Seq(Turns)]
      /\ calls' \in [Samples -> Seq(Records)]
      /\ tokens' \in [Samples -> Nat]
      /\ messages'[s] = newM /\ calls'[s] = newC
  BY <1>2, <1>4, <1>5, ReplyType
<1>8. MaxTurns \in Nat \ {0}
  BY AgentAssumption
<1>9. CASE Len(newC) = MaxTurns
  <2>1. Return(s, reply, newM, newC)
    BY <1>5, <1>9
  <2>2. /\ table' \in [Samples -> Traces \cup {None}]
        /\ traces' \in [Samples -> Traces \cup {None}]
        /\ predictions' \in [Samples -> Predictions]
        /\ traces'[s].calls = newC
        /\ traces'[s].turns = Len(newC)
        /\ predictions'[s].got = "answer"
        /\ predictions'[s].reply = reply
        /\ \A u \in Samples \ {s} : predictions'[u] = predictions[u] /\ traces'[u] = traces[u]
    BY <1>0, <1>4, <2>1, ReturnType
  <2>3. TypeOK'
    BY <1>0, <1>5, <1>7, <2>2 DEF TypeOK
  <2>4. CutOff(predictions'[s])
    BY <1>0, <2>2 DEF CutOff
  <2>5. messages'[s][MaxTurns].said = predictions'[s].reply
    BY <1>4, <1>6, <1>7, <1>9, <2>2
  <2>6. LoopInv'
    <3>1. SUFFICES ASSUME NEW u \in Samples PROVE Talk(u)'
      BY DEF LoopInv
    <3>2. CASE u = s
      <4>1. ~Asking(s)'
        BY <2>2 DEF Asking, Nothing
      <4> QED BY <1>0, <1>4, <1>5, <1>7, <1>8, <1>9, <2>2, <2>4, <2>5, <3>2, <4>1 DEF Talk
    <3>3. CASE u # s
      <4>1. /\ messages'[u] = messages[u] /\ calls'[u] = calls[u]
            /\ predictions'[u] = predictions[u] /\ traces'[u] = traces[u] /\ stage' = stage
        BY <1>2, <1>5, <2>2, <3>3
      <4> QED BY <1>0, <3>3, <4>1, OthersKeep
    <3> QED BY <3>1, <3>2, <3>3
  <2> QED BY <2>3, <2>6 DEF Inv
<1>10. CASE Len(newC) # MaxTurns
  <2>1. UNCHANGED <<table, traces, predictions, stage>>
    BY <1>5, <1>10
  <2>2. TypeOK'
    BY <1>0, <1>5, <1>7, <2>1 DEF TypeOK
  <2>3. LoopInv'
    <3>1. SUFFICES ASSUME NEW u \in Samples PROVE Talk(u)'
      BY DEF LoopInv
    <3>2. CASE u = s
      <4>1. ~Answered(predictions'[s])
        BY <1>0, <2>1 DEF Answered, Nothing
      <4> QED BY <1>0, <1>3, <1>4, <1>7, <1>8, <1>10, <2>1, <3>2, <4>1 DEF Talk
    <3>3. CASE u # s
      <4>1. /\ messages'[u] = messages[u] /\ calls'[u] = calls[u]
            /\ predictions'[u] = predictions[u] /\ traces'[u] = traces[u] /\ stage' = stage
        BY <1>2, <1>5, <2>1, <3>3
      <4> QED BY <1>0, <3>3, <4>1, OthersKeep
    <3> QED BY <3>1, <3>2, <3>3
  <2> QED BY <2>2, <2>3 DEF Inv
<1> QED BY <1>9, <1>10

LEMMA FailsInv ==
  ASSUME Inv, NEW s \in Samples, Asking(s), Fail(s),
         UNCHANGED <<command, stage, commands, agent, grades, disk, whole>>
  PROVE  Inv'
<1>1. TypeOK /\ LoopInv /\ stage = "asking"
  BY DEF Inv, Asking
<1>2. /\ predictions' = [predictions EXCEPT ![s] = [got |-> "error"]]
      /\ UNCHANGED <<table, traces, command, stage, commands, messages, calls, tokens, grades,
                     disk, whole>>
  BY DEF Fail, agent
<1>3. [got |-> "error"] \in Predictions
  BY DEF Predictions
<1>4. TypeOK'
  BY <1>1, <1>2, <1>3 DEF TypeOK
<1>5. LoopInv'
  <2>1. SUFFICES ASSUME NEW u \in Samples PROVE Talk(u)'
    BY DEF LoopInv
  <2>2. CASE u = s
    <3>1. predictions'[s] = [got |-> "error"]
      BY <1>1, <1>2 DEF TypeOK
    <3>2. ~Answered(predictions[s])'
      BY <3>1 DEF Answered
    <3>3. Talk(s)
      BY <1>1 DEF LoopInv
    <3>4. Len(messages[s]) <= MaxTurns
      BY <1>1, <3>3 DEF Talk
    <3>5. ~Asking(s)'
      BY <3>1 DEF Asking, Nothing
    <3> QED BY <1>1, <1>2, <2>2, <3>2, <3>3, <3>4, <3>5 DEF Talk
  <2>3. CASE u # s
    <3>1. predictions'[u] = predictions[u]
      BY <1>1, <1>2, <2>3 DEF TypeOK
    <3> QED BY <1>1, <1>2, <2>3, <3>1, OthersKeep
  <2> QED BY <2>1, <2>2, <2>3
<1> QED BY <1>4, <1>5 DEF Inv

LEMMA AnswersInv ==
  ASSUME Inv, NEW s \in Samples, NEW reply \in Replies[s], Answers(s, reply)
  PROVE  Inv'
<1>1. /\ TypeOK /\ LoopInv /\ stage = "asking" /\ Asking(s)
      /\ ~Asks(reply)
      /\ Return(s, reply, messages[s], calls[s])
      /\ UNCHANGED <<command, stage, commands, messages, calls, tokens, grades, disk, whole>>
  BY DEF Inv, Asking, Answers, agent
<1>2. messages[s] \in Seq(Turns) /\ calls[s] \in Seq(Records)
  BY <1>1 DEF TypeOK
<1>3. /\ table' \in [Samples -> Traces \cup {None}]
      /\ traces' \in [Samples -> Traces \cup {None}]
      /\ predictions' \in [Samples -> Predictions]
      /\ traces'[s].calls = calls[s]
      /\ traces'[s].turns = Len(calls[s])
      /\ predictions'[s].got = "answer"
      /\ predictions'[s].reply = reply
      /\ \A u \in Samples \ {s} : predictions'[u] = predictions[u] /\ traces'[u] = traces[u]
  BY <1>1, <1>2, ReturnType
<1>4. TypeOK'
  BY <1>1, <1>3 DEF TypeOK
<1>5. LoopInv'
  <2>1. SUFFICES ASSUME NEW u \in Samples PROVE Talk(u)'
    BY DEF LoopInv
  <2>2. CASE u = s
    <3>1. Talk(s)
      BY <1>1 DEF LoopInv
    <3>2. Len(calls[s]) = Len(messages[s]) /\ Len(messages[s]) < MaxTurns
      BY <1>1, <1>2, <3>1, LenProperties DEF Talk, RecordsOf
    <3>3. ~CutOff(predictions[s])' /\ ~Asking(s)'
      BY <1>1, <1>3 DEF CutOff, Asking, Nothing
    <3>4. MaxTurns \in Nat /\ Len(messages[s]) \in Nat
      BY <1>2, LenProperties, AgentAssumption
    <3> QED BY <1>1, <1>3, <2>2, <3>1, <3>2, <3>3, <3>4 DEF Talk
  <2>3. CASE u # s
    <3>1. predictions'[u] = predictions[u] /\ traces'[u] = traces[u]
      BY <1>3, <2>3
    <3> QED BY <1>1, <2>3, <3>1, OthersKeep
  <2> QED BY <2>1, <2>2, <2>3
<1> QED BY <1>4, <1>5 DEF Inv

\* Outside the loop there is no conversation.
LEMMA NoTalk ==
  ASSUME \A s \in Samples : messages'[s] = <<>> /\ calls'[s] = <<>>,
         stage' = "asking" => \A s \in Samples : predictions'[s] = Nothing
  PROVE  LoopInv'
<1>1. SUFFICES ASSUME NEW s \in Samples PROVE Talk(s)'
  BY DEF LoopInv
<1>2. messages'[s] = <<>> /\ calls'[s] = <<>> /\ calls'[s] = RecordsOf(messages'[s])
  BY EmptySequences
<1>3. Len(messages'[s]) = 0 /\ MaxTurns \in Nat \ {0}
  BY <1>2, EmptySequences, AgentAssumption
<1>4. stage' = "asking" => ~Answered(predictions'[s])
  BY DEF Answered, Nothing
<1> QED BY <1>2, <1>3, <1>4 DEF Talk

LEMMA Clean ==
  ASSUME NoConversation
  PROVE  /\ \A s \in Samples : messages'[s] = <<>> /\ calls'[s] = <<>>
         /\ messages' \in [Samples -> Seq(Turns)]
         /\ calls' \in [Samples -> Seq(Records)]
         /\ tokens' \in [Samples -> Nat]
BY EmptySequences DEF NoConversation, Fresh

LEMMA FreshTypes ==
  /\ Fresh(None) \in [Samples -> Traces \cup {None}]
  /\ Fresh(Nothing) \in [Samples -> Predictions]
  /\ Fresh(NotApplicable) \in [Samples -> Grades]
BY DEF Fresh, Nothing, NotApplicable, Predictions, Grades, Grade

LEMMA InitInv == Init => Inv
<1> SUFFICES ASSUME Init PROVE Inv
  OBVIOUS
<1>0. /\ Fresh(<<>>) \in [Samples -> Seq(Turns)]
      /\ Fresh(<<>>) \in [Samples -> Seq(Records)]
      /\ Fresh(0) \in [Samples -> Nat]
  BY EmptySequences DEF Fresh
<1>1. TypeOK
  <2>1. commands \in 0..MaxCommands
    BY AgentAssumption DEF Init
  <2>2. disk \in [predictions : [Samples -> Predictions], grades : [Samples -> Grades],
                  traces : [Samples -> Traces \cup {None}]]
    BY FreshTypes DEF Init
  <2>3. /\ messages \in [Samples -> Seq(Turns)] /\ calls \in [Samples -> Seq(Records)]
        /\ tokens \in [Samples -> Nat]
    BY <1>0 DEF Init
  <2>4. /\ table \in [Samples -> Traces \cup {None}] /\ traces \in [Samples -> Traces \cup {None}]
        /\ predictions \in [Samples -> Predictions] /\ grades \in [Samples -> Grades]
    BY FreshTypes DEF Init
  <2> QED BY <2>1, <2>2, <2>3, <2>4 DEF Init, TypeOK
<1>2. \A s \in Samples : messages[s] = <<>> /\ calls[s] = <<>>
  BY DEF Init, Fresh
<1>3. stage # "asking"
  BY DEF Init
<1>4. LoopInv
  BY <1>2, <1>3, EmptySequences DEF LoopInv, Talk, Asking
<1> QED BY <1>1, <1>4 DEF Inv

-----------------------------------------------------------------------------
(* The commands around the loop. *)

\* A step that keeps the conversations away from the loop, or starts it with none.
LEMMA AroundInv ==
  ASSUME Inv, stage # "asking", UNCHANGED agent,
         stage' = "asking" => predictions' = Fresh(Nothing)
  PROVE  LoopInv'
<1>1. \A s \in Samples : messages[s] = <<>> /\ calls[s] = <<>>
  BY DEF Inv, LoopInv, Talk
<1>2. \A s \in Samples : messages'[s] = <<>> /\ calls'[s] = <<>>
  BY <1>1 DEF agent
<1>3. stage' = "asking" => \A s \in Samples : predictions'[s] = Nothing
  BY DEF Fresh
<1> QED BY <1>2, <1>3, NoTalk

LEMMA StartEvalInv == Inv /\ StartEval => Inv'
<1> SUFFICES ASSUME Inv, StartEval PROVE Inv'
  OBVIOUS
<1>1. TypeOK'
  BY FreshTypes, AgentAssumption DEF Inv, TypeOK, StartEval, agent
<1>2. LoopInv'
  BY AroundInv DEF StartEval
<1> QED BY <1>1, <1>2 DEF Inv

LEMMA StartRescoreInv == Inv /\ StartRescore => Inv'
<1> SUFFICES ASSUME Inv, StartRescore PROVE Inv'
  OBVIOUS
<1>1. Registered(disk.traces) \in [Samples -> Traces \cup {None}]
  BY DEF Registered, Inv, TypeOK
<1>2. TypeOK'
  BY <1>1, AgentAssumption DEF Inv, TypeOK, StartRescore, agent
<1>3. LoopInv'
  BY AroundInv DEF StartRescore
<1> QED BY <1>2, <1>3 DEF Inv

LEMMA EndAskingInv == Inv /\ EndAsking => Inv'
<1> SUFFICES ASSUME Inv, EndAsking PROVE Inv'
  OBVIOUS
<1>1. TypeOK'
  BY Clean DEF Inv, TypeOK, EndAsking
<1>2. LoopInv'
  BY Clean, NoTalk DEF EndAsking
<1> QED BY <1>1, <1>2 DEF Inv

LEMMA ExitInv == Inv /\ Exit => Inv'
<1> SUFFICES ASSUME Inv, Exit PROVE Inv'
  OBVIOUS
<1>1. TypeOK'
  BY Clean, FreshTypes DEF Inv, TypeOK, Exit
<1>2. LoopInv'
  BY Clean, NoTalk DEF Exit
<1> QED BY <1>1, <1>2 DEF Inv

LEMMA ScoreInv == Inv /\ Score => Inv'
<1> SUFFICES ASSUME Inv, Score PROVE Inv'
  OBVIOUS
<1>1. grades' \in [Samples -> Grades]
  BY ScoreType DEF Score
<1>2. TypeOK'
  BY <1>1 DEF Inv, TypeOK, Score, agent
<1>3. LoopInv'
  BY AroundInv DEF Score
<1> QED BY <1>2, <1>3 DEF Inv

LEMMA WritesInv == Inv /\ (WritePredictions \/ WriteGrades \/ WriteTraces) => Inv'
<1> SUFFICES ASSUME Inv, WritePredictions \/ WriteGrades \/ WriteTraces PROVE Inv'
  OBVIOUS
<1>1. CASE WritePredictions
  BY <1>1, AroundInv DEF WritePredictions, Inv, TypeOK, agent
<1>2. CASE WriteGrades
  BY <1>2, AroundInv DEF WriteGrades, Inv, TypeOK, agent
<1>3. CASE WriteTraces
  BY <1>3, AroundInv DEF WriteTraces, Inv, TypeOK, agent
<1> QED BY <1>1, <1>2, <1>3

LEMMA NextInv ==
  ASSUME Inv, [Next]_vars
  PROVE  Inv'
<1>1. CASE UNCHANGED vars
  BY <1>1 DEF Inv, TypeOK, LoopInv, Talk, Asking, vars, agent
<1>2. CASE \E s \in Samples : Agent(s)
  <2>1. PICK s \in Samples : Agent(s)
    BY <1>2
  <2>2. CASE \E r \in Replies[s] : CallsTool(s, r)
    BY <2>2, CallsToolInv
  <2>3. CASE \E r \in Replies[s] : Answers(s, r)
    BY <2>3, AnswersInv
  <2>4. CASE \E r \in Replies[s] : ToolCrashes(s, r)
    BY <2>4, FailsInv DEF ToolCrashes
  <2>5. CASE ProviderFails(s)
    BY <2>5, FailsInv DEF ProviderFails
  <2> QED BY <2>1, <2>2, <2>3, <2>4, <2>5 DEF Agent
<1>3. CASE Work
  BY <1>3, EndAskingInv, ScoreInv, WritesInv DEF Work
<1>4. CASE StartEval \/ StartRescore \/ Exit
  BY <1>4, StartEvalInv, StartRescoreInv, ExitInv
<1> QED BY <1>1, <1>2, <1>3, <1>4 DEF Next

THEOREM Invariance == Spec => []Inv
<1>1. Inv /\ [Next]_vars => Inv'
  BY NextInv
<1> QED BY <1>1, InitInv, PTL DEF Spec

\* Every variable keeps its type: no trace records a turn outside the limit.
THEOREM TypeCorrect == Spec => []TypeOK
<1>1. Inv => TypeOK
  BY DEF Inv
<1> QED BY <1>1, Invariance, PTL

\* A conversation's records and its trace are those of its turns, and it is cut off
\* exactly at the limit, whatever the model says and the tools return.
THEOREM Conversation == Spec => []TraceIsTheConversation
<1>1. Inv => TraceIsTheConversation
  BY DEF Inv, LoopInv, Talk, TraceIsTheConversation
<1> QED BY <1>1, Invariance, PTL

-----------------------------------------------------------------------------
(* Grades, now and later. *)

Working == stage # "idle"

\* What a command has in hand while it runs.
HandInv ==
  /\ stage = "asking" => command = "eval"
  /\ Working => command \in {"eval", "rescore"}
  /\ Working => \A s \in Samples : Answered(predictions[s]) => table[s] = traces[s]
  /\ Working /\ command = "eval" =>
       \A s \in Samples : Answered(predictions[s]) => traces[s] # None
  /\ Working /\ command = "rescore" =>
       predictions = disk.predictions /\ traces = disk.traces
  /\ stage \in {"predictions", "grades", "traces"} =>
       \A s \in Samples : grades[s] = ScoreOrExcuse(predictions[s], traces[s])
  /\ stage \in {"grades", "traces"} => disk.predictions = predictions /\ ~whole
  /\ stage = "traces" => disk.grades = grades

\* What a directory holds that its last command finished.
DiskInv ==
  whole => \A s \in Samples :
             disk.grades[s] = ScoreOrExcuse(disk.predictions[s], disk.traces[s])

\* Nothing is in the table, between commands, that a rescore would take for a trace
\* of an answer that has none on the disk.
TableInv ==
  ~Working => \A s \in Samples :
    Answered(disk.predictions[s]) /\ disk.traces[s] = None => table[s] = None

GInv == HandInv /\ DiskInv /\ TableInv

LEMMA InitGInv == Init => GInv
BY DEF Init, GInv, HandInv, DiskInv, TableInv, Working, Fresh

\* A step of the loop touches one sample, and its trace and its table entry together.
LEMMA ReturnsGInv ==
  ASSUME Inv, GInv, NEW s \in Samples, NEW reply \in Replies[s],
         CallsTool(s, reply) \/ Answers(s, reply)
  PROVE  GInv'
<1>1. /\ TypeOK /\ stage = "asking" /\ command = "eval"
      /\ UNCHANGED <<command, stage, commands, grades, disk, whole>>
  BY DEF Inv, GInv, HandInv, CallsTool, Answers, Asking
<1>2. \/ UNCHANGED <<table, traces, predictions>>
      \/ \E t \in Traces :
           /\ traces'[s] = t /\ table'[s] = t
           /\ \A u \in Samples \ {s} :
                traces'[u] = traces[u] /\ table'[u] = table[u] /\ predictions'[u] = predictions[u]
  <2>1. CASE Answers(s, reply)
    <3>1. calls[s] \in Seq(Records) /\ Return(s, reply, messages[s], calls[s])
      BY <1>1, <2>1 DEF TypeOK, Answers
    <3> QED BY <1>1, <3>1, ReturnType
  <2>2. CASE CallsTool(s, reply)
    <3> DEFINE told == ToolSays(s, reply.call)
               newM == Append(messages[s], [said |-> reply, told |-> told])
               newC == Append(calls[s], Record(Len(calls[s]), told.kind))
    <3>1. \/ UNCHANGED <<table, traces, predictions>>
          \/ Return(s, reply, newM, newC)
      BY <2>2 DEF CallsTool, TakeTurn
    <3>2. calls[s] \in Seq(Records) /\ messages[s] \in Seq(Turns)
      BY <1>1 DEF TypeOK
    <3>3. newC \in Seq(Records)
      <4>1. Len(calls[s]) < MaxTurns
        <5>1. Talk(s) /\ Asking(s)
          BY <2>2 DEF Inv, LoopInv, CallsTool
        <5>2. Len(calls[s]) = Len(messages[s])
          BY <3>2, <5>1, LenProperties DEF Talk, RecordsOf
        <5> QED BY <5>1, <5>2 DEF Talk
      <4>2. Record(Len(calls[s]), told.kind) \in Records
        BY <3>2, <4>1, LenProperties, RecordType
      <4> HIDE DEF told
      <4> QED BY <3>2, <4>2, AppendProperties
    <3> HIDE DEF newM, newC
    <3> QED BY <1>1, <3>1, <3>3, ReturnType
  <2> QED BY <2>1, <2>2
<1>3. HandInv'
  BY <1>1, <1>2, NoneAssumption DEF GInv, HandInv, Working, Answered
<1>4. DiskInv' /\ TableInv'
  BY <1>1 DEF GInv, DiskInv, TableInv, Working
<1> QED BY <1>3, <1>4 DEF GInv

LEMMA FailsGInv ==
  ASSUME Inv, GInv, NEW s \in Samples, Asking(s), Fail(s),
         UNCHANGED <<command, stage, commands, agent, grades, disk, whole>>
  PROVE  GInv'
<1>1. /\ stage = "asking" /\ command = "eval"
      /\ predictions \in [Samples -> Predictions]
      /\ predictions' = [predictions EXCEPT ![s] = [got |-> "error"]]
      /\ UNCHANGED <<command, stage, grades, disk, whole, table, traces>>
  BY DEF Inv, TypeOK, GInv, HandInv, Asking, Fail
<1>2. \A u \in Samples : Answered(predictions'[u]) => predictions'[u] = predictions[u]
  BY <1>1 DEF Answered
<1>3. HandInv'
  BY <1>1, <1>2 DEF GInv, HandInv, Working
<1>4. DiskInv' /\ TableInv'
  BY <1>1 DEF GInv, DiskInv, TableInv, Working
<1> QED BY <1>3, <1>4 DEF GInv

LEMMA StartGInv == Inv /\ GInv /\ (StartEval \/ StartRescore) => GInv'
<1> SUFFICES ASSUME Inv, GInv, StartEval \/ StartRescore PROVE GInv'
  OBVIOUS
<1>1. CASE StartEval
  <2>1. \A s \in Samples : ~Answered(predictions'[s])
    BY <1>1 DEF StartEval, Fresh, Nothing, Answered
  <2> QED BY <1>1, <2>1 DEF GInv, HandInv, DiskInv, TableInv, Working, StartEval
<1>2. CASE StartRescore
  <2>1. \A s \in Samples : Answered(disk.predictions[s]) => table'[s] = disk.traces[s]
    BY <1>2 DEF StartRescore, Registered, GInv, TableInv, Working
  <2> QED BY <1>2, <2>1 DEF GInv, HandInv, DiskInv, TableInv, Working, StartRescore
<1> QED BY <1>1, <1>2

LEMMA ScoreGInv == Inv /\ GInv /\ Score => GInv'
<1> SUFFICES ASSUME Inv, GInv, Score PROVE GInv'
  OBVIOUS
<1>1. \A s \in Samples : grades'[s] = ScoreOrExcuse(predictions[s], table[s])
  BY DEF Score
<1>2. \A s \in Samples : Answered(predictions[s]) => table[s] = traces[s]
  BY DEF GInv, HandInv, Score, Working
<1>3. \A s \in Samples : grades'[s] = ScoreOrExcuse(predictions[s], traces[s])
  BY <1>1, <1>2 DEF ScoreOrExcuse, Answered
<1> QED BY <1>3 DEF GInv, HandInv, DiskInv, TableInv, Working, Score

LEMMA AroundGInv == Inv /\ GInv /\ (EndAsking \/ Exit) => GInv'
<1> SUFFICES ASSUME Inv, GInv, EndAsking \/ Exit PROVE GInv'
  OBVIOUS
<1>1. CASE EndAsking
  BY <1>1 DEF GInv, HandInv, DiskInv, TableInv, Working, EndAsking
<1>2. CASE Exit
  BY <1>2 DEF GInv, HandInv, DiskInv, TableInv, Working, Exit, Fresh
<1> QED BY <1>1, <1>2

LEMMA WritesGInv == Inv /\ GInv /\ (WritePredictions \/ WriteGrades \/ WriteTraces) => GInv'
<1> SUFFICES ASSUME Inv, GInv, WritePredictions \/ WriteGrades \/ WriteTraces PROVE GInv'
  OBVIOUS
<1>0. disk \in [predictions : [Samples -> Predictions], grades : [Samples -> Grades],
                traces : [Samples -> Traces \cup {None}]]
  BY DEF Inv, TypeOK
<1>1. CASE WritePredictions
  <2>1. /\ disk'.predictions = predictions /\ disk'.grades = disk.grades
        /\ disk'.traces = disk.traces
    BY <1>0, <1>1 DEF WritePredictions
  <2> QED BY <1>1, <2>1 DEF GInv, HandInv, DiskInv, TableInv, Working, WritePredictions
<1>2. CASE WriteGrades
  <2>1. /\ disk'.predictions = disk.predictions /\ disk'.grades = grades
        /\ disk'.traces = disk.traces
    BY <1>0, <1>2 DEF WriteGrades
  <2> QED BY <1>2, <2>1 DEF GInv, HandInv, DiskInv, TableInv, Working, WriteGrades
<1>3. CASE WriteTraces
  <2>1. /\ disk'.predictions = disk.predictions /\ disk'.grades = disk.grades
        /\ disk'.traces = IF \A s \in Samples : traces[s] = None THEN disk.traces ELSE traces
    BY <1>0, <1>3 DEF WriteTraces
  <2>2. /\ disk.predictions = predictions /\ disk.grades = grades
        /\ command \in {"eval", "rescore"}
        /\ \A s \in Samples : Answered(predictions[s]) => table[s] = traces[s]
        /\ \A s \in Samples : grades[s] = ScoreOrExcuse(predictions[s], traces[s])
        /\ command = "eval" => \A s \in Samples : Answered(predictions[s]) => traces[s] # None
        /\ command = "rescore" => traces = disk.traces
    BY <1>3 DEF GInv, HandInv, Working, WriteTraces
  <2>3. \A s \in Samples : Answered(predictions[s]) => disk'.traces[s] = traces[s]
    BY <2>1, <2>2
  <2>4. \A s \in Samples : disk'.grades[s] = ScoreOrExcuse(disk'.predictions[s], disk'.traces[s])
    BY <2>1, <2>2, <2>3 DEF ScoreOrExcuse, Answered
  <2>5. DiskInv'
    BY <2>4 DEF DiskInv
  <2>6. TableInv'
    BY <1>3, <2>1, <2>2, <2>3 DEF TableInv, WriteTraces
  <2>7. HandInv'
    BY <1>3 DEF HandInv, Working, WriteTraces
  <2> QED BY <2>5, <2>6, <2>7 DEF GInv
<1> QED BY <1>1, <1>2, <1>3

LEMMA NextGInv ==
  ASSUME Inv, GInv, [Next]_vars
  PROVE  GInv'
<1>1. CASE UNCHANGED vars
  BY <1>1 DEF GInv, HandInv, DiskInv, TableInv, Working, vars
<1>2. CASE \E s \in Samples : Agent(s)
  <2>1. PICK s \in Samples : Agent(s)
    BY <1>2
  <2>2. CASE \E r \in Replies[s] : CallsTool(s, r) \/ Answers(s, r)
    BY <2>2, ReturnsGInv
  <2>3. CASE \E r \in Replies[s] : ToolCrashes(s, r)
    BY <2>3, FailsGInv DEF ToolCrashes
  <2>4. CASE ProviderFails(s)
    BY <2>4, FailsGInv DEF ProviderFails
  <2> QED BY <2>1, <2>2, <2>3, <2>4 DEF Agent
<1>3. CASE Work
  BY <1>3, AroundGInv, ScoreGInv, WritesGInv DEF Work
<1>4. CASE StartEval \/ StartRescore \/ Exit
  BY <1>4, StartGInv, AroundGInv
<1> QED BY <1>1, <1>2, <1>3, <1>4 DEF Next

LEMMA GradesInvariance == Spec => [](Inv /\ GInv)
<1>1. Init => Inv /\ GInv
  BY InitInv, InitGInv
<1>2. Inv /\ GInv /\ [Next]_vars => Inv' /\ GInv'
  BY NextInv, NextGInv
<1> QED BY <1>1, <1>2, PTL DEF Spec

\* An eval's grades are read off its own traces, whatever ran before it in the process.
THEOREM OwnGrades == Spec => []GradesAreOfThisRun
<1>1. Inv /\ GInv => GradesAreOfThisRun
  BY DEF GInv, HandInv, Working, GradesAreOfThisRun, ScoreOrExcuse, Answered
<1> QED BY <1>1, GradesInvariance, PTL

\* A rescore of a finished directory finds the grades it holds.
THEOREM SameGrades == Spec => []RescoreAgrees
<1>1. Inv /\ GInv => RescoreAgrees
  <2> SUFFICES ASSUME Inv, GInv, command = "rescore", stage = "predictions", whole
               PROVE  grades = disk.grades
    BY DEF RescoreAgrees
  <2>1. \A s \in Samples : grades[s] = disk.grades[s]
    BY DEF GInv, HandInv, DiskInv, Working
  <2>2. grades \in [Samples -> Grades] /\ disk.grades \in [Samples -> Grades]
    BY DEF Inv, TypeOK
  <2> QED BY <2>1, <2>2
<1> QED BY <1>1, GradesInvariance, PTL

\* What eight metrics of one set of records have to do with each other.
LEMMA Consistent ==
  ASSUME NEW C, C \subseteq Records, NEW used
  PROVE  /\ Utilization(C, used) # "na" <=> Execution(C) = "pass"
         /\ Recovery(C) = "pass" => Execution(C) = "pass"
         /\ Execution(C) = "fail" => Recovery(C) = "fail"
         /\ Execution(C) = "pass" => Selection(C) = "pass"
         /\ Hallucination(C) = "pass" => Selection(C) = "pass"
         /\ Validity(C) = "fail" => Recovery(C) # "na"
         /\ Hallucination(C) = "fail" => Recovery(C) # "na"
         /\ Selection(C) # "na" /\ Invocation(C) # "na" /\ Security(C) # "na"
         /\ Invocation(C) # "pass" => Execution(C) = "na"
<1>1. \A c \in C : c.executed => c.exists /\ c.valid
  BY DEF Records
<1>2. /\ Utilization(C, used) # "na" <=> Ran(C) # {}
      /\ Execution(C) = "pass" <=> C # {} /\ Ran(C) # {}
      /\ Execution(C) = "fail" <=> C # {} /\ Ran(C) = {}
      /\ Execution(C) = "na" <=> C = {}
      /\ Selection(C) = "pass" <=> Real(C) # {}
      /\ Hallucination(C) = "pass" <=> C # {} /\ Real(C) = C
      /\ Hallucination(C) = "fail" <=> C # {} /\ Real(C) # C
      /\ Validity(C) = "fail" => \E c \in Real(C) : ~c.valid
      /\ Invocation(C) = "pass" <=> C # {}
      /\ Recovery(C) = "na" <=> C = Ran(C)
      /\ Recovery(C) = "pass" => Ran(C) # {}
      /\ C # Ran(C) /\ Ran(C) = {} => Recovery(C) = "fail"
      /\ Selection(C) # "na" /\ Invocation(C) # "na" /\ Security(C) # "na"
  BY DEF Utilization, Execution, Selection, Hallucination, Validity, Invocation, Recovery,
         Security, Verdict, If
<1>3. Ran(C) \subseteq C /\ Real(C) \subseteq C /\ Ran(C) \subseteq Real(C)
  BY <1>1 DEF Ran, Real
<1>4. (\E c \in Real(C) : ~c.valid) => C # Ran(C)
  BY <1>1 DEF Ran, Real
<1>5. Real(C) # C => C # Ran(C)
  BY <1>1 DEF Ran, Real
<1> QED BY <1>2, <1>3, <1>4, <1>5

\* The eight metrics of a sample cannot contradict each other.
THEOREM Agreement == Spec => []MetricsAgree
<1>1. Inv /\ GInv => MetricsAgree
  <2> SUFFICES ASSUME Inv, GInv, NEW s \in Samples, stage = "predictions"
               PROVE  LET g == grades[s] IN
                      /\ g.utilization # "na" <=> g.execution = "pass"
                      /\ g.recovery = "pass" => g.execution = "pass"
                      /\ g.execution = "fail" => g.recovery = "fail"
                      /\ g.execution = "pass" => g.selection = "pass"
                      /\ g.hallucination = "pass" => g.selection = "pass"
                      /\ g.validity = "fail" => g.recovery # "na"
                      /\ g.hallucination = "fail" => g.recovery # "na"
                      /\ g.selection = "na" <=> g.invocation = "na"
                      /\ g.security = "na" <=> g.invocation = "na"
                      /\ g.invocation # "pass" => g.execution = "na"
    BY DEF MetricsAgree
  <2>1. grades[s] = ScoreOrExcuse(predictions[s], traces[s])
    BY DEF GInv, HandInv
  <2>2. CASE grades[s] = NotApplicable
    BY <2>2 DEF NotApplicable
  <2>3. CASE grades[s] # NotApplicable
    <3> DEFINE C == {traces[s].calls[k] : k \in DOMAIN traces[s].calls}
    <3>1. grades[s] = Metrics(traces[s]) /\ traces[s] # None
      BY <2>1, <2>3 DEF ScoreOrExcuse
    <3>2. traces[s].calls \in Seq(Records)
      BY <3>1 DEF Inv, TypeOK, Traces
    <3>3. C \subseteq Records
      BY <3>2
    <3>4. grades[s] =
            [selection |-> Selection(C), execution |-> Execution(C),
             utilization |-> Utilization(C, traces[s].used), security |-> Security(C),
             invocation |-> Invocation(C), validity |-> Validity(C),
             hallucination |-> Hallucination(C), recovery |-> Recovery(C)]
      BY <3>1 DEF Metrics
    <3> HIDE DEF C
    <3> QED BY <3>3, <3>4, Consistent
  <2> QED BY <2>2, <2>3
<1> QED BY <1>1, GradesInvariance, PTL

-----------------------------------------------------------------------------
(* Every token is in the trace. *)

\* Nothing is spent before the first turn, and a turn adds what its reply took.
LEMMA SpentGrows ==
  /\ Spent(<<>>) = 0
  /\ \A m \in Seq(Turns), turn \in Turns :
       /\ Spent(m) \in Nat
       /\ Spent(Append(m, turn)) = Spent(m) + turn.said.tokens
<1>0. \A t \in Turns : t.said.tokens \in Nat
  BY AgentAssumption DEF Turns, AllReplies
<1>1. Spent(<<>>) = 0
  <2> DEFINE f == [k \in 1..Len(<<>>) |-> <<>>[k].said.tokens]
  <2>1. DOMAIN f = {}
    BY EmptySequences
  <2> HIDE DEF f
  <2>2. SumFunction(f) = 0
    BY <2>1, SumEmpty DEF SumFunction
  <2> QED BY <2>2 DEF Spent, f
<1>2. ASSUME NEW m \in Seq(Turns), NEW turn \in Turns
      PROVE  /\ Spent(m) \in Nat
             /\ Spent(Append(m, turn)) = Spent(m) + turn.said.tokens
  <2> DEFINE n == Len(m)
             longer == Append(m, turn)
             f == [k \in 1..Len(m) |-> m[k].said.tokens]
             g == [k \in 1..Len(longer) |-> longer[k].said.tokens]
  <2>1. n \in Nat /\ Len(longer) = n + 1 /\ longer[n + 1] = turn
        /\ \A k \in 1..n : longer[k] = m[k] /\ m[k] \in Turns
    BY AppendProperties, LenProperties, ElementOfSeq
  <2>2. DOMAIN f = 1..n /\ DOMAIN g = 1..(n + 1)
    BY <2>1
  <2>3. /\ \A k \in 1..n : f[k] \in Nat /\ f[k] = g[k]
        /\ g[n + 1] = turn.said.tokens /\ g[n + 1] \in Nat
    BY <1>0, <2>1
  <2> HIDE DEF longer, f, g
  <2>4. Spent(m) = SumFunctionOnSet(f, 1..n) /\ Spent(longer) = SumFunctionOnSet(g, 1..(n + 1))
    BY <2>2 DEF Spent, SumFunction, f, g
  <2>5. SumFunctionOnSet(f, 1..n) \in Nat /\ SumFunctionOnSet(f, 1..n) = SumFunctionOnSet(g, 1..n)
    <3> DEFINE S == 1..n
    <3>1. IsFiniteSet(S) /\ \A k \in S : f[k] \in Nat /\ f[k] \in Int /\ f[k] = g[k]
      BY <2>1, <2>3, FS_Interval
    <3> HIDE DEF S
    <3>2. SumFunctionOnSet(f, S) \in Nat /\ SumFunctionOnSet(f, S) = SumFunctionOnSet(g, S)
      BY <3>1, SumType, SumSame
    <3> QED BY <3>2 DEF S
  <2>6. SumFunctionOnSet(g, 1..(n + 1)) = SumFunctionOnSet(g, 1..n) + g[n + 1]
    <3>1. \A k \in 1..(n + 1) : g[k] \in Int
      BY <2>1, <2>3
    <3> HIDE DEF n
    <3> QED BY <2>1, <3>1, SumOneMore
  <2>7. Spent(longer) = Spent(m) + turn.said.tokens /\ Spent(m) \in Nat
    BY <2>3, <2>4, <2>5, <2>6
  <2> QED BY <2>7 DEF longer
<1> QED BY <1>1, <1>2

\* What a sample has spent is what its turns took; once it is answered, its trace
\* has that, and what the answer itself took.
Metered(s) ==
  /\ tokens[s] = Spent(messages[s])
  /\ stage = "asking" /\ Answered(predictions[s]) =>
       traces[s].tokens = Spent(messages[s]) +
         (IF CutOff(predictions[s]) THEN 0 ELSE predictions[s].reply.tokens)

TokensInv == \A s \in Samples : Metered(s)

\* A sample whose conversation and prediction stay keeps its account.
LEMMA MeteredStays ==
  ASSUME NEW s \in Samples, Metered(s), stage' = "asking" => stage = "asking",
         messages'[s] = messages[s], tokens'[s] = tokens[s],
         predictions'[s] = predictions[s], traces'[s] = traces[s]
  PROVE  Metered(s)'
BY DEF Metered, Answered, CutOff, Asks

LEMMA CallsToolTokens ==
  ASSUME Inv, TokensInv, NEW s \in Samples, NEW reply \in Replies[s], CallsTool(s, reply)
  PROVE  TokensInv'
<1> DEFINE turn == [said |-> reply, told |-> ToolSays(s, reply.call)]
           newM == Append(messages[s], turn)
           newC == Append(calls[s], Record(Len(calls[s]), turn.told.kind))
<1>1. TypeOK /\ stage = "asking" /\ predictions[s] = Nothing /\ Asks(reply)
  BY DEF Inv, CallsTool, Asking
<1>2. turn \in Turns /\ turn.said = reply
  BY <1>1, ReplyType DEF Asks, Turns
<1>3. messages[s] \in Seq(Turns) /\ calls[s] \in Seq(Records)
  BY <1>1 DEF TypeOK
<1>4. /\ messages' = [messages EXCEPT ![s] = newM]
      /\ tokens' = [tokens EXCEPT ![s] = tokens[s] + reply.tokens]
      /\ Len(newC) = MaxTurns => Return(s, reply, newM, newC)
      /\ Len(newC) # MaxTurns => UNCHANGED <<table, traces, predictions>>
      /\ stage' = stage
  BY DEF CallsTool, TakeTurn
<1> HIDE DEF turn, newM, newC
<1>5. Spent(newM) = Spent(messages[s]) + reply.tokens
  BY <1>2, <1>3, SpentGrows DEF newM
<1>6. tokens[s] = Spent(messages[s]) /\ tokens'[s] = tokens[s] + reply.tokens
      /\ messages'[s] = newM
  BY <1>1, <1>4 DEF TokensInv, Metered, TypeOK
<1>7. ASSUME NEW u \in Samples, u # s
      PROVE  /\ messages'[u] = messages[u] /\ tokens'[u] = tokens[u]
             /\ predictions'[u] = predictions[u] /\ traces'[u] = traces[u]
  <2>1. messages'[u] = messages[u] /\ tokens'[u] = tokens[u]
    BY <1>1, <1>4, <1>7 DEF TypeOK
  <2>2. predictions'[u] = predictions[u] /\ traces'[u] = traces[u]
    BY <1>1, <1>4, <1>7 DEF Return, TypeOK
  <2> QED BY <2>1, <2>2
<1>8. Metered(s)'
  <2>1. CASE Len(newC) = MaxTurns
    <3>1. /\ predictions'[s].reply = reply
          /\ traces'[s].tokens = tokens[s] + reply.tokens
      BY <1>1, <1>4, <2>1 DEF Return, TypeOK
    <3>2. CutOff(predictions[s])'
      BY <1>1, <3>1 DEF CutOff, Asks
    <3>3. Spent(messages[s]) \in Nat /\ reply.tokens \in Nat
      BY <1>2, <1>3, SpentGrows, ReplyType
    <3> QED BY <1>5, <1>6, <3>1, <3>2, <3>3 DEF Metered
  <2>2. CASE Len(newC) # MaxTurns
    <3>1. ~Answered(predictions[s])'
      BY <1>1, <1>4, <2>2 DEF Answered, Nothing
    <3> QED BY <1>5, <1>6, <3>1 DEF Metered
  <2> QED BY <2>1, <2>2
<1> QED BY <1>1, <1>4, <1>7, <1>8, MeteredStays DEF TokensInv

LEMMA AnswersTokens ==
  ASSUME Inv, TokensInv, NEW s \in Samples, NEW reply \in Replies[s], Answers(s, reply)
  PROVE  TokensInv'
<1>1. /\ TypeOK /\ stage = "asking" /\ ~Asks(reply)
      /\ Return(s, reply, messages[s], calls[s])
      /\ UNCHANGED <<stage, messages, tokens>>
  BY DEF Inv, Asking, Answers, agent
<1>2. predictions'[s].reply = reply /\ traces'[s].tokens = tokens[s] + reply.tokens
  BY <1>1 DEF Return, TypeOK
<1>3. Metered(s)'
  BY <1>1, <1>2 DEF TokensInv, Metered, CutOff, Asks
<1>4. ASSUME NEW u \in Samples, u # s
      PROVE  predictions'[u] = predictions[u] /\ traces'[u] = traces[u]
  BY <1>1, <1>4 DEF Return, TypeOK
<1> QED BY <1>1, <1>3, <1>4, MeteredStays DEF TokensInv

LEMMA FailsTokens ==
  ASSUME Inv, TokensInv, NEW s \in Samples, Asking(s), Fail(s), UNCHANGED <<stage, agent>>
  PROVE  TokensInv'
<1>1. /\ predictions' = [predictions EXCEPT ![s] = [got |-> "error"]]
      /\ UNCHANGED <<stage, messages, tokens, traces>> /\ TypeOK
  BY DEF Fail, agent, Inv
<1>2. ~Answered(predictions[s])'
  BY <1>1 DEF TypeOK, Answered
<1>3. Metered(s)'
  BY <1>1, <1>2 DEF TokensInv, Metered
<1>4. \A u \in Samples \ {s} : predictions'[u] = predictions[u]
  BY <1>1 DEF TypeOK
<1> QED BY <1>1, <1>3, <1>4, MeteredStays DEF TokensInv

\* Where every conversation is empty, so is every account.
LEMMA NoTokens ==
  ASSUME \A s \in Samples : messages'[s] = <<>> /\ tokens'[s] = 0,
         stage' = "asking" => \A s \in Samples : predictions'[s] = Nothing
  PROVE  TokensInv'
<1>1. Spent(<<>>) = 0
  BY SpentGrows
<1>2. \A s \in Samples : Spent(messages[s])' = 0
  BY <1>1 DEF Spent
<1>3. stage' = "asking" => \A s \in Samples : ~Answered(predictions[s])'
  BY DEF Answered, Nothing
<1> QED BY <1>2, <1>3 DEF TokensInv, Metered

\* The tokens a trace reports are those of every turn of its conversation, and of
\* the answer unless the call was cut off: none is left out and none counted twice,
\* whatever the model says, the tools return and the turn limit is.
THEOREM TokensAreCounted == Spec => []EveryTurnIsCounted
<1>1. Init => TokensInv
  <2> SUFFICES ASSUME Init PROVE TokensInv
    OBVIOUS
  <2>1. \A s \in Samples : messages[s] = <<>> /\ tokens[s] = 0 /\ stage # "asking"
    BY DEF Init, Fresh
  <2>2. Spent(<<>>) = 0
    BY SpentGrows
  <2> QED BY <2>1, <2>2 DEF TokensInv, Metered
<1>2. Inv /\ TokensInv /\ [Next]_vars => TokensInv'
  <2> SUFFICES ASSUME Inv, TokensInv, [Next]_vars PROVE TokensInv'
    OBVIOUS
  <2>1. ASSUME NEW s \in Samples, Agent(s) PROVE TokensInv'
    <3>1. CASE \E r \in Replies[s] : CallsTool(s, r)
      BY <3>1, CallsToolTokens
    <3>2. CASE \E r \in Replies[s] : Answers(s, r)
      BY <3>2, AnswersTokens
    <3>3. CASE \E r \in Replies[s] : ToolCrashes(s, r)
      BY <3>3, FailsTokens DEF ToolCrashes
    <3>4. CASE ProviderFails(s)
      BY <3>4, FailsTokens DEF ProviderFails
    <3> QED BY <2>1, <3>1, <3>2, <3>3, <3>4 DEF Agent
  <2>2. CASE EndAsking \/ Exit
    <3>1. NoConversation /\ stage' # "asking"
      BY <2>2 DEF EndAsking, Exit
    <3>2. \A s \in Samples : messages'[s] = <<>> /\ tokens'[s] = 0
      BY <3>1 DEF NoConversation, Fresh
    <3> QED BY <3>1, <3>2, NoTokens
  <2>3. CASE StartEval
    <3>1. stage # "asking" /\ UNCHANGED <<messages, tokens>> /\ predictions' = Fresh(Nothing)
      BY <2>3 DEF StartEval, agent
    <3>2. \A s \in Samples : messages'[s] = <<>> /\ predictions'[s] = Nothing
      BY <3>1 DEF Inv, LoopInv, Talk, Fresh
    <3>3. \A s \in Samples : tokens'[s] = 0
      <4>1. \A s \in Samples : messages[s] = <<>> /\ tokens[s] = Spent(messages[s])
        BY <3>1, <3>2 DEF TokensInv, Metered
      <4> QED BY <3>1, <4>1, SpentGrows
    <3> QED BY <3>2, <3>3, NoTokens
  <2>4. CASE \/ StartRescore \/ Score \/ WritePredictions \/ WriteGrades \/ WriteTraces
             \/ UNCHANGED vars
    <3>1. UNCHANGED <<messages, tokens>>
          /\ (stage' = "asking" => UNCHANGED <<stage, predictions, traces>>)
      BY <2>4 DEF StartRescore, Score, WritePredictions, WriteGrades, WriteTraces, vars, agent
    <3> QED BY <3>1 DEF TokensInv, Metered, Answered, CutOff, Asks
  <2> QED BY <2>1, <2>2, <2>3, <2>4 DEF Next, Work
<1>3. TokensInv => EveryTurnIsCounted
  BY DEF TokensInv, Metered, EveryTurnIsCounted
<1> QED BY <1>1, <1>2, <1>3, Invariance, PTL DEF Spec

-----------------------------------------------------------------------------
(* A command comes to its end. *)

\* What is still to be done about a sample: its turns, and its answer.
TurnsLeft ==
  [s \in Samples |-> IF predictions[s] = Nothing THEN MaxTurns - Len(calls[s]) + 1 ELSE 0]

StagesLeft ==
  CASE stage = "asking" -> 5
    [] stage = "scoring" -> 4
    [] stage = "predictions" -> 3
    [] stage = "grades" -> 2
    [] stage = "traces" -> 1
    [] OTHER -> 0

\* What is still to be done in the command under way.
CommandLeft ==
  StagesLeft + (IF stage = "asking" THEN SumFunctionOnSet(TurnsLeft, Samples) ELSE 0)

LEMMA OneTurnFewer ==
  ASSUME NEW m \in Nat, NEW n \in Nat, n < m
  PROVE  /\ m - n + 1 \in Nat /\ 0 < m - n + 1
         /\ m - (n + 1) + 1 \in Nat /\ m - (n + 1) + 1 < m - n + 1
OBVIOUS

\* A sample in the loop has at least the turn it waits for.
LEMMA TurnsAreNumbers ==
  ASSUME Inv, stage = "asking"
  PROVE  /\ \A s \in Samples : TurnsLeft[s] \in Nat
         /\ \A s \in Samples : Asking(s) =>
              TurnsLeft[s] = MaxTurns - Len(calls[s]) + 1 /\ Len(calls[s]) < MaxTurns
         /\ SumFunctionOnSet(TurnsLeft, Samples) \in Nat
<1>1. MaxTurns \in Nat /\ IsFiniteSet(Samples)
  BY AgentAssumption
<1>2. \A s \in Samples : Asking(s) =>
        /\ Len(calls[s]) \in Nat /\ Len(calls[s]) < MaxTurns
        /\ TurnsLeft[s] = MaxTurns - Len(calls[s]) + 1
  <2>1. SUFFICES ASSUME NEW s \in Samples, Asking(s)
                 PROVE  /\ Len(calls[s]) \in Nat /\ Len(calls[s]) < MaxTurns
                        /\ TurnsLeft[s] = MaxTurns - Len(calls[s]) + 1
    OBVIOUS
  <2>2. Talk(s) /\ TypeOK
    BY DEF Inv, LoopInv
  <2>3. messages[s] \in Seq(Turns) /\ calls[s] \in Seq(Records)
    BY <2>2 DEF TypeOK
  <2>4. Len(messages[s]) \in Nat /\ Len(calls[s]) \in Nat
    BY <2>3, LenProperties
  <2>5. calls[s] = [k \in 1..Len(messages[s]) |-> Record(k - 1, messages[s][k].told.kind)]
    BY <2>2 DEF Talk, RecordsOf
  <2>6. Len(calls[s]) = Len(messages[s])
    BY <2>4, <2>5
  <2> QED BY <2>1, <2>2, <2>4, <2>6 DEF Talk, Asking, TurnsLeft
<1>3. \A s \in Samples : ~Asking(s) => TurnsLeft[s] = 0
  BY DEF TurnsLeft, Asking
<1>4. \A s \in Samples : TurnsLeft[s] \in Nat
  <2>1. SUFFICES ASSUME NEW s \in Samples PROVE TurnsLeft[s] \in Nat
    OBVIOUS
  <2>2. CASE Asking(s)
    BY <1>1, <1>2, <2>2, OneTurnFewer
  <2>3. CASE ~Asking(s)
    <3>1. TurnsLeft[s] = 0 /\ 0 \in Nat
      BY <1>3, <2>3
    <3> QED BY <3>1
  <2> QED BY <2>2, <2>3
<1>5. SumFunctionOnSet(TurnsLeft, Samples) \in Nat
  <2> HIDE DEF TurnsLeft
  <2> QED BY <1>1, <1>4, SumType
<1> QED BY <1>2, <1>4, <1>5

\* One sample of the loop gets on, the others stay: less is left of the command.
LEMMA OneGetsOn ==
  ASSUME Inv, stage = "asking", stage' = "asking", NEW s \in Samples,
         TurnsLeft'[s] \in Nat, TurnsLeft'[s] < TurnsLeft[s],
         \A u \in Samples \ {s} : TurnsLeft'[u] = TurnsLeft[u]
  PROVE  CommandLeft' < CommandLeft
<1> DEFINE f == TurnsLeft
           g == TurnsLeft'
           before == SumFunctionOnSet(f, Samples)
           after == SumFunctionOnSet(g, Samples)
<1>1. IsFiniteSet(Samples)
  BY AgentAssumption
<1>2. \A u \in Samples : f[u] \in Nat
  BY TurnsAreNumbers
<1>3. f[s] \in Nat /\ g[s] < f[s]
  BY <1>2
<1>4. \A u \in Samples : g[u] \in Nat
  BY <1>2
<1>5. \A u \in Samples \ {s} : f[u] = g[u]
  OBVIOUS
<1> HIDE DEF f, g
<1>6. after = before + (g[s] - f[s])
  BY <1>1, <1>2, <1>4, <1>5, SumChange
<1>7. before \in Nat
  BY <1>1, <1>2, SumType
<1>8. g[s] \in Nat
  BY <1>4
<1> HIDE DEF before, after
<1>9. after < before /\ after \in Int
  BY <1>3, <1>6, <1>7, <1>8
<1>10. CommandLeft = 5 + before /\ CommandLeft' = 5 + after
  BY DEF CommandLeft, StagesLeft, before, after, f, g
<1> QED BY <1>7, <1>9, <1>10

\* A turn with a tool leaves one turn less, an answer and a failure leave none.
LEMMA SampleGetsOn ==
  ASSUME Inv, NEW s \in Samples, Agent(s)
  PROVE  CommandLeft' < CommandLeft
<1>1. /\ stage = "asking" /\ stage' = "asking" /\ Asking(s)
      /\ \A u \in Samples \ {s} : predictions'[u] = predictions[u] /\ calls'[u] = calls[u]
      /\ \/ predictions'[s] # Nothing
         \/ predictions'[s] = Nothing /\ Len(calls'[s]) = Len(calls[s]) + 1
      /\ Len(calls[s]) \in Nat
  <2>1. TypeOK /\ calls[s] \in Seq(Records) /\ Len(calls[s]) \in Nat
    BY LenProperties DEF Inv, TypeOK
  <2>2. CASE ProviderFails(s)
    BY <2>1, <2>2 DEF ProviderFails, Fail, Asking, Nothing, TypeOK, agent
  <2>3. CASE \E r \in Replies[s] : ToolCrashes(s, r)
    BY <2>1, <2>3 DEF ToolCrashes, Fail, Asking, Nothing, TypeOK, agent
  <2>4. CASE \E r \in Replies[s] : Answers(s, r)
    BY <2>1, <2>4 DEF Answers, Return, Asking, Nothing, TypeOK, agent
  <2>5. CASE \E r \in Replies[s] : CallsTool(s, r)
    <3>1. PICK r \in Replies[s] : CallsTool(s, r)
      BY <2>5
    <3> DEFINE kind == ToolSays(s, r.call).kind
               newC == Append(calls[s], Record(Len(calls[s]), kind))
    <3>2. Len(newC) = Len(calls[s]) + 1
      <4>1. Talk(s)
        BY DEF Inv, LoopInv
      <4>2. Len(calls[s]) < MaxTurns
        BY <3>1, TurnsAreNumbers DEF CallsTool, Asking
      <4>3. Record(Len(calls[s]), kind) \in Records
        BY <2>1, <4>2, RecordType
      <4> QED BY <2>1, <4>3, AppendProperties
    <3>3. /\ calls' = [calls EXCEPT ![s] = newC]
          /\ predictions' = predictions \/ \E p : predictions' = [predictions EXCEPT ![s] = p] /\ p # Nothing
      BY <3>1 DEF CallsTool, TakeTurn, Return, Nothing
    <3>4. stage = "asking" /\ stage' = "asking" /\ Asking(s)
      BY <3>1 DEF CallsTool, Asking
    <3> HIDE DEF newC
    <3> QED BY <2>1, <3>2, <3>3, <3>4 DEF TypeOK, Asking
  <2> QED BY <2>2, <2>3, <2>4, <2>5 DEF Agent
<1>2. /\ TurnsLeft[s] = MaxTurns - Len(calls[s]) + 1 /\ Len(calls[s]) < MaxTurns
      /\ MaxTurns \in Nat
  BY <1>1, TurnsAreNumbers, AgentAssumption
<1>3. TurnsLeft'[s] =
        IF predictions'[s] = Nothing THEN MaxTurns - Len(calls'[s]) + 1 ELSE 0
  BY DEF TurnsLeft, Nothing
<1>4. TurnsLeft'[s] \in Nat /\ TurnsLeft'[s] < TurnsLeft[s]
  <2>1. CASE predictions'[s] # Nothing
    <3>1. TurnsLeft'[s] = 0 /\ 0 \in Nat
      BY <1>3, <2>1
    <3> QED BY <1>1, <1>2, <3>1, OneTurnFewer
  <2>2. CASE predictions'[s] = Nothing
    <3>1. TurnsLeft'[s] = MaxTurns - (Len(calls[s]) + 1) + 1
      BY <1>1, <1>3, <2>2
    <3> QED BY <1>1, <1>2, <3>1, OneTurnFewer
  <2> QED BY <2>1, <2>2
<1>5. \A u \in Samples \ {s} : TurnsLeft'[u] = TurnsLeft[u]
  BY <1>1 DEF TurnsLeft, Nothing
<1> QED BY <1>1, <1>4, <1>5, OneGetsOn

\* What is left of a command is a number, and every step while one is under way, whoever
\* takes it, leaves less: an eval ends after at most MaxTurns + 1 steps a sample and five
\* of its own.  This is what AsksToTheEnd rests on besides the fairness of the steps.
THEOREM EveryTurnCounts ==
  Spec => [](CommandLeft \in Nat) /\ [][stage # "idle" => CommandLeft' < CommandLeft]_vars
<1>1. Inv => CommandLeft \in Nat
  BY TurnsAreNumbers DEF CommandLeft, StagesLeft
<1>2. Inv /\ [Next]_vars => [stage # "idle" => CommandLeft' < CommandLeft]_vars
  <2>1. SUFFICES ASSUME Inv, Next, stage # "idle" PROVE CommandLeft' < CommandLeft
    OBVIOUS
  <2>2. CASE \E s \in Samples : Agent(s)
    BY <2>1, <2>2, SampleGetsOn
  <2>3. CASE EndAsking
    BY <2>1, <2>3, TurnsAreNumbers DEF EndAsking, CommandLeft, StagesLeft
  <2>4. CASE Score \/ WritePredictions \/ WriteGrades \/ WriteTraces
    BY <2>4 DEF Score, WritePredictions, WriteGrades, WriteTraces, CommandLeft, StagesLeft
  <2>5. CASE Exit
    <3>1. stage \in {"asking", "scoring", "predictions", "grades", "traces"}
      BY <2>1 DEF Inv, TypeOK
    <3> QED BY <2>1, <2>5, <3>1, TurnsAreNumbers DEF Exit, CommandLeft, StagesLeft
  <2> QED BY <2>1, <2>2, <2>3, <2>4, <2>5 DEF Next, Work, StartEval, StartRescore
<1> QED BY <1>1, <1>2, Invariance, PTL DEF Spec
=============================================================================
