---------------------------- MODULE FinqaPrograms ----------------------------
(***************************************************************************)
(* The official metrics of FinQA and ConvFinQA (evaluation/native/finqa.py *)
(* and convfinqa.py): a model asked for a program writes one token after   *)
(* another and may be cut off anywhere; the program found in its reply is  *)
(* executed on the sample's table, and compared with the gold program as   *)
(* an expression over the gold's operands.                                 *)
(*                                                                         *)
(* A program is the sequence of its tokens, without the EOF that is always *)
(* appended and always dropped.  Numbers are exact fractions, where the    *)
(* code has floats that it rounds to five decimals; exp is left out.       *)
(***************************************************************************)
EXTENDS Integers, Sequences, FiniteSets, SequencesExt

CONSTANTS
    Samples,      \* the samples asked: gold program, answer, table, and what a model may
                  \* write of it, with a bound on the tokens of a line (limit)
    Drafts,       \* lines a reply may hold before its program
    NotPlain,     \* row labels with characters no program may have
    MaxMisplaced, \* bound on the tokens of a line of which one is out of place
    NoProgram     \* no line of a reply, or no gold, is a program

VARIABLES
    sample,       \* the sample being asked
    reply,        \* its lines, and those of them in the first code block
    misplaced,    \* some token is out of place
    verdict       \* what the metrics say, or NotGraded

vars == <<sample, reply, misplaced, verdict>>

-----------------------------------------------------------------------------
(* Tokens, as program_tokenization cuts a text. *)

Op(name) == [op |-> name]
Number(n, form) == [number |-> n, form |-> form]
Ref(step) == [ref |-> step]
Word(text) == [word |-> text]
Close == [close |-> TRUE]

IsOp(token) == "op" \in DOMAIN token
IsRef(token) == "ref" \in DOMAIN token
IsArgument(token) == ~IsOp(token) /\ token # Close

ArithmeticOps == {"add", "subtract", "multiply", "divide", "greater"}
TableOps == {"table_max", "table_min", "table_sum", "table_average"}
AllOps == ArithmeticOps \union TableOps

-----------------------------------------------------------------------------
(* Values: a fraction, a word, or a fault that ends the execution. *)

Fraction(n, d) == IF d < 0 THEN [num |-> -n, den |-> -d] ELSE [num |-> n, den |-> d]
Whole(n) == Fraction(n, 1)
Says(text) == [says |-> text]
Fault == [fault |-> TRUE]
NA == Says("n/a")

IsNumber(v) == "num" \in DOMAIN v
Plus(x, y) == Fraction(x.num * y.den + y.num * x.den, x.den * y.den)
Minus(x, y) == Plus(x, [y EXCEPT !.num = -@])
Exceeds(x, y) == Minus(x, y).num > 0
SameValue(x, y) == IF IsNumber(x) /\ IsNumber(y) THEN Minus(x, y).num = 0 ELSE x = y

Arithmetic(op, x, y) ==
    CASE op = "add"      -> Plus(x, y)
      [] op = "subtract" -> Minus(x, y)
      [] op = "multiply" -> Fraction(x.num * y.num, x.den * y.den)
      [] op = "divide"   -> IF y.num = 0 THEN Fault
                            ELSE Fraction(x.num * y.den, x.den * y.num)

Operate(op, x, y) ==
    IF ~IsNumber(x) \/ ~IsNumber(y) THEN Fault
    ELSE IF op = "greater" THEN Says(IF Exceeds(x, y) THEN "yes" ELSE "no")
    ELSE Arithmetic(op, x, y)

StrToNum(token) ==
    IF "number" \notin DOMAIN token THEN Fault
    ELSE CASE token.form \in {"plain", "signed", "const"} -> Whole(token.number)
           [] token.form = "percent" -> Fraction(token.number, 100)

\* "$ 32" and "-32 ( 32 )" are read up to the bracket; "( 32 )" has nothing before it.
CellValue(cell) ==
    IF cell.form \in {"dollars", "explained"} THEN Whole(cell.number)
    ELSE IF cell.form \in {"bracketed", "text"} THEN Fault
    ELSE StrToNum(cell)

-----------------------------------------------------------------------------
(* eval_program. *)

Structured(tokens) ==
    \A i \in DOMAIN tokens :
        /\ i % 4 = 1 => IsOp(tokens[i]) /\ tokens[i].op \in AllOps
        /\ i % 4 = 0 => tokens[i] = Close

Closes(tokens) == SelectSeq([i \in DOMAIN tokens |-> i], LAMBDA i : tokens[i] = Close)

\* What stands before each closing bracket; what follows the last one is dropped.
Steps(tokens) ==
    LET ends == Closes(tokens)
    IN  [k \in DOMAIN ends |->
            SubSeq(tokens, IF k = 1 THEN 1 ELSE ends[k - 1] + 1, ends[k] - 1)]

IsStep(step) == Len(step) = 3 /\ IsOp(step[1]) /\ IsArgument(step[2]) /\ IsArgument(step[3])

\* Mutant of Operand: a reference is to the step before, whatever its number.
OperandBefore(arg, results) ==
    IF IsRef(arg) THEN IF results = <<>> THEN Fault ELSE Last(results) ELSE StrToNum(arg)

\* A word where a number is due, and a step that is not there yet, end the execution.
Operand(arg, results) ==
    IF ~IsRef(arg) THEN StrToNum(arg)
    ELSE IF arg.ref < Len(results) THEN results[arg.ref + 1] ELSE Fault

Total(values) == FoldLeft(Plus, Whole(0), values)
Largest(values) == FoldLeft(LAMBDA x, y : IF Exceeds(y, x) THEN y ELSE x, Head(values), values)
Smallest(values) == FoldLeft(LAMBDA x, y : IF Exceeds(x, y) THEN y ELSE x, Head(values), values)

\* The last of the rows that have one label counts.
RowValue(op, label, table) ==
    LET rows == SelectSeq(table, LAMBDA row : Word(row.label) = label)
        values == [c \in DOMAIN Last(rows).cells |-> CellValue(Last(rows).cells[c])]
    IN  IF rows = <<>> \/ Fault \in Range(values) \/ (values = <<>> /\ op # "table_sum") THEN Fault
        ELSE CASE op = "table_max" -> Largest(values)
               [] op = "table_min" -> Smallest(values)
               [] op = "table_sum" -> Total(values)
               [] op = "table_average" ->
                    Fraction(Total(values).num, Total(values).den * Len(values))

StepValue(step, results, table) ==
    IF ~IsStep(step) THEN Fault
    ELSE IF step[1].op \in TableOps THEN RowValue(step[1].op, step[2], table)
    ELSE Operate(step[1].op, Operand(step[2], results), Operand(step[3], results))

\* One turn of the loop; after a fault nothing more is executed.
Execute(run, step, table) ==
    LET value == StepValue(step, run.results, table)
    IN  IF run.invalid THEN run
        ELSE IF value = Fault THEN [run EXCEPT !.invalid = TRUE]
        ELSE [run EXCEPT !.results = Append(@, value)]

EvalProgram(tokens, table) ==
    LET run == FoldLeft(LAMBDA r, step : Execute(r, step, table),
                        [invalid |-> FALSE, results |-> <<>>], Steps(tokens))
    IN  IF ~Structured(tokens) THEN [invalid |-> TRUE, result |-> NA]
        ELSE [invalid |-> run.invalid,
              result |-> IF run.results = <<>> THEN NA ELSE Last(run.results)]

-----------------------------------------------------------------------------
(* equal_program. *)

\* Mutant of TableSymbol: a row is one symbol, whatever is taken of it.
TableSymbolOfRow(steps, k) == steps[k][2]

\* A table step is known by its text.  The text of a step that is not the first
\* keeps the bar it was joined with.
TableSymbol(steps, k) == [step |-> steps[k], barred |-> k > 1]

IsTableStep(step) == step[1].op \in TableOps

Symbols(steps, k) ==
    IF IsTableStep(steps[k]) THEN <<TableSymbol(steps, k)>>
    ELSE SelectSeq(Tail(steps[k]), LAMBDA arg : ~IsRef(arg))

\* The gold's operands, numbered in the order they are met.
SymMap(gold) ==
    LET Note(known, s) == IF Contains(known, s) THEN known ELSE Append(known, s)
    IN  FoldLeft(Note, <<>>, FlattenSeq([k \in DOMAIN gold |-> Symbols(gold, k)]))

\* A prediction may not invent an operand, nor refer to a step that is to come.
Admissible(steps, symMap) ==
    \A k \in DOMAIN steps :
        /\ IsStep(steps[k])
        /\ Range(Symbols(steps, k)) \subseteq Range(symMap)
        /\ IsTableStep(steps[k]) \/ \A arg \in Range(Tail(steps[k])) :
                IsRef(arg) => arg.ref < k - 1

\* Numbers for the operands, by which expressions are told apart below.
Points == { <<2, 3, 5, 7, 11, 13>>, <<17, 4, 9, 5, 3, 8>>, <<6, 25, 7, 2, 19, 1>> }

\* The expression of every step, at one point: a comparison by its two sides.
SymbolRecur(steps, symMap, point) ==
    LET Value(s) == Whole(point[CHOOSE i \in DOMAIN symMap : symMap[i] = s])
        expression[k \in DOMAIN steps] ==
            LET side(arg) == IF ~IsRef(arg) THEN Value(arg)
                             ELSE IF arg.ref < k - 1 THEN expression[arg.ref + 1] ELSE Fault
                x == side(steps[k][2])
                y == side(steps[k][3])
            IN  IF IsTableStep(steps[k]) THEN Value(TableSymbol(steps, k))
                ELSE IF ~IsNumber(x) \/ ~IsNumber(y) THEN Fault
                ELSE IF steps[k][1].op = "greater" THEN [over |-> Minus(x, y)]
                ELSE Arithmetic(steps[k][1].op, x, y)
    IN  expression[Len(steps)]

\* sympy simplifies both to one expression when they are one function of their operands.
SameExpression(e, f) ==
    \/ IsNumber(e) /\ IsNumber(f) /\ SameValue(e, f)
    \/ "over" \in DOMAIN e /\ "over" \in DOMAIN f /\ SameValue(e.over, f.over)

EqualProgram(gold, pred) ==
    LET goldSteps == Steps(gold)
        predSteps == Steps(pred)
        symMap == SymMap(goldSteps)
    IN  /\ Structured(pred)
        /\ Admissible(predSteps, symMap)
        /\ goldSteps # <<>> /\ predSteps # <<>>
        /\ \A p \in Points : SameExpression(SymbolRecur(goldSteps, symMap, p),
                                            SymbolRecur(predSteps, symMap, p))

-----------------------------------------------------------------------------
(* From a reply to the metrics. *)

\* Digits, letters, "#", "_" and brackets: no sign, no percent, no "/" or "&".
PlainCharacters(token) ==
    /\ "form" \in DOMAIN token => token.form \in {"plain", "const"}
    /\ "word" \in DOMAIN token => token.word \notin NotPlain

LooksLikeAProgram(line) ==
    /\ line # <<>> /\ IsOp(line[1]) /\ line[1].op \in AllOps
    /\ Close \in Range(line)
    /\ \A t \in Range(line) : PlainCharacters(t)

\* The last line that is entirely a program, of the first code block if there is one.
ExtractProgram(r) ==
    LET programs == SelectSeq(SubSeq(r.lines, r.block[1], r.block[2]), LooksLikeAProgram)
    IN  IF programs = <<>> THEN NoProgram ELSE Last(programs)

NotGraded == [graded |-> FALSE]
NoAnswer == [graded |-> TRUE, found |-> NoProgram, execution |-> FALSE, program |-> FALSE]

Score(s, r) ==
    LET found == ExtractProgram(r)
        run == EvalProgram(found, s.table)
    IN  IF found = NoProgram THEN NoAnswer
        ELSE [graded |-> TRUE, found |-> found,
              execution |-> ~run.invalid /\ SameValue(run.result, s.answer),
              program |-> s.gold # NoProgram /\ EqualProgram(s.gold, found)]

-----------------------------------------------------------------------------
(* The model writes, and is graded. *)

Line == Last(reply.lines)

Tokens(s) == {Op(name) : name \in s.operations} \union s.operands \union {Close}

Fits(token) ==
    CASE Len(Line) % 4 = 0 -> IsOp(token)
      [] Len(Line) % 4 = 3 -> token = Close
      [] OTHER -> IsArgument(token)

Asking == verdict = NotGraded

Write ==
    /\ Asking
    /\ \E token \in Tokens(sample) :
        /\ ~Fits(token) => ~misplaced
        /\ misplaced' = (misplaced \/ ~Fits(token))
        /\ Len(Line) < IF misplaced' THEN MaxMisplaced ELSE sample.limit
        /\ reply' = [reply EXCEPT !.lines[Len(reply.lines)] = Append(@, token)]
    /\ UNCHANGED <<sample, verdict>>

\* The reply ends, or the limit on its tokens cuts it.  A turn of ConvFinQA is
\* graded by the same two metrics.
Grade ==
    /\ Asking /\ Line # <<>>
    /\ verdict' = Score(sample, reply)
    /\ UNCHANGED <<sample, reply, misplaced>>

\* The call failed: there is no response to look at.
GradeNoResponse ==
    /\ Asking /\ Line = <<>>
    /\ verdict' = NoAnswer
    /\ UNCHANGED <<sample, reply, misplaced>>

\* A reply is a program alone, or a draft and a program of which neither, the
\* draft or the program is in the first code block.
Blank ==
    {[lines |-> <<<<>>>>, block |-> <<1, 1>>]} \union
    {[lines |-> <<draft, <<>>>>, block |-> block] :
        draft \in Drafts, block \in {<<1, 2>>, <<1, 1>>, <<2, 2>>}}

Init ==
    /\ sample \in Samples /\ reply \in Blank
    /\ misplaced = FALSE /\ verdict = NotGraded

Next == Write \/ Grade \/ GradeNoResponse

Spec == Init /\ [][Next]_vars

-----------------------------------------------------------------------------
(* What a program means, step by step at its place: the reference for EvalProgram. *)

WellFormed(tokens) ==
    /\ Structured(tokens)
    /\ \A i \in DOMAIN tokens :
        i % 4 \in {2, 3} =>
            IF i <= 4 * (Len(tokens) \div 4) THEN IsArgument(tokens[i])
            ELSE tokens[i] # Close

Meaning(tokens, table) ==
    LET At(k, i) == tokens[4 * k + i]
        value[k \in 0..(Len(tokens) \div 4 - 1)] ==
            LET argument(i) == IF ~IsRef(At(k, i)) THEN StrToNum(At(k, i))
                               ELSE IF At(k, i).ref < k THEN value[At(k, i).ref] ELSE Fault
            IN  IF At(k, 1).op \in TableOps THEN RowValue(At(k, 1).op, At(k, 2), table)
                ELSE Operate(At(k, 1).op, argument(2), argument(3))
    IN  value

Means(tokens, table, result) ==
    /\ WellFormed(tokens)
    /\ LET value == Meaning(tokens, table)
           last == Len(tokens) \div 4 - 1
       IN  /\ \A k \in 0..last : value[k] # Fault
           /\ result = IF last < 0 THEN NA ELSE value[last]

Found == verdict.graded /\ verdict.found # NoProgram

-----------------------------------------------------------------------------
(* Properties. *)

\* A program is executed exactly when it is well formed and every whole step of it
\* has a value, and its result is the last one's; a step the reply was cut off in
\* counts for nothing (finqa.py eval_program).
ExecutesWhatIsWritten ==
    Found =>
        LET run == EvalProgram(verdict.found, sample.table)
        IN  ~run.invalid <=> Means(verdict.found, sample.table, run.result)

\* Program accuracy is the stricter metric: a program accepted as the gold's equal,
\* and that can be executed at all, gives the gold's answer, on the numbers and the
\* table of the sample and not only as symbols (finqa.py equal_program; convfinqa.py:
\* two programs may "agree on the answer and disagree on the reasoning", not the reverse).
EqualProgramsAnswerAlike ==
    Found /\ verdict.program =>
        verdict.execution \/ EvalProgram(verdict.found, sample.table).invalid

\* A reply that is the gold program word for word is right by both metrics: no run
\* should "score zero for reasons that have nothing to do with financial reasoning"
\* (finqa.py extract_program).
GoldProgramIsRight ==
    verdict.graded /\ Len(reply.lines) = 1 /\ Line = sample.gold =>
        verdict.program /\ verdict.execution
=============================================================================
