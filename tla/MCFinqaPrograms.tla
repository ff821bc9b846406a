--------------------------- MODULE MCFinqaPrograms ---------------------------
(* Small samples for FinqaPrograms: each has the operands of its gold and some others. *)
EXTENDS FinqaPrograms

eight == Number(8, "plain")
five == Number(5, "plain")
constFive == Number(5, "const")
none == Word("none")
sales == Word("sales")
freight == Word("freight")

Step(name, a, b) == <<Op(name), a, b, Close>>
Cell(n, form) == [number |-> n, form |-> form]

\* Two rows are called "sales"; the total of "freight" cannot be read.
Books ==
    << [label |-> "sales", cells |-> <<Cell(1, "plain")>>],
       [label |-> "freight", cells |-> <<Cell(3, "plain"), Cell(4, "bracketed")>>],
       [label |-> "sales", cells |-> <<Cell(6, "dollars"), Cell(-2, "explained")>>] >>

Sample(gold, answer, limit, operations, operands) ==
    [gold |-> gold, answer |-> answer, table |-> Books, limit |-> limit,
     operations |-> operations, operands |-> operands]

PercentageChange ==
    Sample(Step("subtract", eight, five) \o Step("divide", Ref(0), five), Fraction(3, 5), 9,
           {"subtract", "divide"}, {eight, five, constFive, Ref(0), Ref(1)})

\* Many programs are this one's equal: whatever leaves the eight alone.
ThereAndBack ==
    Sample(Step("multiply", eight, constFive) \o Step("divide", Ref(0), constFive), Whole(8), 9,
           {"add", "subtract", "multiply", "divide"}, {eight, constFive, Ref(0), Ref(1)})

ShareOfTotal ==
    Sample(Step("table_sum", sales, none) \o Step("divide", eight, Ref(0)), Whole(2), 9,
           {"table_sum", "table_max", "divide"}, {eight, sales, freight, none, Ref(0)})

Comparison ==
    Sample(Step("greater", eight, five), Says("yes"), 12,
           {"greater", "subtract"}, {eight, five, Ref(0)})

\* A turn of ConvFinQA that only looks a number up: its program is the number.
LookUp ==
    Sample(<<eight>>, Whole(8), 9, {"add", "average"}, {eight, Number(0, "const"), Ref(0)})

OfPercents ==
    Sample(Step("subtract", Number(8, "percent"), eight), Fraction(-792, 100), 9,
           {"subtract"}, {eight, Number(8, "percent")})

\* The gold programs of the data set execute to its answers (test_finqa_e2e.py:124).
ASSUME GoldsExecute ==
    \A s \in {PercentageChange, ThereAndBack, ShareOfTotal, Comparison, OfPercents} :
        LET run == EvalProgram(s.gold, s.table)
        IN  ~run.invalid /\ SameValue(run.result, s.answer)

AllSamples == {PercentageChange, ThereAndBack, ShareOfTotal, Comparison, LookUp, OfPercents}

Draft == {Step("divide", eight, five)}
=============================================================================
