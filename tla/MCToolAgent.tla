----------------------------- MODULE MCToolAgent -----------------------------
(* Instances of ToolAgent over the tools of FinanceTools, for TLC. *)
EXTENDS ToolAgent, FinanceTools, TLC

CONSTANTS s1, s2

\* A small set of books: a table with a bracketed negative and a note, and one rate; and
\* a question whose only table is empty.
Books ==
  [order |-> <<"ledger">>,
   tables |-> [ledger |-> <<
     <<"label", [as |-> "text", n |-> 0]>>,
     <<"payroll", [as |-> "plain", n |-> 30]>>, <<"payroll", [as |-> "brackets", n |-> -10]>>,
     <<"rent", [as |-> "text", n |-> 0]>> >>],
   rates |-> [usd |-> 90],
   lines |-> {<<"revenue", 120>>}]
Bare == [order |-> <<"ledger">>, tables |-> [ledger |-> <<>>], rates |-> <<>>, lines |-> {}]

MCExecute(call, s) == ExecuteTool(call, IF s = s1 THEN Books ELSE Bare)

Says(tool, args, numbers) ==
  [call |-> [tool |-> tool, args |-> args], numbers |-> numbers, tokens |-> 2]
Calculate(e, numbers) == Says("calculator", [expression |-> e], numbers)
Answer(numbers) == [call |-> NoCall, numbers |-> numbers, tokens |-> 1]

\* 30 - 24, in words the model can repeat.
Six == Calculate(Op("-", Num(30), Num(24)), {24, 30})
\* A refusal inside a function.
Odd == Calculate(Apply("abs", <<Foreign>>), {})
Payroll ==
  Says("csv_query", [table |-> "", where |-> <<"label", "payroll">>, aggregate |-> "sum",
                     column |-> "amount"], {})
\* One call of most other tools, some of which cannot be done, and of one that does not exist.
Others ==
  {Says("formula", [name |-> "working_capital", x |-> Amount(30), y |-> Infinite], {30}),
   Says("percent_change", [old |-> Infinite, new |-> Amount(1)], {1}),
   Says("basis_points", [percent |-> Missing, basis_points |-> Junk], {}),
   Says("convert_currency", [amount |-> Amount(2), from |-> "usd", to |-> "eur"], {2}),
   Says("date_diff", [from |-> Amount(1), to |-> Amount(7)], {1, 7}),
   Says("ask_an_expert", [question |-> Missing], {}),
   Payroll}

Said == (s1 :> {Six, Odd, Answer({6})} \cup Others) @@ (s2 :> {Payroll})

\* A third command is a rescore, of what little was said.
Little == (s1 :> {Six, Odd, Answer({6})}) @@ (s2 :> {Payroll})
LastSaid(s) == {p.reply : p \in {q \in {predictions[s], disk.predictions[s]} : q.got = "answer"}}
ThirdIsARescore ==
  commands > 2 => command # "eval" /\ \A s \in Samples : LastSaid(s) \subseteq Little[s]

-----------------------------------------------------------------------------
(* What the sandbox lets through. *)

\* Every expression of up to two levels and five symbols over two numbers and a name, with
\* an operator and a function that are not allowed, and the short ones negated once more.
Over(xs) ==
  xs \cup {Neg(x) : x \in xs}
     \cup {Op(op, l, r) : op \in {"-", "/", "**", "@"}, l \in xs, r \in xs}
     \cup {Apply(f, <<x>>) : f \in {"abs", "open"}, x \in xs}
     \cup {Apply("max", <<x, y>>) : x \in xs, y \in xs}
Atoms == {Num(0), Num(3), Foreign}
UpTo(n) == {e \in Over(Over(Atoms)) : Size(e) <= n}
Expressions == UpTo(5) \cup {Neg(x) : x \in UpTo(3)}

Arithmetic(e) ==
  \A x \in Nodes(e) :
    /\ x.node \in {"num", "op", "neg", "call"}
    /\ x.node = "op" => x.op \in Operators
    /\ x.node = "call" => x.f \in Functions
    /\ x.node = "op" /\ x.op = "**" => Abs(EvalNode(x.r, 0).n) <= MaxExponent

RECURSIVE DeeperThan(_, _)
DeeperThan(e, levels) ==
  \/ levels < 0
  \/ e.node = "op" /\ (DeeperThan(e.l, levels - 1) \/ DeeperThan(e.r, levels - 1))
  \/ e.node = "neg" /\ DeeperThan(e.x, levels - 1)
  \/ e.node = "call" /\ \E k \in DOMAIN e.args : DeeperThan(e.args[k], levels - 1)

WithinLimits(e) == Size(e) <= MaxSize /\ ~DeeperThan(e, MaxDepth)

\* A calculator call that runs asks for arithmetic in every part of its expression, within
\* the limits of length, depth and exponent, and one recorded as a security event asks
\* for something else or goes beyond them (sandbox.py:139-255, registry.py:191-202).  What a
\* call ends in depends on nothing but the call, so that one state says it all.
OnlyArithmeticRuns ==
  commands = 0 => \A e \in Expressions :
    LET told == ExecuteTool(Calculate(e, {}).call, Books) IN
    /\ told.kind = "ok" => Arithmetic(e) /\ WithinLimits(e)
    /\ told.kind = "security_refused" => ~Arithmetic(e) \/ ~WithinLimits(e)
=============================================================================
