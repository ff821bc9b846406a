----------------------------- MODULE FinanceTools -----------------------------
(***************************************************************************)
(* The tools a model may call (tools/registry.py) and the sandbox that     *)
(* evaluates expressions (tools/sandbox.py).  ExecuteTool gives what a     *)
(* call ends in: "ok", the kind of the ToolExecutionError, or "crash" for  *)
(* an exception of another class; and the numbers its output shows.        *)
(* Amounts are whole numbers, and a quotient loses its fraction.           *)
(***************************************************************************)
EXTENDS Integers, Sequences, SequencesExt

CONSTANTS MaxDepth, MaxExponent, MaxSize  \* 20 levels, 64 and 500 characters in the code

ASSUME SandboxAssumption == {MaxDepth, MaxExponent, MaxSize} \subseteq Nat

-----------------------------------------------------------------------------
(* Expressions and their evaluation. *)

Num(n) == [node |-> "num", n |-> n]
Op(op, l, r) == [node |-> "op", op |-> op, l |-> l, r |-> r]
Neg(x) == [node |-> "neg", x |-> x]
Apply(f, args) == [node |-> "call", f |-> f, args |-> args]
\* A name, a string, an attribute: everything that is no arithmetic.
Foreign == [node |-> "foreign"]
Unparsable == [node |-> "unparsable"]

Value(n) == [ok |-> TRUE, n |-> n, why |-> "none"]
Refusal(why) == [ok |-> FALSE, n |-> 0, why |-> why]

Abs(n) == IF n < 0 THEN -n ELSE n
Quotient(l, r) == LET q == Abs(l) \div Abs(r) IN IF (l < 0) # (r < 0) THEN -q ELSE q
Power(b, e) == FoldLeft(LAMBDA acc, k : acc * b, 1, [k \in 1..e |-> k])

\* The bound on an exponent comes before the operation.
Operate(op, l, r) ==
  CASE op = "+" -> Value(l + r)
    [] op = "-" -> Value(l - r)
    [] op = "*" -> Value(l * r)
    [] op = "**" -> IF Abs(r) > MaxExponent THEN Refusal("resource")
                    ELSE IF l = 0 /\ r <= 0 THEN Refusal("arithmetic")
                    ELSE Value(IF r < 0 THEN Quotient(1, Power(l, -r)) ELSE Power(l, r))
    [] op \in {"/", "//", "%"} ->
         IF r = 0 THEN Refusal("arithmetic")
         ELSE Value(IF op = "%" THEN l - r * Quotient(l, r) ELSE Quotient(l, r))

Least(a) == CHOOSE n \in ToSet(a) : \A k \in ToSet(a) : n <= k
Greatest(a) == CHOOSE n \in ToSet(a) : \A k \in ToSet(a) : n >= k

\* min and max of one number and sum of any are a TypeError of Python.
OnNumbers(f, a) ==
  CASE f = "abs" /\ Len(a) = 1 -> Value(Abs(a[1]))
    [] f = "round" /\ Len(a) \in {1, 2} -> Value(a[1])
    [] f = "min" /\ Len(a) >= 2 -> Value(Least(a))
    [] f = "max" /\ Len(a) >= 2 -> Value(Greatest(a))
    [] OTHER -> Refusal("arithmetic")

Operators == {"+", "-", "*", "/", "//", "%", "**"}
Functions == {"abs", "round", "min", "max", "sum"}

\* Depth first, left to right: the first fault met is the one that is told.
RECURSIVE EvalNode(_, _)
EvalNode(e, depth) ==
  IF depth > MaxDepth THEN Refusal("resource") ELSE
  CASE e.node = "num" -> Value(e.n)
    [] e.node = "op" /\ e.op \in Operators ->
         LET l == EvalNode(e.l, depth + 1)
             r == EvalNode(e.r, depth + 1)
         IN IF ~l.ok THEN l ELSE IF ~r.ok THEN r ELSE Operate(e.op, l.n, r.n)
    [] e.node = "neg" ->
         LET x == EvalNode(e.x, depth + 1) IN IF x.ok THEN Value(-x.n) ELSE x
    [] e.node = "call" /\ e.f \in Functions ->
         LET a == [k \in DOMAIN e.args |-> EvalNode(e.args[k], depth + 1)]
             faults == SelectSeq(a, LAMBDA r : ~r.ok)
         IN IF faults # <<>> THEN faults[1] ELSE OnNumbers(e.f, [k \in DOMAIN a |-> a[k].n])
    [] OTHER -> Refusal("disallowed")

RECURSIVE Nodes(_)
Nodes(e) ==
  {e} \cup CASE e.node = "op" -> Nodes(e.l) \cup Nodes(e.r)
             [] e.node = "neg" -> Nodes(e.x)
             [] e.node = "call" -> UNION {Nodes(e.args[k]) : k \in DOMAIN e.args}
             [] OTHER -> {}

RECURSIVE Size(_)
Size(e) ==
  1 + CASE e.node = "op" -> Size(e.l) + Size(e.r)
        [] e.node = "neg" -> Size(e.x)
        [] e.node = "call" -> FoldLeft(LAMBDA acc, a : acc + Size(a), 0, e.args)
        [] OTHER -> 0

\* Mutant of SafeEval: a refusal inside a function's arguments is swallowed with its TypeErrors.
EvalSwallowing(e) ==
  IF e.node = "call" /\ e.f \in Functions
  THEN OnNumbers(e.f, [k \in DOMAIN e.args |-> EvalNode(e.args[k], 1).n])
  ELSE EvalNode(e, 0)

\* The length is bounded before anything is parsed.
SafeEval(e) ==
  IF Size(e) > MaxSize THEN Refusal("resource")
  ELSE IF e = Unparsable THEN Refusal("syntax")
  ELSE EvalNode(e, 0)

-----------------------------------------------------------------------------
(* Arguments, outcomes, and what a question's context holds. *)

\* What an argument is to Decimal(str(value)).
Amount(n) == [is |-> "number", n |-> n]
NaN == [is |-> "nan", n |-> 0]
Infinite == [is |-> "infinity", n |-> 0]
Junk == [is |-> "junk", n |-> 0]
Missing == [is |-> "missing", n |-> 0]
Unreadable(v) == v.is \in {"junk", "missing"}

Output(numbers) == [kind |-> "ok", numbers |-> numbers]
Fault(kind) == [kind |-> kind, numbers |-> {}]

\* The checks of a tool in their order, <<condition, kind of error>>, then its outcome.
Unless(checks, outcome) ==
  LET met == SelectSeq(checks, LAMBDA c : c[1]) IN
  IF met = <<>> THEN outcome ELSE Fault(Head(met)[2])

\* An output from arguments that are no numbers shows no digits.
Shown(v, n) == Output(IF v.is = "number" THEN {n} ELSE {})

Unwritten == [node |-> "unwritten"]

Calculator(a) ==
  LET r == SafeEval(a.expression) IN
  Unless(<< <<a.expression = Unwritten, "bad_arguments">>,
            <<r.why \in {"disallowed", "resource"}, "security_refused">>,
            <<~r.ok, "arithmetic">> >>,
         Output({r.n}))

\* The named formulas, over their two inputs; the root in cagr is left out.
Expression(name, x, y) ==
  CASE name = "current_ratio" -> Op("/", x, y)
    [] name = "gross_margin" -> Op("*", Op("/", Op("-", x, y), x), Num(100))
    [] name = "net_margin" -> Op("*", Op("/", x, y), Num(100))
    [] name = "working_capital" -> Op("-", x, y)
    [] OTHER -> Unparsable

\* A value that is no number is a name to the sandbox; all it refuses is "not found".
Formula(a) ==
  LET Written(v) == IF v.is = "number" THEN Num(v.n) ELSE Foreign
      expression == Expression(a.name, Written(a.x), Written(a.y))
      r == SafeEval(expression)
  IN Unless(<< <<expression = Unparsable, "not_found">>,
               <<Unreadable(a.x) \/ Unreadable(a.y), "bad_arguments">>,
               <<~r.ok, "not_found">> >>,
            Output({r.n}))

\* Infinity over infinity raises an exception of decimal, which is none of the tools'.
PercentChange(a) ==
  Unless(<< <<Unreadable(a.old) \/ Unreadable(a.new), "bad_arguments">>,
            <<a.old = Amount(0), "arithmetic">>,
            <<a.old = Infinite /\ a.new # NaN, "crash">> >>,
         IF a.old.is = "number" /\ a.new.is = "number"
         THEN Output({Quotient((a.new.n - a.old.n) * 100, a.old.n)}) ELSE Output({}))

BasisPoints(a) ==
  LET given == IF a.percent # Missing THEN a.percent ELSE a.basis_points IN
  Unless(<< <<Unreadable(given), "bad_arguments">> >>,
         Shown(given, IF a.percent # Missing THEN given.n * 100 ELSE Quotient(given.n, 100)))

-----------------------------------------------------------------------------
(* The tools that read the context: a ledger of tables, of rates by currency, and
   of lines of text <<phrase, number>>.  A row of a table is <<label, cell>>, and
   the first row is the header, which names the columns "label" and "amount".  A
   cell shows its number plainly or, negative, in brackets, or is text.  Labels
   match when they are equal. *)

Reading(cell) == IF cell.as = "brackets" THEN Abs(cell.n) ELSE cell.n
Readings(rows) ==
  LET cells == SelectSeq([k \in DOMAIN rows |-> rows[k][2]], LAMBDA c : c.as # "text")
  IN [k \in DOMAIN cells |-> Reading(cells[k])]

\* Without a name the first table is taken.
FindTable(ledger, id) ==
  IF id # "" THEN ToSet(ledger.order) \cap {id}
  ELSE {ledger.order[k] : k \in DOMAIN ledger.order \cap {1}}

Rows(ledger, found) == IF found = {} THEN <<>> ELSE ledger.tables[CHOOSE t \in found : TRUE]

TableLookup(a, ledger) ==
  LET found == FindTable(ledger, a.table)
      matches == SelectSeq(Rows(ledger, found), LAMBDA row : row[1] = a.row)
  IN Unless(<< <<found = {}, "not_found">>, <<a.row = "", "bad_arguments">>,
               <<matches = <<>>, "not_found">> >>,
            Output(ToSet(Readings(matches))))

Total(values) == FoldLeft(LAMBDA acc, n : acc + n, 0, values)

Aggregate(aggregate, values) ==
  CASE aggregate = "sum" -> Total(values)
    [] aggregate = "mean" -> Quotient(Total(values), Len(values))
    [] aggregate = "min" -> Least(values)
    [] aggregate = "max" -> Greatest(values)

CsvQuery(a, ledger) ==
  LET found == FindTable(ledger, a.table)
      all == Rows(ledger, found)
      body == IF all = <<>> THEN <<>> ELSE Tail(all)
      rows == SelectSeq(body, LAMBDA row : a.where = <<>> \/ row[1] = a.where[2])
      values == IF a.column = "amount" THEN Readings(rows) ELSE <<>>
      asked == a.aggregate # ""
  IN Unless(<< <<found = {} \/ all = <<>>, "not_found">>,
               <<a.where # <<>> /\ a.where[1] # "label", "not_found">>,
               <<asked /\ a.column = "", "bad_arguments">>,
               <<asked /\ a.column \notin {"label", "amount"}, "not_found">>,
               <<asked /\ a.aggregate # "count" /\ values = <<>>, "not_found">>,
               <<a.aggregate \notin {"", "count", "sum", "mean", "min", "max"}, "bad_arguments">> >>,
            Output(IF ~asked THEN ToSet(Readings(rows))
                   ELSE {IF a.aggregate = "count" THEN Len(rows) ELSE Aggregate(a.aggregate, values)}))

\* The rate of the source is applied whatever the target is.
ConvertCurrency(a, ledger) ==
  LET rate == IF a.from = a.to THEN 1 ELSE ledger.rates[a.from] IN
  Unless(<< <<Unreadable(a.amount), "bad_arguments">>,
            <<DOMAIN ledger.rates = {}, "not_found">>,
            <<a.from # a.to /\ a.from \notin DOMAIN ledger.rates, "not_found">> >>,
         Shown(a.amount, a.amount.n * rate))

DocumentSearch(a, ledger) ==
  LET hits == {line \in ledger.lines : line[1] = a.query} IN
  Unless(<< <<a.query = "" \/ hits = {}, "not_found">> >>, Output({line[2] : line \in hits}))

\* A date that cannot be read is "not found" as well.
DateDiff(a) ==
  Unless(<< <<~({a.from.is, a.to.is} \subseteq {"number"}), "not_found">> >>,
         Output({a.to.n - a.from.n}))

\* Arguments that are no object have become the empty one before this.
ExecuteTool(call, ledger) ==
  CASE call.tool = "calculator" -> Calculator(call.args)
    [] call.tool = "formula" -> Formula(call.args)
    [] call.tool = "percent_change" -> PercentChange(call.args)
    [] call.tool = "basis_points" -> BasisPoints(call.args)
    [] call.tool = "table_lookup" -> TableLookup(call.args, ledger)
    [] call.tool = "csv_query" -> CsvQuery(call.args, ledger)
    [] call.tool = "convert_currency" -> ConvertCurrency(call.args, ledger)
    [] call.tool = "document_search" -> DocumentSearch(call.args, ledger)
    [] call.tool = "date_diff" -> DateDiff(call.args)
    [] OTHER -> Fault("no_such_tool")
=============================================================================
