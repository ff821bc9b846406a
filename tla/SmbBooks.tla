------------------------------ MODULE SmbBooks ------------------------------
(***************************************************************************)
(* The generated books of one small business (datasets/smb_cfo/business.py *)
(* generate_business) and the oracles that read the gold answers off them  *)
(* (oracles.py, tasks.py, adversarial.py).  The random draws of the        *)
(* generator are choices.                                                  *)
(*                                                                         *)
(* Money is in cents, exchange rates in hundredths, percentages and months *)
(* of runway in tenths.  A month has 30 days; day 0 is the period's first, *)
(* months 0 .. Months - 1 are traded, and "today" is the last day of the   *)
(* month after them.                                                       *)
(***************************************************************************)
EXTENDS Integers, Sequences, FiniteSets, FiniteSetsExt, SequencesExt

CONSTANTS
    Customers,      \* their names, in order; the first is the anchor
    Suppliers,
    Months,         \* traded months (12 in the code)
    Openings,       \* opening balances
    TaxRate,        \* percent
    Base, Rates,    \* the base currency; currency -> hundredths of the base
    Nets,           \* amounts of an invoice before growth and weight
    IssueDays,      \* days of the month on which invoices are issued
    Terms,          \* days until an invoice falls due
    Delays,         \* days from the due date to the payment
    Wages,          \* [payroll, rent] of a month
    Purchases,      \* a month's variable expenses: sequences of [category, day, amount]
    Bills,          \* the unpaid bills: sequences of [due, amount]
    Budgets         \* the first budgeted category and its budget: [category, amount]

ASSUME BooksAssumption ==
    /\ Months \in Nat \ {0}
    /\ Customers \in Seq(STRING) /\ Customers # <<>>
    /\ Base \in DOMAIN Rates /\ Rates[Base] = 100
    /\ \A currency \in DOMAIN Rates : Rates[currency] \in Nat
    /\ Openings \subseteq Int /\ TaxRate \in Nat /\ Nets \subseteq Nat
    /\ IssueDays \subseteq 0..29 /\ Terms \subseteq Nat
    /\ Delays \subseteq -5..11
    /\ \A wages \in Wages : wages.payroll \in Nat /\ wages.rent \in Nat
    /\ Purchases \subseteq Seq([category: STRING, who: STRING, day: 0..29, amount: Nat])

VARIABLES
    opening,
    month,      \* the month being traded
    customer,   \* the customer whose turn it is in the month
    invoices, ledger, payables,
    budget,
    closed      \* the books are complete and sorted

booksVars == <<opening, month, customer, invoices, ledger, payables, budget, closed>>

MonthOf(day) == day \div 30
AsOf == 30 * Months + 29

\* Decimal.quantize of n / d: the nearest integer, ties to the even one.
Rounded(n, d) ==
    LET q == n \div d
        r == 2 * (n % d)
    IN  IF r < d \/ (r = d /\ q % 2 = 0) THEN q ELSE q + 1

Converted(amount, currency) == Rounded(amount * Rates[currency], 100)

-----------------------------------------------------------------------------
(* The generator. *)

Deals == [net: Nets, currency: DOMAIN Rates, issue: IssueDays, term: Terms,
          settles: BOOLEAN, delay: Delays]

\* Mutant of Settled: an invoice can have been paid as soon as it fell due.
SettledAtOnce(due) == due < AsOf

\* Only an invoice more than 20 days past due can have been paid.
Settled(due) == due < AsOf - 20

Invoice(c, deal) ==
    LET net == Rounded(deal.net * (100 + 2 * month) * (IF c = 1 THEN 3 ELSE 1), 100)
        due == 30 * month + deal.issue + deal.term
    IN  [customer |-> c, issue |-> 30 * month + deal.issue, due |-> due, net |-> net,
         tax |-> Rounded(net * TaxRate, 100), currency |-> deal.currency,
         paid |-> Settled(due) /\ deal.settles,
         paidOn |-> IF Settled(due) /\ deal.settles THEN due + deal.delay ELSE 0]

Gross(invoice) == invoice.net + invoice.tax

Entry(day, category, who, amount, currency) ==
    [day |-> day, category |-> category, who |-> who, amount |-> amount, currency |-> currency]

\* What has been paid by today is in the bank.
Arrived(invoice) == invoice.paid /\ invoice.paidOn <= AsOf

Receipt(invoice) ==
    Entry(invoice.paidOn, "Sales", Customers[invoice.customer], Gross(invoice), invoice.currency)

Salaries(wages) ==
    << Entry(30 * month + 1, "Payroll", "Internal", -wages.payroll, Base),
       Entry(30 * month + 1, "Rent", "Internal", -wages.rent, Base) >>

Bought(items) ==
    [k \in DOMAIN items |->
        Entry(30 * month + items[k].day, items[k].category, items[k].who, -items[k].amount, Base)]

\* A customer is billed; if the invoice is paid in time, its payment is booked at once.
Bill ==
    /\ month < Months
    /\ customer <= Len(Customers)
    /\ \E deal \in Deals :
           LET invoice == Invoice(customer, deal)
           IN  /\ invoices' = Append(invoices, invoice)
               /\ ledger' = IF Arrived(invoice) THEN Append(ledger, Receipt(invoice)) ELSE ledger
    /\ customer' = customer + 1
    /\ UNCHANGED <<opening, month, payables, budget, closed>>

\* Any customer but the anchor may buy nothing in a month.
PassOver ==
    /\ month < Months
    /\ customer \in 2..Len(Customers)
    /\ customer' = customer + 1
    /\ UNCHANGED <<opening, month, invoices, ledger, payables, budget, closed>>

\* After the customers of a month come its wages and purchases.
Spend ==
    /\ month < Months
    /\ customer > Len(Customers)
    /\ \E wages \in Wages, items \in Purchases :
           ledger' = ledger \o Salaries(wages) \o Bought(items)
    /\ month' = month + 1
    /\ customer' = 1
    /\ UNCHANGED <<opening, invoices, payables, budget, closed>>

\* The ledger by date; entries of one day keep their order, as their ids do.
Earlier(i, j) ==
    \/ ledger[i].day < ledger[j].day
    \/ ledger[i].day = ledger[j].day /\ i < j

Places == [k \in DOMAIN ledger |-> Cardinality({i \in DOMAIN ledger : Earlier(i, k)}) + 1]

ByDate ==
    LET places == Places
    IN  [p \in DOMAIN ledger |-> ledger[CHOOSE k \in DOMAIN ledger : places[k] = p]]

\* The unpaid bills, the budget, and the ledger sorted.
Close ==
    /\ month = Months
    /\ ~closed
    /\ payables' \in Bills
    /\ budget' \in Budgets
    /\ ledger' = ByDate
    /\ closed' = TRUE
    /\ UNCHANGED <<opening, month, customer, invoices>>

BooksInit ==
    /\ opening \in Openings
    /\ month = 0 /\ customer = 1
    /\ invoices = <<>> /\ ledger = <<>> /\ payables = <<>>
    /\ budget = [category |-> "none", amount |-> 0]
    /\ closed = FALSE

BooksNext == Bill \/ PassOver \/ Spend \/ Close

BooksSpec == BooksInit /\ [][BooksNext]_booksVars

-----------------------------------------------------------------------------
(* What an oracle returns. *)

Number(value) == [kind |-> "number", value |-> value, period |-> {}]
Over(value, period) == [kind |-> "number", value |-> value, period |-> period]
Says(word) == [kind |-> word, value |-> 0, period |-> {}]
Unanswerable == Says("unanswerable")
Crashes == Says("IndexError")

Booked == {k \in DOMAIN ledger : ledger[k].day <= AsOf}
Value(k) == Converted(ledger[k].amount, ledger[k].currency)
Sum(S) == MapThenSumSet(Value, S)
During(S, m) == {k \in S : MonthOf(ledger[k].day) = m}
MonthsOf(S) == {MonthOf(ledger[k].day) : k \in S}

In == {k \in Booked : Value(k) > 0}
Out == Booked \ In

ButTheLast(months) == months \ {Max(months)}
Latest(months, n) == {m \in months : Cardinality({l \in months : l > m}) < n}

Cash == opening + Sum(Booked)

\* Mutant of Recent: the month under way is averaged with the complete ones.
RecentWithCurrent(months) == Latest(months, 3)

Recent(months) == Latest(IF Cardinality(months) > 1 THEN ButTheLast(months) ELSE months, 3)

MonthlyBurn ==
    LET recent == Recent(MonthsOf(Booked))
    IN  IF recent = {} THEN Unanswerable
        ELSE Over(Rounded(Sum({k \in Booked : MonthOf(ledger[k].day) \in recent}),
                          Cardinality(recent)), recent)

\* Months that the cash lasts when every `months` of them lose `loss` cents.
Lasts(loss, months) ==
    IF Cash <= 0 THEN Number(0)
    ELSE IF loss <= 0 THEN Says("infinite")
    ELSE Number(Rounded(10 * Cash * months, loss))

CashRunway == IF MonthlyBurn = Unanswerable THEN Unanswerable ELSE Lasts(-MonthlyBurn.value, 1)

CashGap ==
    IF CashRunway.kind # "number"
    THEN IF CashRunway = Unanswerable THEN Unanswerable ELSE Says("never")
    ELSE IF CashRunway.value <= 0 THEN Says("already negative")
    ELSE Number(MonthOf(AsOf) + CashRunway.value \div 10 + 1)

-----------------------------------------------------------------------------
(* Receivables and payables. *)

Open == {i \in DOMAIN invoices : ~invoices[i].paid /\ invoices[i].issue <= AsOf}
Overdue == {i \in Open : invoices[i].due < AsOf}
Owes(i) == Converted(Gross(invoices[i]), invoices[i].currency)
OwesNet(i) == Converted(invoices[i].net, invoices[i].currency)

Receivable == MapThenSumSet(Owes, Open)
ReceivableNet == MapThenSumSet(OwesNet, Open)
OverdueReceivable == MapThenSumSet(Owes, Overdue)
TaxInReceivable == Receivable - ReceivableNet

Weight(i) == Owes(i) * (AsOf - invoices[i].due)

\* The overdue invoices that come before i: heavier ones, and of the same weight older ones.
Ahead(i) == {j \in Overdue : Weight(j) > Weight(i) \/ (Weight(j) = Weight(i) /\ j < i)}

ToChase ==
    [p \in 1..Min({3, Cardinality(Overdue)}) |->
        CHOOSE i \in Overdue : Cardinality(Ahead(i)) = p - 1]

PayablePressure ==
    MapThenSumSet(LAMBDA p : Converted(payables[p].amount, Base),
                  {p \in DOMAIN payables : payables[p].due <= AsOf + 30})

-----------------------------------------------------------------------------
(* Margins, growth, budget, concentration. *)

Revenue == Sum(In)
Cogs == {k \in Out : ledger[k].category = "Cost of goods sold"}

\* What is left of the revenue after the given costs, in tenths of a percent.
Margin(costs) ==
    IF Revenue = 0 THEN Unanswerable
    ELSE Number(Rounded(1000 * (Revenue + Sum(costs)), Revenue))

\* months[-3] and months[-2] of the months that have an entry.
Growth(flow) ==
    LET months == MonthsOf(flow)
        latest == Max(ButTheLast(months))
        previous == Max(ButTheLast(ButTheLast(months)))
        base == Sum(During(flow, previous))
        change == Sum(During(flow, latest)) - base
    IN  IF Cardinality(months) < 2 THEN Unanswerable
        ELSE IF Cardinality(months) = 2 THEN Crashes
        ELSE IF base = 0 THEN Unanswerable
        ELSE Over(IF base > 0 THEN Rounded(1000 * change, base) ELSE Rounded(-1000 * change, -base),
                  {previous, latest})

BudgetVariance ==
    LET spent == {k \in Booked : ledger[k].category = budget.category /\ ledger[k].amount < 0}
        months == IF Cardinality(MonthsOf(spent)) > 1 THEN ButTheLast(MonthsOf(spent))
                  ELSE MonthsOf(spent)
    IN  IF spent = {} THEN Unanswerable
        ELSE Number(Rounded(-Sum({k \in spent : MonthOf(ledger[k].day) \in months})
                                - budget.amount * Cardinality(months),
                            Cardinality(months)))

\* Names of customers may repeat: what is billed is totalled by name.
BilledTo(name) ==
    MapThenSumSet(OwesNet, {i \in DOMAIN invoices : /\ Customers[invoices[i].customer] = name
                                                    /\ invoices[i].issue <= AsOf})
PaidTo(name) == -Sum({k \in Booked : ledger[k].amount < 0 /\ ledger[k].who = name})
LargestBill == Max({BilledTo(name) : name \in Range(Customers)})

Share(part, whole) == IF whole = 0 THEN Unanswerable ELSE Number(Rounded(1000 * part, whole))

CustomerConcentration == Share(LargestBill, MapThenSumSet(BilledTo, Range(Customers)))
SupplierConcentration ==
    Share(Max({PaidTo(name) : name \in Suppliers}), MapThenSumSet(PaidTo, Suppliers))

-----------------------------------------------------------------------------
(* Scenarios and data quality. *)

Collected(percent) == Rounded(100 * Cash + percent * Receivable, 100)

\* Runway when revenue and expenses are scaled to these percentages.
Scenario(revenue, expenses) ==
    LET recent == Latest(ButTheLast(MonthsOf(In) \cup MonthsOf(Out)), 3)
        lately(flow) == Sum({k \in flow : MonthOf(ledger[k].day) \in recent})
    IN  IF recent = {} THEN Unanswerable
        ELSE Lasts(-(lately(In) * revenue + lately(Out) * expenses), 100 * Cardinality(recent))

RevenueDrop == Scenario(80, 100)
ExpenseCut == Scenario(100, 85)

Twin(i, k) ==
    /\ ledger[i].day = ledger[k].day /\ ledger[i].amount = ledger[k].amount
    /\ ledger[i].who = ledger[k].who
Duplicates == {k \in DOMAIN ledger : \E i \in 1..(k - 1) : Twin(i, k)}

MissingPeriods(category) ==
    (0..(Months - 1)) \ MonthsOf({k \in DOMAIN ledger : ledger[k].category = category})

-----------------------------------------------------------------------------
(* The questions and the answers they have: tasks.py and adversarial.py.   *)

CashTasks ==
    [current_cash_balance |-> Number(Cash), monthly_burn |-> MonthlyBurn,
     cash_runway |-> CashRunway, cash_gap_date |-> CashGap]

ReceivableTasks ==
    [accounts_receivable |-> Number(Receivable), overdue_receivables |-> Number(OverdueReceivable),
     receivable_prioritization |-> IF Overdue = {} THEN Unanswerable ELSE Says("invoice ids"),
     accounts_payable_pressure |-> Number(PayablePressure)]

MarginTasks ==
    [gross_margin |-> Margin(Cogs), operating_margin |-> Margin(Out),
     revenue_growth |-> Growth(In), expense_growth |-> Growth(Out),
     budget_variance |-> BudgetVariance]

ConcentrationTasks ==
    [customer_concentration |-> CustomerConcentration,
     supplier_concentration |-> SupplierConcentration]

ScenarioTasks ==
    [scenario_collect_25 |-> Number(Collected(25)), scenario_collect_50 |-> Number(Collected(50)),
     scenario_collect_75 |-> Number(Collected(75)), scenario_revenue_drop |-> RevenueDrop,
     scenario_lose_customer |-> Number(LargestBill), scenario_cut_expenses |-> ExpenseCut]

QualityTasks ==
    [duplicate_transactions |-> Number(Cardinality(Duplicates)),
     missing_periods |-> Number(Cardinality(MissingPeriods("Payroll"))),
     tax_inclusive_vs_exclusive |-> Number(TaxInReceivable)]

LastCompleteRevenue ==
    LET months == MonthsOf({k \in Booked : ledger[k].amount > 0})
        target == Max(ButTheLast(months))
    IN  IF Cardinality(months) < 2 THEN Unanswerable
        ELSE Over(Sum(During({k \in Booked : ledger[k].amount > 0}, target)), {target})

TrapAnswers ==
    [trap_wrong_period |-> LastCompleteRevenue,
     trap_gross_vs_net |-> Number(Receivable),
     trap_unanswerable_forecast |-> Unanswerable,
     trap_unanswerable_causality |-> Unanswerable,
     trap_missing_fx_rate |-> Unanswerable,
     trap_conflicting_totals |-> Number(Cash)]

\* The closing balance that the summary at the top of the rendered books states.
Reported(conflicting) == IF conflicting THEN Rounded(115 * Cash, 100) ELSE Cash

-----------------------------------------------------------------------------
(* Properties of closed books. *)

\* Self-consistency: every invoice is either owed or in the bank.  The cash
\* after collecting all that customers owe is the opening balance with everything
\* ever billed, less everything ever paid out (business.py marks an invoice paid
\* and, apart from that, decides whether its payment reached the ledger).
BilledIsOwedOrBanked ==
    closed => Collected(100) = opening + MapThenSumSet(Owes, DOMAIN invoices) + Sum(Out)

\* What a month brings in and takes out.
FlowOf(m) == Sum(During(In, m)) + Sum(During(Out, m))

\* The month-by-month flows, the three lines of the margin and the cash
\* balance are the same money counted in three ways.
FlowsAddUp ==
    /\ Cash = opening + MapThenSumSet(FlowOf, MonthsOf(Booked))
    /\ Cash = opening + Revenue + Sum(Cogs) + Sum(Out \ Cogs)

\* a lasts no longer than b.
NoLonger(a, b) == b.kind = "infinite" \/ (a.kind = "number" /\ a.value <= b.value)

\* Losing revenue never lengthens the runway and cutting costs never shortens it,
\* though three oracles choose their months and round on their own.
RunwaysAreOrdered ==
    /\ NoLonger(RevenueDrop, CashRunway)
    /\ NoLonger(CashRunway, ExpenseCut)

\* What is overdue is owed, those to chase are overdue invoices, none named twice and
\* none passed over that weighs more, the tax is a part of what is owed, and collecting
\* more leaves more cash.
OwedAddsUp ==
    /\ OverdueReceivable <= Receivable
    /\ Range(ToChase) \subseteq Overdue
    /\ IsInjective(ToChase)
    /\ \A i \in Range(ToChase), j \in Overdue \ Range(ToChase) : Weight(j) <= Weight(i)
    /\ TaxInReceivable >= 0
    /\ Collected(25) <= Collected(50) /\ Collected(50) <= Collected(75)

\* The gold answers of one set of books agree with each other.
GoldsAgree == closed => FlowsAddUp /\ RunwaysAreOrdered /\ OwedAddsUp

\* "Use the last two COMPLETE months" (oracles.py _growth): the last months
\* that were traded in full are Months - 2 and Months - 1.
GrowthIsOfTheLastMonths ==
    closed => LET growth == MarginTasks.expense_growth
              IN  growth.kind = "number" => growth.period = {Months - 2, Months - 1}

\* "The month in which cash first goes negative" (oracles.py cash_gap_date): at
\* the end of the month before it the projected cash is not negative yet, at its end it is.
GapIsWhenCashRunsOut ==
    closed /\ CashGap.kind = "number" =>
        LET months == CashGap.value - MonthOf(AsOf)
        IN  /\ Cash + (months - 1) * MonthlyBurn.value >= 0
            /\ Cash + months * MonthlyBurn.value < 0
=============================================================================
