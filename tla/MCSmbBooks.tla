----------------------------- MODULE MCSmbBooks -----------------------------
(* An instance of SmbBooks for TLC. *)
EXTENDS SmbBooks

TwoCustomers == <<"Northwind Labs", "Aurora Works">>
TwoCurrencies == [USD |-> 100, EUR |-> 109]
OneWage == {[payroll |-> 1201, rent |-> 350]}

Item(category, who, day, amount) ==
    [category |-> category, who |-> who, day |-> day, amount |-> amount]

\* Nothing, or goods and a trip on two days.
NothingOrTwo ==
    {<<>>, <<Item("Cost of goods sold", "Delta Supply", 26, 400), Item("Travel", "Fjord Studio", 1, 305)>>}

OneBill == {<<[due |-> 150, amount |-> 500], [due |-> 160, amount |-> 900]>>}
PaidOffsets == {-5, 11}
OneBudget == {[category |-> "Travel", amount |-> 300]}
=============================================================================
