CONSTANTS
  Customers <- TwoCustomers
  Suppliers = {"Delta Supply", "Fjord Studio"}
  Months = 3
  Openings = {800, 9000}
  TaxRate = 12
  Base = "USD"
  Rates <- TwoCurrencies
  Nets = {655}
  IssueDays = {25}
  Terms = {30}
  Delays <- PaidOffsets
  Wages <- OneWage
  Purchases <- NothingOrTwo
  Bills <- OneBill
  Budgets <- OneBudget
SPECIFICATION BooksSpec
INVARIANTS BilledIsOwedOrBanked GoldsAgree
CHECK_DEADLOCK FALSE
