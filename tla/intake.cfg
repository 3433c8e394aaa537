SPECIFICATION FairSpec
CONSTANTS
  i1 = i1
  i2 = i2
  Invoices = {i1, i2}
  Total = 2
  Statement <- Mixed
  Links = {l1}
  Clerks = {k1}
  Payers = {p1}
  NoInvoice = NoInvoice
  MaxHand = 2
  MaxFaults = 1
INVARIANTS
  SettledHasPayment
  NothingLeftProposed
  MoneyIsKept
  BookedOnce
PROPERTIES
  ProposalsAreBooked
CHECK_DEADLOCK FALSE
