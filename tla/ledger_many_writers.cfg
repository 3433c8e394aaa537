SPECIFICATION Spec

CONSTANTS
  Invoices = {i1}
  NoInvoice = NoInvoice
  Office = {o1, o2}
  Dunners = {d1, d2}
  Rollers = {}
  Total = 2
  DueDay = 0
  LastDay = 1
  Amounts = {1, 3}
  GraceDays = 0
  FeeCap = 2
  MaxOps = 1
  MayFail = TRUE
  i1 = i1
  o1 = o1
  o2 = o2
  d1 = d1
  d2 = d2
  StageOffset <- OneStage
  StageFee <- OneFee

SYMMETRY Interchangeable

INVARIANTS
  SumsNeverOverstate
  MoneyIsKept
CHECK_DEADLOCK FALSE
