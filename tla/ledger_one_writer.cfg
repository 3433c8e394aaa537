SPECIFICATION FairSpec

CONSTANTS
  Invoices = {i1}
  NoInvoice = NoInvoice
  Office = {o1}
  Dunners = {d1}
  Rollers = {r1}
  Total = 2
  DueDay = 0
  LastDay = 2
  Amounts = {1, 3}
  GraceDays = 1
  FeeCap = 2
  MaxOps = 2
  MayFail = TRUE
  i1 = i1
  o1 = o1
  d1 = d1
  r1 = r1
  StageOffset <- TwoStages
  StageFee <- TwoFees

INVARIANTS
  BooksAgree
  StagesActOnce
PROPERTIES
  PastDueIsRolled
