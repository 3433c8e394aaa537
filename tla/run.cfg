SPECIFICATION FairSpec
CONSTANTS
  Terms <- MixedTerms
  RunDay = 1
  DaysPerMonth = 3
  LastDay = 11
  Crons = {cron}
  Managers = {m1}
  Issuers = {i1}
  Noters = {}
  NoOne = NoOne
  NoDoc = NoDoc
  MaxOps = 1
  MaxFaults = 1
INVARIANTS
  OneInvoicePerPeriod
  NoMonthBilledTwice
  NoMonthLost
PROPERTIES
  SeriesAreGapless
  EveryRequestEnds
CHECK_DEADLOCK FALSE
