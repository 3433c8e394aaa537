SPECIFICATION FairSpec
CONSTANTS
  clerk = clerk
  technician = technician
  People = {clerk, technician}
  Defects = {d1, d2}
  Visits = {v1, v2, v3}
  NoVisit = NoVisit
  MaxDay = 2
  Intervals = {1, 2}
  MaxOps <- MCOps
  Mixes <- MCMixes
  MaxFaults = 1
INVARIANTS StopLiftHolds ResolvedLiftRuns ChecksAreKept AmendmentsFormALine
PROPERTIES BoardComesRight StopIsTold
CHECK_DEADLOCK FALSE
