SPECIFICATION FairSpec
CONSTANTS
  check = check
  callback = callback
  planner = planner
  phone = phone
  worker = worker
  none = none
  Pairs <- MCPairs
  Refs = {check, callback}
  OwnerPair <- MCOwner
  NoPair = none
  Teams <- MCTeams
  Planners = {planner}
  Phones <- MCPhones
  Subscribers = {worker}
  MaxOps <- MCOps
  MaxFaults = 1
INVARIANTS PublishedIsTold
PROPERTIES WorkIsKept TickedOff
CHECK_DEADLOCK FALSE
