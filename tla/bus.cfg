SPECIFICATION FairSpec
CONSTANTS
  Events = {e1}
  Seeds = {s1}
  Handlers = {h1}
  Workers = {w1, w2}
  Nobody = Nobody
  RetryLimit = 3
  MaxAttempts = 3
  MaxJobs = 1
  MaxFaults = 2
  e1 = e1
  s1 = s1
  h1 = h1
  w1 = w1
  w2 = w2
INVARIANTS
  DoneMeansRan
  OnlyCommittedEvents
PROPERTIES
  EveryHandlerHears
CHECK_DEADLOCK FALSE
