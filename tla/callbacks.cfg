SPECIFICATION FairSpec
CONSTANTS
  clerk = clerk
  technician = technician
  Office = {clerk}
  Technicians = {technician}
  NoOne = NoOne
  Watchers = {w1, w2}
  Limit = 1
  MaxClock = 3
  MaxOps <- MCOps
  MaxFaults = 1
PROPERTIES WhatHappenedStays BreachIsToldOnce
CHECK_DEADLOCK FALSE
