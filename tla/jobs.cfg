SPECIFICATION FairSpec
CONSTANTS
  clerk = clerk
  colleague = colleague
  technician = technician
  Office = {clerk, colleague}
  Technicians = {technician}
  MaxTotal = 2
  MaxVersion = 2
  MaxOps <- MCOps
  MaxFaults = 1
INVARIANTS EvidenceHeld BilledAsQuoted OneVisit
PROPERTIES StageIsTold
CHECK_DEADLOCK FALSE
