SPECIFICATION Spec
CONSTANTS
  Callbacks = {c1}
  OfficeTypes = {"dispatched", "closed"}
  MaxTaps = 2
  MaxRequests = 2
  MaxFaults = 2
  MaxRetries = 1
  MaxOffice = 0
  Faults <- AnyFault
INVARIANTS
  DoneMeansApplied
  TapsInOrder
