SPECIFICATION FairSpec
CONSTANTS
  Callbacks = {c1}
  OfficeTypes = {"dispatched", "closed"}
  MaxTaps = 2
  MaxRequests = 1
  MaxFaults = 1
  MaxRetries = 0
  MaxOffice = 1
  Faults <- AnyFault
PROPERTIES
  EveryItemSettles
  PhoneCatchesUp
