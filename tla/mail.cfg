SPECIFICATION FairSpec
CONSTANTS
  clerk = clerk
  staffNote = staffNote
  Events = {e1}
  Users = {clerk}
  StaffRules = {staffNote}
  ContactRules = {contactMail}
  Channel <- MCChannel
  Staff <- MCStaff
  Contact = Contact
  NoOne = NoOne
  MaxRuns = 2
  Mailers = {w1}
  RetryLimit = 1
  MaxSend = 2
  MaxFaults = 3
INVARIANTS OneRowPerAddress EveryoneHasARow
PROPERTIES EveryMailSettles
CHECK_DEADLOCK FALSE
