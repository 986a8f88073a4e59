SPECIFICATION Spec
CONSTANTS
  d0 = d0
  j1 = j1
  a1 = a1
  None = None
  Drafts = {d1}
  Journeys <- MCJourneys
  JourneyOf <- MCJourneyOf
  Addresses <- MCAddresses
  AddressOf <- MCAddressOf
  Requests = {r1, r2}
  Senders = {s1, s2}
  StaleReads = TRUE
  MaxBody = 1
  MaxApprovals = 2
  MaxFaults = 1
SYMMETRY Symmetry
INVARIANTS AtMostOneSend SentWasApproved SentIsAttributable
PROPERTY ImplementsMailbox
CHECK_DEADLOCK FALSE
