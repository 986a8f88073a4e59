SPECIFICATION RepliesFairSpec
CONSTANTS
  d1 = d1
  j1 = j1
  a1 = a1
  b1 = b1
  None = None
  Drafts = {d1}
  Journeys = {j1}
  JourneyOf <- MCJourneyOf
  Addresses = {a1}
  AddressOf <- MCAddressOf
  Requests = {r1}
  Senders = {s1}
  StaleReads = FALSE
  MaxBody = 0
  MaxApprovals = 1
  MaxFaults = 1
  Mails = {m1}
  Notices = {n1}
  Operators = {o1}
  Businesses = {b1}
  BusinessOf <- MCBusinessOf
INVARIANT ActedBeforeRecorded
PROPERTIES ApprovalLeadsToMail SuppressedStaysQuiet ReplyIsSeen
CHECK_DEADLOCK FALSE
