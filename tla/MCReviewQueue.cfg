SPECIFICATION Spec
CONSTANTS
  None = None
  Businesses = {2, 3, 4, 5}
  Signals <- MCSignals
  Profiles <- MCProfiles
  Listed <- MCProfiles
  Threshold = 40
  Cap = 1
  Qualifiers = {q1, q2}
  Promoters = {p1, p2}
  Later = {"emailed"}
  RollupLags = {FALSE}
  MaxReplies = 2
  MaxFaults = 1
SYMMETRY Symmetry
INVARIANTS OvershootBounded  AnnouncedIsAdmitted
PROPERTY PromotesTheNeediest
CHECK_DEADLOCK FALSE
