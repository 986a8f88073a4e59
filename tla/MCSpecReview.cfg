SPECIFICATION Spec
CONSTANTS
  MaxSpecs = 1
  Generated = {c0}
  Edits = {c1, bad}
  Valid = {c0, c1}
  MaxSites = 4
  Requests = {r1, r2}
  Workers = {g1}
  None = None
  MaxRequests = 3
  MaxReplays = 1
  MaxFaults = 1
INVARIANTS RenderedWasVetted SitesBounded FeedbackAfterEvent
PROPERTIES ApprovalLeadsToRender
CHECK_DEADLOCK FALSE
