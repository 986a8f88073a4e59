SPECIFICATION Spec
CONSTANTS
  c1 = c1
  c2 = c2
  Containers = {c1, c2}
  Second = 2
  Skew <- MCSkew
  MaxSkew = 1
  Floor = 4
  Rules <- MCRules
  TTL = 1
  MaxRetries = 1
  Timeout = 1
  None = None
  MaxClock = 4
  Runs = {d1, d2}
  Domains = {dom}
  Ids = {b1, b2}
  MaxFaults = 1
SYMMETRY MCSymmetry
INVARIANTS PermissionFresh DuplicatesBounded AuditsBacked
PROPERTIES SlotsApart
CHECK_DEADLOCK FALSE
