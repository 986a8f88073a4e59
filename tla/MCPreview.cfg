SPECIFICATION FairSpec
CONSTANTS
  Jobs = {i1, i2}
  Requests = {r1}
  Window = 1
  Delay = 1
  SpecStays = FALSE
  MaxCodes = 3
  MaxTime = 2
  MaxFaults = 1
INVARIANTS TypeOK CleartextHasDeadline RowCodeReachedKV
PROPERTIES RetiredStaysRetired CleartextExpires
CHECK_DEADLOCK FALSE
