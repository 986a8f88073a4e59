SPECIFICATION Spec
CONSTANTS
  k1 = k1
  spec = spec
  places = places
  NoKey = NoKey
  Keys = {k1}
  Containers = {c1, c2}
  Stages = {spec, places}
  KeysOf <- MCKeysOf
  Cap <- MCCap
  Estimate = 1
  MaxCost = 2
  MaxCalls = 4
  MaxDays = 1
  MaxExpiries = 1
  MaxFaults = 1
SYMMETRY Symmetry
INVARIANTS SpendBounded KeyBoughtBounded
CHECK_DEADLOCK FALSE
