SPECIFICATION Spec
CONSTANTS
  style = style
  targeting = targeting
  g1 = g1
  t1 = t1
  x = x
  y = y
  None = None
  Tuners = {style, targeting}
  Order <- MCOrder
  Advisory = {t1}
  Phrases = {x, y}
  Proposals <- MCProposals
  Requests = {r1, r2}
  MaxPasses = 2
  MaxVersion = 3
  MaxFaults = 1
SYMMETRY MCSymmetry
INVARIANTS DecidedOncePerProposal AppliedWasMerged VersionNamesContent
CHECK_DEADLOCK FALSE
