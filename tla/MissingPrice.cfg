SPECIFICATION CalmSpec
CONSTANTS
  Request = {r1}
  Collectors = {c1}
  Keepers = {k1}
  None = None
  MaxHeight = 1
  Page = 1
  Transfers = {1}
  PricedAtStart = 0
  ForeignAccount = FALSE
  Failing = {}
  MaxFaults = 0
SYMMETRY Symmetry
INVARIANT CompleteMeansAllStored
\* The requests of a behaviour are bounded: it ends when all are answered.
CHECK_DEADLOCK FALSE
