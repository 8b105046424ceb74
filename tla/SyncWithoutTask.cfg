SPECIFICATION CalmSpec
CONSTANTS
  Request = {r1, r2}
  Collectors = {c1}
  Keepers = {k1}
  None = None
  MaxHeight = 1
  Page = 1
  Transfers = {1}
  PricedAtStart = 1
  ForeignAccount = FALSE
  Failing = {}
  MaxFaults = 0
PROPERTY SyncLeavesTask
\* The requests of a behaviour are bounded: it ends when all are answered.
CHECK_DEADLOCK FALSE
