SPECIFICATION FairSerialSpec
CONSTANTS
  Request = {r1}
  Collectors = {c1, c2}
  Keepers = {k1}
  None = None
  MaxHeight = 2
  Page = 2
  Transfers = {1, 2}
  PricedAtStart = 0
  ForeignAccount = FALSE
  Failing = {"collector"}
  MaxFaults = 1
INVARIANT NothingUncounted
INVARIANT StoredArePricedTransfers
PROPERTY EverySignatureCounted
\* The requests of a behaviour are bounded: it ends when all are answered.
CHECK_DEADLOCK FALSE
