SPECIFICATION SerialSpec
CONSTANTS
  Request = {r1, r2}
  Collectors = {c1}
  Keepers = {k1}
  None = None
  MaxHeight = 3
  Page = 2
  Transfers = {2, 3}
  PricedAtStart = 3
  ForeignAccount = FALSE
  Failing = {"request"}
  MaxFaults = 1
SYMMETRY Symmetry
INVARIANT NoDuplicateTransactions
\* The requests of a behaviour are bounded: it ends when all are answered.
CHECK_DEADLOCK FALSE
