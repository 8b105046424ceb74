SPECIFICATION FairOrderedCalmSpec
CONSTANTS
  Request = {1, 2, 3}
  Collectors = {c1}
  Keepers = {k1}
  None = None
  MaxHeight = 2
  Page = 2
  Transfers = {1, 2}
  PricedAtStart = 1
  ForeignAccount = FALSE
  Failing = {}
  MaxFaults = 0
INVARIANT ProgressExact
INVARIANT CompleteMeansStored
INVARIANT CountMatchesStored
INVARIANT CompletionIsStamped
PROPERTY ProgressNeverFalls
PROPERTY EveryTaskCompletes
PROPERTY LedgerKept
\* The requests of a behaviour are bounded: it ends when all are answered.
CHECK_DEADLOCK FALSE
