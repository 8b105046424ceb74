SPECIFICATION Spec
CONSTANTS
  Request = {r1, r2, r3}
  Address = {a1, a2}
  MaxHeight = 3
  Page = 2
  PricedAtStart = 2
  MaxByHand = 1
SYMMETRY Symmetry
INVARIANT TypeOK
INVARIANT SyncedAreListed
INVARIANT ListedOnce
\* The requests of a behaviour are bounded: it ends when all are answered.
CHECK_DEADLOCK FALSE
