SPECIFICATION HistorySpec
CONSTANTS
  Request = {r1, r2, r3, r4, r5, r6}
  User = User
  None = None
  Order = {1, 2}
  Hops = 2
SYMMETRY Symmetry
INVARIANT TypeOK
INVARIANT OnlyLateCategoriesAreHidden
INVARIANT OneRootPerOrder
\* The requests of a behaviour are bounded: it ends when all are answered.
CHECK_DEADLOCK FALSE
