SPECIFICATION SerialSpec
CONSTANTS
  Request = {r1, r2, r3, r4, r5}
  None = None
  Label = {t1, t2}
  GroupLabel = {g1}
  Address = {a1}
  Ops = {"signIn", "mergeTag", "mergeGroup", "deleteGroup", "createAccount", "deleteAccount", "createBook", "updateBook", "deleteBook"}
SYMMETRY Symmetry
INVARIANT OneUser
INVARIANT OneTagPerLabel
INVARIANT OneGroupPerLabel
INVARIANT OneAccountPerAddress
\* The requests of a behaviour are bounded: it ends when all are answered.
CHECK_DEADLOCK FALSE
