SPECIFICATION SerialSpec
CONSTANTS
  Request = {r1, r2, r3, r4, r5}
  None = None
  Label = {t1}
  GroupLabel = {g1}
  Address = {a1}
  Ops = {"signIn", "createAccount", "updateAccount", "createBook", "deleteBook"}
PROPERTY AnsweredUpdateWrote
\* The requests of a behaviour are bounded: it ends when all are answered.
CHECK_DEADLOCK FALSE
